------------------------------ MODULE TurnQueue ------------------------------
(***************************************************************************)
(* SessionTurnQueueService for one Session, over the durable receipts of   *)
(* TurnQueueStore, with the part of SessionRuntimeService that a dispatch  *)
(* and a queued input depend on.                                           *)
(*                                                                         *)
(* The actors are the drain loop, the queued inputs, one release, the run  *)
(* of the dispatched receipt, the user and the application (shutdown,      *)
(* crash).  Every await of the code that another actor can be scheduled at *)
(* separates two actions.  A storage call may fail, or commit and lose its *)
(* reply: MaxFaults bounds how often, MaxCrashes bounds the crashes.       *)
(***************************************************************************)
EXTENDS TurnQueueStore

CONSTANTS MaxFaults, MaxCrashes

ASSUME BoundsAssumption == MaxFaults \in Nat /\ MaxCrashes \in Nat

VARIABLES
  up,           \* the main process runs and has completed start()
  known,        \* owners.has(sessionId)
  closing,      \* closing
  blocked,      \* blocked.has(sessionId)
  edit,         \* the receipt named by edits.get(sessionId)
  lastClaim,    \* lastClaim.get(sessionId)
  wakeReq,      \* wakeRequested.has(sessionId)
  lock,         \* who holds the Session lock of withLock across an await
  drain,        \* the drain loop: where it is, its receipt, its result
  input,        \* per request: where its sendQueuedInput is
  release,      \* releaseInterrupted
  run,          \* the Session's run in SessionRuntimeService
  lateWork,     \* terminatingSessionRuns.has(sessionId) for provider work left behind
  providerBusy, \* the provider is not available for turns (settings cleanup)
  sent,         \* history: how often a request was handed to the provider
  faults,       \* storage faults so far
  crashes       \* crashes so far

memoryVars == <<known, closing, blocked, edit, lastClaim>>
runtimeVars == <<run, lateWork, providerBusy, sent>>
vars == <<storeVars, up, memoryVars, wakeReq, lock, drain, input, release,
          runtimeVars, faults, crashes>>

Idle     == [pc |-> "idle", id |-> NoRequest, result |-> "none", todo |-> {}]
Entering == [Idle EXCEPT !.pc = "enter"]
NoInput  == [r \in Requests |-> "idle"]
NoRelease == [pc |-> "idle", id |-> NoRequest, free |-> FALSE]
NoRun    == [phase |-> "none", id |-> NoRequest, aborted |-> FALSE, detached |-> FALSE,
             inputLost |-> FALSE, outcome |-> "none"]

(* isRunInFlight of the runtime, and the queue's own isRunInFlight.         *)
PendingInput == {r \in Requests : input[r] \in {"sending", "dispatched"}}
RuntimeBusy == run.phase # "none" \/ lateWork \/ PendingInput # {}

(* Mutant: terminating work is not in flight.                               *)
InFlightButCleanup == run.phase # "none" \/ PendingInput # {} \/ providerBusy

InFlight    == RuntimeBusy \/ providerBusy

Fault == faults < MaxFaults /\ faults' = faults + 1

-----------------------------------------------------------------------------
(* wake(), as the last statement of a handler: it reads the memory the      *)
(* handler leaves behind.                                                   *)

MayWake == known /\ ~closing /\ ~blocked /\ edit = NoRequest

Wake ==
  IF ~MayWake' THEN UNCHANGED <<drain, wakeReq>>
  ELSE IF drain.pc = "idle" THEN drain' = Entering /\ UNCHANGED wakeReq
  ELSE wakeReq' = TRUE /\ UNCHANGED drain

(* Mutant: nobody observes the release.                                     *)
ReleaseUnobserved == UNCHANGED <<drain, wakeReq>>

(* releaseCancellationState: the release observer wakes the queue once no   *)
(* guard of the run is left.                                                *)
SignalRelease == IF RuntimeBusy' THEN UNCHANGED <<drain, wakeReq>> ELSE Wake

(* The drain promise settles: it leaves the map and a wake that arrived     *)
(* while it ran is repeated.                                                *)
DrainEnds ==
  /\ wakeReq' = FALSE
  /\ drain' = IF wakeReq /\ MayWake' THEN Entering ELSE Idle

DrainGoesTo(pc) == drain' = [drain EXCEPT !.pc = pc] /\ UNCHANGED wakeReq

-----------------------------------------------------------------------------
(* The application.                                                         *)

Init ==
  /\ StoreInit
  /\ up = TRUE
  /\ known = FALSE /\ closing = FALSE /\ blocked = FALSE
  /\ edit = NoRequest /\ lastClaim = NoRequest
  /\ wakeReq = FALSE /\ lock = "free"
  /\ drain = Idle /\ input = NoInput /\ release = NoRelease
  /\ run = NoRun /\ lateWork = FALSE /\ providerBusy = FALSE
  /\ sent = [r \in Requests |-> 0]
  /\ faults = 0 /\ crashes = 0

Crash ==
  /\ up /\ crashes < MaxCrashes
  /\ up' = FALSE
  /\ crashes' = crashes + 1
  /\ known' = FALSE /\ closing' = FALSE /\ blocked' = FALSE
  /\ edit' = NoRequest /\ lastClaim' = NoRequest
  /\ wakeReq' = FALSE /\ lock' = "free"
  /\ drain' = Idle /\ input' = NoInput /\ release' = NoRelease
  /\ run' = NoRun /\ lateWork' = FALSE /\ providerBusy' = FALSE
  /\ UNCHANGED <<storeVars, sent, faults>>

(* recoverInterruptedSessions, then start().                                *)
Restart ==
  /\ ~up
  /\ up' = TRUE
  /\ RecoverInterrupted
  /\ known' = IsPendingOwner'
  /\ UNCHANGED <<closing, blocked, edit, lastClaim>>
  /\ Wake
  /\ UNCHANGED <<lock, input, release, runtimeVars, faults, crashes>>

(* The start of a quit or of database maintenance ...                       *)
BeginShutdown ==
  /\ up /\ ~closing
  /\ closing' = TRUE
  /\ wakeReq' = FALSE
  /\ UNCHANGED <<storeVars, up, known, blocked, edit, lastClaim, lock, drain, input,
                 release, runtimeVars, faults, crashes>>

(* ... and its abandonment.                                                 *)
Resume ==
  /\ up /\ closing
  /\ closing' = FALSE
  /\ UNCHANGED <<known, blocked, edit, lastClaim>>
  /\ Wake
  /\ UNCHANGED <<storeVars, up, lock, input, release, runtimeVars, faults, crashes>>

ProviderBecomesBusy ==
  /\ up /\ ~providerBusy
  /\ providerBusy' = TRUE
  /\ UNCHANGED <<storeVars, up, memoryVars, wakeReq, lock, drain, input, release,
                 run, lateWork, sent, faults, crashes>>

(* onProviderTurnAvailable.                                                 *)
ProviderBecomesAvailable ==
  /\ up /\ providerBusy
  /\ providerBusy' = FALSE
  /\ UNCHANGED memoryVars
  /\ Wake
  /\ UNCHANGED <<storeVars, up, lock, input, release, run, lateWork, sent, faults, crashes>>

-----------------------------------------------------------------------------
(* The user's operations that make one storage call under the lock.         *)

UserMay == up /\ ~closing /\ lock = "free"

(* Acceptance; when the reply is lost the receipt is saved but the service  *)
(* neither adopts the owner nor wakes.                                      *)
Accept(r) ==
  /\ UserMay
  /\ Enqueue(r)
  /\ UNCHANGED <<closing, blocked, edit, lastClaim>>
  /\ \/ known' = TRUE /\ Wake /\ UNCHANGED faults
     \/ Fault /\ UNCHANGED <<known, drain, wakeReq>>
  /\ UNCHANGED <<up, lock, input, release, runtimeVars, crashes>>

(* The receipt of a known request is read again (a repeated acceptance, or  *)
(* getSessionTurnQueueReceipt) and reconciled without the lock.             *)
Lookup(r) ==
  /\ up
  /\ rcpt[r].state # "absent"
  /\ known' = TRUE
  /\ blocked' = (blocked /\ ~(lastClaim = r /\ rcpt[r].state \in Terminal))
  /\ UNCHANGED <<closing, edit, lastClaim>>
  /\ Wake
  /\ UNCHANGED <<storeVars, up, lock, input, release, runtimeVars, faults, crashes>>

Cancel(r) ==
  /\ UserMay
  /\ edit # r
  /\ CancelQueued(r)
  /\ UNCHANGED memoryVars
  /\ \/ Wake /\ UNCHANGED faults
     \/ Fault /\ UNCHANGED <<drain, wakeReq>>
  /\ UNCHANGED <<up, lock, input, release, runtimeVars, crashes>>

MoveQueued(r, q) ==
  /\ UserMay
  /\ r # q
  /\ Reorder(r, q)
  /\ UNCHANGED <<up, memoryVars, wakeReq, lock, drain, input, release, runtimeVars,
                 faults, crashes>>

(* Mutant: an edit begins without the lock, on a list read earlier.         *)
BeginEditUnlocked(r) ==
  /\ up /\ ~closing
  /\ edit = NoRequest
  /\ rcpt[r].state \in {"queued", "starting"}
  /\ edit' = r
  /\ known' = TRUE
  /\ UNCHANGED <<storeVars, up, closing, blocked, lastClaim, wakeReq, lock, drain, input,
                 release, runtimeVars, faults, crashes>>

BeginEdit(r) ==
  /\ UserMay
  /\ edit = NoRequest
  /\ rcpt[r].state = "queued"
  /\ edit' = r
  /\ known' = TRUE
  /\ UNCHANGED <<storeVars, up, closing, blocked, lastClaim, wakeReq, lock, drain, input,
                 release, runtimeVars, faults, crashes>>

(* The edit is saved, canceled, or released with its window.                *)
EndEdit ==
  /\ up /\ lock = "free"
  /\ edit # NoRequest
  /\ edit' = NoRequest
  /\ UNCHANGED <<known, closing, blocked, lastClaim>>
  /\ Wake
  /\ UNCHANGED <<storeVars, up, lock, input, release, runtimeVars, faults, crashes>>

(* releaseInterrupted: whether the run is released is read before the       *)
(* storage call and used in it, whatever the receipt is by then.            *)
ReleaseBegins(r) ==
  /\ UserMay
  /\ rcpt[r].state # "absent"
  /\ lock' = "release"
  /\ release' = [pc |-> "commit", id |-> r, free |-> ~InFlight]
  /\ UNCHANGED <<storeVars, up, memoryVars, wakeReq, drain, input, runtimeVars,
                 faults, crashes>>

(* Mutant: the lock is not left.                                            *)
ReleaseCommitsLocked ==
  /\ release.pc = "commit"
  /\ ReleaseInterrupted(release.id, release.free) \/ UNCHANGED storeVars
  /\ release' = NoRelease
  /\ UNCHANGED <<up, memoryVars, wakeReq, lock, drain, input, runtimeVars, faults, crashes>>

(* A terminal receipt is left as it is.  Any other is refused, and nothing  *)
(* is woken; nor is it when the call fails, before or after its commit.     *)
ReleaseCommits ==
  /\ release.pc = "commit"
  /\ lock' = "free"
  /\ release' = NoRelease
  /\ UNCHANGED <<known, closing, edit, lastClaim>>
  /\ \/ /\ \/ ReleaseInterrupted(release.id, release.free)
           \/ rcpt[release.id].state \in Terminal /\ UNCHANGED storeVars
        /\ blocked' = (blocked /\ ~known) /\ Wake /\ UNCHANGED faults
     \/ /\ rcpt[release.id].state \notin Terminal \cup {"interrupted"}
        /\ UNCHANGED <<storeVars, blocked, drain, wakeReq, faults>>
     \/ /\ Fault
        /\ ReleaseInterrupted(release.id, release.free) \/ UNCHANGED storeVars
        /\ UNCHANGED <<blocked, drain, wakeReq>>
  /\ UNCHANGED <<up, input, runtimeVars, crashes>>


-----------------------------------------------------------------------------
(* The drain loop.  A transaction that throws ends it with the Session      *)
(* blocked.                                                                 *)

DrainLeavesLock == lock' = "free" /\ DrainEnds

(* The first look under the lock, before listActive.                        *)
DrainEnter ==
  /\ drain.pc = "enter" /\ lock = "free"
  /\ UNCHANGED <<storeVars, up, memoryVars, input, release, runtimeVars, faults, crashes>>
  /\ IF closing \/ blocked \/ edit # NoRequest \/ InFlight
     THEN DrainLeavesLock
     ELSE lock' = "drain" /\ DrainGoesTo("list")

(* Mutant: released receipts do not converge before the claim.              *)
DrainListOnly ==
  /\ drain.pc = "list"
  /\ UNCHANGED <<storeVars, up, memoryVars, input, release, runtimeVars, faults, crashes>>
  /\ IF closing \/ InFlight
     THEN DrainLeavesLock
     ELSE /\ drain' = [drain EXCEPT !.pc = "converge"]
          /\ UNCHANGED <<wakeReq, lock>>

(* listActive answers, and the guards are looked at again.                  *)
DrainList ==
  /\ drain.pc = "list"
  /\ UNCHANGED <<storeVars, up, memoryVars, input, release, runtimeVars, faults, crashes>>
  /\ IF closing \/ InFlight
     THEN DrainLeavesLock
     ELSE /\ drain' = [drain EXCEPT !.pc = "converge",
                                    !.todo = InState({"interrupted"}) \ Unreleased]
          /\ UNCHANGED <<wakeReq, lock>>

(* One released receipt is released again, now that no run is in flight.    *)
DrainConverge(r) ==
  /\ drain.pc = "converge" /\ r \in drain.todo
  /\ ReleaseInterrupted(r, TRUE)
  /\ UNCHANGED <<up, memoryVars, input, release, runtimeVars, faults, crashes>>
  /\ IF closing \/ InFlight
     THEN DrainLeavesLock
     ELSE drain' = [drain EXCEPT !.todo = @ \ {r}] /\ UNCHANGED <<wakeReq, lock>>

CanClaim == Holding = {} /\ Queued # {}

(* claimNext; its reply is on the way when it returned a receipt.           *)
DrainClaim ==
  /\ drain.pc = "converge" /\ drain.todo = {}
  /\ UNCHANGED <<up, memoryVars, input, release, runtimeVars, faults, crashes>>
  /\ \/ \E r \in Requests :
          /\ ClaimNext(r)
          /\ drain' = [drain EXCEPT !.pc = "claimed", !.id = r]
          /\ UNCHANGED <<wakeReq, lock>>
     \/ ~CanClaim /\ DrainLeavesLock /\ UNCHANGED storeVars

(* A storage call of the locked part throws, whatever it committed.         *)
DrainStorageFails ==
  /\ drain.pc \in {"list", "converge"}
  /\ Fault
  /\ blocked' = TRUE
  /\ UNCHANGED <<known, closing, edit, lastClaim>>
  /\ DrainLeavesLock
  /\ \/ UNCHANGED storeVars
     \/ \E r \in drain.todo : drain.pc = "converge" /\ ReleaseInterrupted(r, TRUE)
     \/ \E r \in Requests : drain.pc = "converge" /\ drain.todo = {} /\ ClaimNext(r)
  /\ UNCHANGED <<up, input, release, runtimeVars, crashes>>

(* The reply of claimNext: the lock is left and the receipt dispatched.     *)
DrainDispatch ==
  /\ drain.pc = "claimed"
  /\ lock' = "free"
  /\ lastClaim' = drain.id
  /\ run' = [NoRun EXCEPT !.phase = "setup", !.id = drain.id]
  /\ DrainGoesTo("dispatch")
  /\ UNCHANGED <<storeVars, up, known, closing, blocked, edit, input, release, lateWork,
                 providerBusy, sent, faults, crashes>>

(* The run returned an outcome; a settlement whose reply is lost, or that   *)
(* failed, is looked up.                                                    *)
DrainSettle ==
  /\ drain.pc = "settle"
  /\ UNCHANGED <<up, known, closing, edit, lastClaim, lock, input, release, runtimeVars,
                 crashes>>
  /\ \/ Settle(drain.id, drain.result) /\ DrainGoesTo("check") /\ UNCHANGED <<blocked, faults>>
     \/ /\ Fault
        /\ Settle(drain.id, drain.result) \/ UNCHANGED storeVars
        /\ blocked' = TRUE
        /\ DrainGoesTo("confirm")

DrainConfirm ==
  /\ drain.pc = "confirm"
  /\ UNCHANGED <<storeVars, up, known, closing, edit, lastClaim, lock, input, release,
                 runtimeVars, crashes>>
  /\ \/ /\ rcpt[drain.id].state \in Terminal
        /\ blocked' = FALSE
        /\ DrainGoesTo("check")
        /\ UNCHANGED faults
     \/ /\ rcpt[drain.id].state \notin Terminal
        /\ UNCHANGED <<blocked, faults>>
        /\ DrainEnds
     \/ Fault /\ blocked' = TRUE /\ DrainEnds

(* The run threw: the outcome is unknown unless a terminal was committed.   *)
DrainInterrupt ==
  /\ drain.pc = "interrupt"
  /\ UNCHANGED <<up, known, closing, edit, lastClaim, lock, input, release, runtimeVars,
                 crashes>>
  /\ \/ /\ rcpt[drain.id].state \in Terminal
        /\ Settle(drain.id, "interrupted")
        /\ blocked' = FALSE
        /\ DrainGoesTo("check")
        /\ UNCHANGED faults
     \/ /\ rcpt[drain.id].state \notin Terminal
        /\ Settle(drain.id, "interrupted")
        /\ UNCHANGED <<blocked, faults>>
        /\ DrainEnds
     \/ /\ Fault
        /\ Settle(drain.id, "interrupted") \/ UNCHANGED storeVars
        /\ blocked' = TRUE
        /\ DrainEnds

(* A terminal answer is not the release of the guards.                      *)
DrainCheck ==
  /\ drain.pc = "check"
  /\ UNCHANGED <<storeVars, up, memoryVars, lock, input, release, runtimeVars, faults,
                 crashes>>
  /\ IF InFlight \/ closing \/ blocked THEN DrainEnds ELSE DrainGoesTo("enter")

DrainStep ==
  \/ DrainEnter \/ DrainList \/ DrainClaim \/ DrainStorageFails \/ DrainDispatch
  \/ DrainSettle \/ DrainConfirm \/ DrainInterrupt \/ DrainCheck
  \/ \E r \in Requests : DrainConverge(r)

-----------------------------------------------------------------------------
(* The run of the dispatched receipt, as the queue sees it.                 *)

(* dispatch() resolves: the release observer is called first.               *)
Finish(result) ==
  /\ run' = NoRun
  /\ drain' = [drain EXCEPT !.pc = "settle", !.result = result]
  /\ wakeReq' = (wakeReq \/ (~RuntimeBusy' /\ MayWake))
  /\ UNCHANGED blocked

(* dispatch() rejects.                                                      *)
Reject ==
  /\ drain' = [drain EXCEPT !.pc = "interrupt"]
  /\ blocked' = TRUE

(* The run throws: dispatch() rejects, unless it did at the cancel deadline. *)
Throw ==
  /\ run' = NoRun
  /\ IF run.detached
     THEN UNCHANGED blocked /\ SignalRelease
     ELSE Reject /\ wakeReq' = (wakeReq \/ (~RuntimeBusy' /\ MayWake))

GoesTo(phase) == run' = [run EXCEPT !.phase = phase] /\ UNCHANGED <<blocked, drain, wakeReq>>

RunUnchanged == UNCHANGED <<up, known, closing, edit, lastClaim, lock, input, release,
                            lateWork, providerBusy, crashes>>

(* cancelRun; repeated requests change nothing.                             *)
RunCancel ==
  /\ run.phase # "none" /\ ~run.aborted
  /\ RunUnchanged
  /\ run' = [run EXCEPT !.aborted = TRUE]
  /\ UNCHANGED <<storeVars, blocked, drain, wakeReq, sent, faults>>

(* Admission or setup ends before the start transaction is issued: with a   *)
(* preflight failure, a cancellation, or an error of unknown kind.          *)
RunSetupEnds ==
  /\ run.phase = "setup"
  /\ RunUnchanged
  /\ \/ ~run.detached /\ Finish("failed")
     \/ ~run.detached /\ run.aborted /\ Finish("canceled")
     \/ Throw
  /\ UNCHANGED <<storeVars, sent, faults>>

(* The grace period after a cancellation ends while setup is pending: the   *)
(* call is rejected and the work is kept as a terminating run.              *)
RunCancelDeadline ==
  /\ run.phase \in {"setup", "persisting", "persisted"}
  /\ RunUnchanged
  /\ run.aborted /\ ~run.detached
  /\ run' = [run EXCEPT !.detached = TRUE]
  /\ Reject
  /\ UNCHANGED <<storeVars, wakeReq, sent, faults>>

RunPersistIssues ==
  /\ run.phase = "setup" /\ ~run.aborted
  /\ RunUnchanged
  /\ runState = "idle"
  /\ GoesTo("persisting")
  /\ UNCHANGED <<storeVars, sent, faults>>

(* persistQueuedTurnStart commits, or throws whatever it committed.         *)
RunPersists ==
  /\ run.phase = "persisting"
  /\ RunUnchanged
  /\ \/ StartTurn(run.id) /\ GoesTo("persisted") /\ UNCHANGED faults
     \/ rcpt[run.id].state # "starting" /\ Throw /\ UNCHANGED <<storeVars, faults>>
     \/ Fault /\ Throw /\ (StartTurn(run.id) \/ UNCHANGED storeVars)
  /\ UNCHANGED sent

(* Mutant: a cancellation is not looked at after the start.                 *)
RunMarksRegardless ==
  /\ run.phase = "persisted"
  /\ RunUnchanged
  /\ \/ MarkStarted(run.id) /\ GoesTo("ready") /\ UNCHANGED faults
     \/ rcpt[run.id].state # "running" /\ Throw /\ UNCHANGED <<storeVars, faults>>
     \/ Fault /\ Throw /\ UNCHANGED storeVars
  /\ UNCHANGED sent

(* onStarted confirms the turn; a cancellation is looked at once more.      *)
RunMarks ==
  /\ run.phase = "persisted"
  /\ RunUnchanged
  /\ \/ /\ MarkStarted(run.id)
        /\ IF run.aborted THEN Throw ELSE GoesTo("ready")
        /\ UNCHANGED faults
     \/ rcpt[run.id].state # "running" /\ Throw /\ UNCHANGED <<storeVars, faults>>
     \/ Fault /\ Throw /\ UNCHANGED storeVars
  /\ UNCHANGED sent

(* The provider is called, or fails to prepare.                             *)
RunCallsProvider ==
  /\ run.phase = "ready"
  /\ RunUnchanged
  /\ \/ GoesTo("provider") /\ sent' = [sent EXCEPT ![run.id] = @ + 1]
     \/ /\ run' = [run EXCEPT !.phase = "saving",
                              !.outcome = IF run.aborted THEN "canceled" ELSE "failed"]
        /\ UNCHANGED <<sent, blocked, drain, wakeReq>>
  /\ UNCHANGED <<storeVars, faults>>

(* The provider answers, fails, or outlives its cancellation; it may leave  *)
(* cleanup behind.                                                          *)
RunProviderEnds ==
  /\ run.phase = "provider"
  /\ \E outcome \in Terminal, late \in BOOLEAN :
       /\ outcome = "canceled" => run.aborted
       /\ run' = [run EXCEPT !.phase = "saving", !.outcome = outcome]
       /\ lateWork' = (lateWork \/ late)
  /\ UNCHANGED <<storeVars, up, memoryVars, wakeReq, lock, drain, input, release,
                 providerBusy, sent, faults, crashes>>

(* A dispatched input is waited for; when what it saved is not known the    *)
(* terminal is not saved either.                                            *)
RunSaves ==
  /\ run.phase = "saving"
  /\ RunUnchanged
  /\ "dispatched" \notin {input[r] : r \in Requests}
  /\ \/ run.inputLost /\ Throw /\ UNCHANGED <<storeVars, faults>>
     \/ /\ ~run.inputLost
        /\ AppendTerminal(run.id, run.outcome)
        /\ Finish(run.outcome)
        /\ UNCHANGED faults
     \/ /\ ~run.inputLost /\ Fault /\ Throw
        /\ AppendTerminal(run.id, run.outcome) \/ UNCHANGED storeVars
  /\ UNCHANGED sent

RunStep ==
  \/ RunSetupEnds \/ RunCancelDeadline \/ RunPersistIssues \/ RunPersists \/ RunMarks
  \/ RunCallsProvider \/ RunProviderEnds \/ RunSaves

(* Provider cleanup left behind by a run ends.                              *)
LateWorkEnds ==
  /\ lateWork
  /\ UNCHANGED <<storeVars, up, lock, input, release, run, providerBusy, sent, faults,
                 crashes>>
  /\ lateWork' = FALSE
  /\ UNCHANGED memoryVars
  /\ SignalRelease

-----------------------------------------------------------------------------
(* Queued inputs: sendQueuedInput of the queue around sendSessionInput of   *)
(* the runtime.                                                             *)

InputGoesTo(r, pc) == input' = [input EXCEPT ![r] = pc]

(* Mutant: the block set by the failed input stays.                         *)
InputRestoredBlocked(r) ==
  /\ InputGoesTo(r, "idle")
  /\ blocked' = TRUE
  /\ lastClaim' = NoRequest
  /\ UNCHANGED <<known, closing, edit>>
  /\ Wake

(* The input goes back to the queue and its claim is forgotten.             *)
InputRestored(r) ==
  /\ InputGoesTo(r, "idle")
  /\ blocked' = FALSE
  /\ lastClaim' = NoRequest
  /\ UNCHANGED <<known, closing, edit>>
  /\ Wake

(* The claim, for the turn t the user saw.  When its reply is lost the      *)
(* claim is found and undone under the same lock; when the look-up fails    *)
(* too, the Session is only blocked.                                        *)
InputClaim(r, t) ==
  /\ UserMay
  /\ edit # r /\ input[r] = "idle"
  /\ rcpt[t].turn /\ ~IsInput(t)
  /\ \/ /\ ClaimForInput(r, t)
        /\ known' = TRUE /\ lastClaim' = r
        /\ InputGoesTo(r, "claimed")
        /\ UNCHANGED <<blocked, lock, faults>>
     \/ /\ Fault
        /\ ClaimForInput(r, t)
        /\ known' = TRUE /\ lastClaim' = r /\ blocked' = TRUE
        /\ InputGoesTo(r, "reclaim")
        /\ lock' = "input"
     \/ /\ Fault
        /\ rcpt[r].state = "queued"
        /\ ClaimForInput(r, t) \/ UNCHANGED storeVars
        /\ blocked' = (blocked \/ known)
        /\ UNCHANGED <<known, lastClaim, input, lock>>
  /\ UNCHANGED <<up, closing, edit, wakeReq, drain, release, runtimeVars, crashes>>

InputStaysBlocked(r) ==
  /\ InputGoesTo(r, "idle")
  /\ blocked' = TRUE
  /\ UNCHANGED <<known, closing, edit, lastClaim, wakeReq, drain>>

(* restoreInputClaim: restored (a lost reply is found by reading);          *)
(* otherwise interrupted, or left as it is, and the Session blocked.        *)
InputReclaim(r) ==
  /\ input[r] = "reclaim"
  /\ lock' = "free"
  /\ UNCHANGED <<up, release, runtimeVars, crashes>>
  /\ \/ RestoreInput(r) /\ InputRestored(r) /\ UNCHANGED faults
     \/ /\ Fault
        /\ RestoreInput(r) \/ Settle(r, "interrupted") \/ UNCHANGED storeVars
        /\ InputStaysBlocked(r)

(* One input of a Session is sent at a time.                                *)
InputSend(r) ==
  /\ input[r] = "claimed"
  /\ InputGoesTo(r, IF PendingInput = {} THEN "sending" ELSE "failedPre")
  /\ UNCHANGED <<storeVars, up, memoryVars, wakeReq, lock, drain, release, runtimeVars,
                 faults, crashes>>

(* Mutant: a refused input is forgotten.                                    *)
InputRefusedForgotten(r) ==
  /\ input[r] = "sending"
  /\ UNCHANGED <<storeVars, up, lock, release, runtimeVars, faults, crashes>>
  /\ InputGoesTo(r, "idle")
  /\ UNCHANGED memoryVars
  /\ SignalRelease

(* Preparation ends before the provider is called ...                       *)
InputRefused(r) ==
  /\ input[r] = "sending"
  /\ UNCHANGED <<storeVars, up, lock, release, runtimeVars, faults, crashes>>
  /\ InputGoesTo(r, "failedPre")
  /\ UNCHANGED memoryVars
  /\ SignalRelease

(* ... or the turn the user saw still accepts input.                        *)
InputDispatch(r) ==
  /\ input[r] = "sending"
  /\ run.phase = "provider" /\ run.id = rcpt[r].input
  /\ ~run.aborted /\ ~lateWork
  /\ InputGoesTo(r, "dispatched")
  /\ sent' = [sent EXCEPT ![r] = @ + 1]
  /\ UNCHANGED <<storeVars, up, memoryVars, wakeReq, lock, drain, release, run, lateWork,
                 providerBusy, faults, crashes>>

(* The provider took the input and it is saved (a lost reply is found by    *)
(* reading); the provider's answer is unknown; or what was saved is.        *)
InputEnds(r) ==
  /\ input[r] = "dispatched"
  /\ UNCHANGED <<up, lock, release, lateWork, providerBusy, sent, crashes>>
  /\ UNCHANGED memoryVars
  /\ \/ AppendSteer(r) /\ InputGoesTo(r, "confirm") /\ UNCHANGED <<run, faults>>
     \/ InputGoesTo(r, "failedUnknown") /\ UNCHANGED <<storeVars, run, faults>>
     \/ /\ Fault
        /\ AppendSteer(r) \/ UNCHANGED storeVars
        /\ run' = [run EXCEPT !.inputLost = TRUE]
        /\ InputGoesTo(r, "failedRecovery")
  /\ SignalRelease

(* reconcileKnownReceipt of a completed input.                              *)
Reconcile(r) ==
  /\ known' = TRUE
  /\ blocked' = (blocked /\ lastClaim # r)
  /\ UNCHANGED <<closing, edit, lastClaim>>
  /\ Wake

(* The receipt is read again without the lock.                              *)
InputConfirm(r) ==
  /\ input[r] = "confirm"
  /\ \/ Reconcile(r) /\ InputGoesTo(r, "idle") /\ UNCHANGED faults
     \/ /\ Fault /\ InputGoesTo(r, "failedUnknown")
        /\ UNCHANGED <<memoryVars, wakeReq, drain>>
  /\ UNCHANGED <<storeVars, up, lock, release, runtimeVars, crashes>>

Saved(r) == rcpt[r].state = "completed"

(* Mutant: an unknown answer of the provider counts as not sent.            *)
NotSentOrUnknown(r) == input[r] \in {"failedPre", "failedUnknown"}

NotSent(r) == input[r] = "failedPre"

(* sendInput threw: under the lock the Session is blocked and the receipt   *)
(* read; a saved input is reconciled, one that was not sent is put back,    *)
(* and any other becomes interrupted.  A reply that is lost and found by    *)
(* reading ends like one that arrives.  The awaits of it are one step: the  *)
(* lock is held until the last of them, and what runs without the lock      *)
(* meanwhile (Reconcile of another input) may as well come after it.        *)
InputRecover(r) ==
  /\ input[r] \in {"failedPre", "failedUnknown", "failedRecovery"}
  /\ lock = "free"
  /\ UNCHANGED <<up, lock, release, runtimeVars, crashes>>
  /\ \/ /\ Saved(r) /\ input[r] # "failedRecovery"
        /\ known' = TRUE
        /\ blocked' = (lastClaim # r)
        /\ UNCHANGED <<storeVars, closing, edit, lastClaim, faults>>
        /\ Wake
        /\ InputGoesTo(r, "idle")
     \/ /\ Saved(r) /\ input[r] = "failedRecovery"
        /\ InputStaysBlocked(r)
        /\ UNCHANGED <<storeVars, faults>>
     \/ /\ NotSent(r)
        /\ RestoreInput(r)
        /\ InputRestored(r)
        /\ UNCHANGED faults
     \/ /\ ~NotSent(r) /\ ~Saved(r)
        /\ Settle(r, "interrupted")
        /\ InputStaysBlocked(r)
        /\ UNCHANGED faults
     \/ /\ Fault
        /\ \/ NotSent(r) /\ (RestoreInput(r) \/ Settle(r, "interrupted"))
           \/ UNCHANGED storeVars
        /\ InputStaysBlocked(r)

InputStep(r) ==
  \/ InputReclaim(r) \/ InputSend(r) \/ InputRefused(r) \/ InputDispatch(r)
  \/ InputEnds(r) \/ InputConfirm(r) \/ InputRecover(r)

-----------------------------------------------------------------------------

UserStep ==
  \/ EndEdit
  \/ RunCancel
  \/ \E r \in Requests :
       \/ Accept(r) \/ Lookup(r) \/ Cancel(r) \/ BeginEdit(r) \/ ReleaseBegins(r)
       \/ \E q \in Requests : MoveQueued(r, q) \/ InputClaim(r, q)

ApplicationStep ==
  \/ Crash \/ Restart \/ BeginShutdown \/ Resume
  \/ ProviderBecomesBusy \/ ProviderBecomesAvailable

Next ==
  \/ UserStep
  \/ ApplicationStep
  \/ DrainStep
  \/ RunStep
  \/ LateWorkEnds
  \/ ReleaseCommits
  \/ \E r \in Requests : InputStep(r)

Spec == Init /\ [][Next]_vars

(* What has begun goes on: the event loop runs every continuation, and      *)
(* storage calls, setup, providers and their cleanup end.  The lock is a    *)
(* chain of promises, so who waits for it gets it in turn (SF).  Nobody     *)
(* has to use the application, and no run has to be canceled.               *)
Fairness ==
  /\ WF_vars(DrainStep) /\ SF_vars(DrainEnter)
  /\ WF_vars(RunStep)
  /\ WF_vars(LateWorkEnds)
  /\ WF_vars(ReleaseCommits)
  /\ WF_vars(Restart)
  /\ \A r \in Requests : WF_vars(InputStep(r)) /\ SF_vars(InputRecover(r))

FairSpec == Spec /\ Fairness

-----------------------------------------------------------------------------

DrainType ==
  [pc : {"idle", "enter", "list", "converge", "claimed", "dispatch", "settle", "confirm",
         "interrupt", "check"},
   id : Requests \cup {NoRequest},
   result : Terminal \cup {"none"},
   todo : SUBSET Requests]

InputPcs == {"idle", "claimed", "reclaim", "sending", "dispatched", "confirm", "failedPre",
             "failedUnknown", "failedRecovery"}

ReleaseType == [pc : {"idle", "commit"}, id : Requests \cup {NoRequest}, free : BOOLEAN]

RunType ==
  [phase : {"none", "setup", "persisting", "persisted", "ready", "provider", "saving"},
   id : Requests \cup {NoRequest},
   aborted : BOOLEAN, detached : BOOLEAN, inputLost : BOOLEAN,
   outcome : Terminal \cup {"none"}]

(* Every variable has a value of its type.                                  *)
TypeOK ==
  /\ StoreTypeOK
  /\ up \in BOOLEAN /\ known \in BOOLEAN /\ closing \in BOOLEAN /\ blocked \in BOOLEAN
  /\ edit \in Requests \cup {NoRequest}
  /\ lastClaim \in Requests \cup {NoRequest}
  /\ wakeReq \in BOOLEAN
  /\ lock \in {"free", "drain", "release", "input"}
  /\ drain \in DrainType
  /\ input \in [Requests -> InputPcs]
  /\ release \in ReleaseType
  /\ run \in RunType
  /\ lateWork \in BOOLEAN /\ providerBusy \in BOOLEAN
  /\ sent \in [Requests -> Nat]
  /\ faults \in 0 .. MaxFaults
  /\ crashes \in 0 .. MaxCrashes

(* What the callers see of a receipt.                                       *)
StatusOf(r) ==
  CASE rcpt[r].state = "absent"      -> "none"
    [] rcpt[r].state = "queued"      -> "waiting"
    [] rcpt[r].state \in Executing   -> IF IsInput(r) THEN "input" ELSE "turn"
    [] rcpt[r].state \in Terminal    -> "ended"
    [] rcpt[r].state = "interrupted" -> IF rcpt[r].released THEN "released" ELSE "unknown"

(* The durable states, the calls and the crashes of this queue are those of *)
(* TurnQueueContract.                                                       *)
Contract == INSTANCE TurnQueueContract WITH
  calls  <- sent,
  status <- [r \in Requests |-> StatusOf(r)]

(* Every step of the queue, with its faults, crashes and restarts, is one   *)
(* its callers were promised, or changes nothing they can see.              *)
ImplementsContract == Contract!Spec

(* No request is handed to the provider twice, by whatever way it is sent   *)
(* and however often it is claimed, put back, lost in a crash or looked up  *)
(* after a lost reply: an unknown outcome is never resolved by running the  *)
(* request again.                                                           *)
AtMostOnce == \A r \in Requests : sent[r] <= 1

(* A request being edited stays queued: no claim, input or cancellation     *)
(* takes it from under the editor.                                          *)
EditedStaysQueued == edit # NoRequest => rcpt[edit].state = "queued"

(* A turn that is about to start finds the Session idle, although an        *)
(* earlier turn of unknown outcome may have left it running: releases that  *)
(* came too early converge before the next claim.                           *)
StartFindsIdleSession ==
  \A r \in InState({"starting"}) : ~IsInput(r) => runState = "idle"

(* While the provider works for a turn, and until the answer is saved, the  *)
(* turn is the Session's live one and its receipt still runs; no recovery,  *)
(* release or late setup of another run has taken it over.                  *)
RunOwnsTurn ==
  run.phase \in {"ready", "provider", "saving"} =>
    /\ rcpt[run.id].state = "running"
    /\ liveTurn = run.id
    /\ runState = "running"

(* Without storage faults the queue is blocked, once everything has come to *)
(* rest, only while there is an interrupted request the user can release.   *)
Quiet ==
  /\ drain.pc = "idle" /\ run.phase = "none" /\ release.pc = "idle"
  /\ \A r \in Requests : input[r] = "idle"

BlockedForAReason == Quiet /\ blocked => Unreleased # {}

(* A confirmed outcome never changes, whoever settles, cancels, saves or    *)
(* recovers later.                                                          *)
TerminalIsFinal ==
  [][\A r \in Requests : rcpt[r].state \in Terminal => rcpt'[r] = rcpt[r]]_vars

(* A turn is claimed only when no run, no provider cleanup and no input of  *)
(* the Session is in flight, although all of them were looked at before the *)
(* storage calls that lead to the claim.                                    *)
ClaimFindsNoRun ==
  [][\A r \in Requests :
       (/\ rcpt[r].state = "queued" /\ rcpt'[r].state = "starting"
        /\ rcpt'[r].input = NoRequest)
         => ~RuntimeBusy]_vars

(* When from some time on nothing holds the queue back, and the user does   *)
(* not go on taking its requests as inputs, all that is queued is run,      *)
(* although wakes that arrive while the loop runs are only noted.           *)
HeldBack ==
  \/ ~up \/ ~known \/ closing \/ blocked \/ providerBusy \/ edit # NoRequest
  \/ Unreleased # {}
  \/ \E r \in Requests : input[r] # "idle"

QueueDrains == <>[]~HeldBack => <>[](Queued = {})

(* An input that was claimed is completed, put back or declared unknown.    *)
InputsEnd ==
  \A r \in Requests :
    (rcpt[r].state = "starting" /\ IsInput(r)) ~> (rcpt[r].state # "starting")

(* Waiting for pending work after the start of a shutdown comes to an end.  *)
ShutdownFinishes == closing ~> (Quiet \/ ~closing)

(* docs/design/session-run-lifecycle.md: after a cancellation the Session   *)
(* is idle again.                                                           *)
CanceledRunLeavesIdle ==
  [][run.aborted /\ run'.phase = "none" /\ up' => runState' = "idle"]_vars

=============================================================================
