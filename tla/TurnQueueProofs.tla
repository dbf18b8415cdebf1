--------------------------- MODULE TurnQueueProofs ---------------------------
(***************************************************************************)
(* Theorems about the Turn queue for every set of requests and every bound *)
(* on faults and crashes.                                                  *)
(*                                                                         *)
(* Every step of the queue is a transaction of the store or leaves it      *)
(* alone, so the invariants of TurnQueueStoreProofs hold of the queue.     *)
(* That a request is handed over at most once needs to know, besides, who  *)
(* may act on which receipt: the drain and the run on receipts that are    *)
(* turns, an input on its own receipt, and a request that may still be     *)
(* sent, or put back, was not sent before.  IInv says so.                  *)
(***************************************************************************)
EXTENDS TurnQueue, TurnQueueStoreProofs

(* The process is down: nothing of it is left.                              *)
DownOK ==
  ~up => /\ drain.pc = "idle" /\ run.phase = "none" /\ release.pc = "idle"
         /\ edit = NoRequest /\ ~lateWork
         /\ \A r \in Requests : input[r] = "idle"

(* A lock that is held across an await is held by one actor.                *)
LockOK ==
  /\ lock = "drain" <=> drain.pc \in {"list", "converge", "claimed"}
  /\ lock = "release" <=> release.pc = "commit"
  /\ \A r \in Requests : input[r] = "reclaim" => lock = "input"
  /\ \A r, q \in Requests : input[r] = "reclaim" /\ input[q] = "reclaim" => r = q

(* The drain acts on a receipt that was claimed as a turn, and until it     *)
(* dispatches it there is no run.                                           *)
DrainOK ==
  /\ drain.pc \in {"claimed", "dispatch", "settle", "confirm", "interrupt", "check"}
       => /\ drain.id \in Requests
          /\ ~IsInput(drain.id)
          /\ rcpt[drain.id].state \notin {"absent", "queued"}
  /\ drain.pc \in {"list", "converge", "claimed"} => run.phase = "none"
  /\ drain.pc \in {"list", "converge"} => edit = NoRequest
  /\ drain.pc = "claimed" => rcpt[drain.id].state = "starting"
  /\ drain.pc = "settle" => drain.result \in Terminal

ReleaseOK == release.pc = "commit" => release.id \in Requests

(* The run acts on the receipt the drain dispatched and waits for, unless   *)
(* the cancel deadline detached it; then it does not get to the provider.   *)
RunOK ==
  run.phase # "none" =>
    /\ run.id \in Requests
    /\ ~IsInput(run.id)
    /\ rcpt[run.id].state \notin {"absent", "queued"}
    /\ ~run.detached => drain.pc = "dispatch" /\ drain.id = run.id
    /\ run.detached => run.aborted /\ run.phase \notin {"ready", "provider", "saving"}
    /\ run.phase = "saving" => run.outcome \in Terminal
    /\ (run.phase = "persisted" /\ rcpt[run.id].state = "running")
         => liveTurn = run.id /\ runState = "running"

(* An input acts on its own receipt.                                        *)
InputOK ==
  \A r \in Requests :
    /\ input[r] # "idle" => IsInput(r) /\ rcpt[r].state \notin {"absent", "queued"}
    /\ input[r] \in {"claimed", "reclaim", "sending", "dispatched", "failedPre"}
         => rcpt[r].state = "starting"

(* What may still be sent was not sent.                                     *)
SentOK ==
  /\ \A r \in Requests :
       /\ sent[r] <= 1
       /\ rcpt[r].state \in {"absent", "queued"} => sent[r] = 0 /\ ~IsInput(r)
       /\ rcpt[r].state = "starting" /\ ~IsInput(r) => sent[r] = 0
       /\ input[r] \in {"claimed", "reclaim", "sending", "failedPre"} => sent[r] = 0
  /\ run.phase \in {"setup", "persisting", "persisted", "ready"} => sent[run.id] = 0

IInv ==
  /\ TypeOK
  /\ DownOK /\ LockOK /\ DrainOK /\ ReleaseOK /\ RunOK /\ InputOK /\ SentOK
  /\ RunOwnsTurn /\ EditedStaysQueued

-----------------------------------------------------------------------------
(* What the wakes at the end of a handler may do to the drain.              *)
DrainWoken ==
  /\ drain' = drain \/ (drain.pc = "idle" /\ drain' = Entering)
  /\ wakeReq \in BOOLEAN => wakeReq' \in BOOLEAN

(* wake() starts an idle drain or notes the wake.                           *)
LEMMA WakeWakes == Wake => DrainWoken
BY DEF Wake, DrainWoken

(* The release observer wakes, or does nothing.                             *)
LEMMA SignalWakes == SignalRelease => DrainWoken
BY WakeWakes DEF SignalRelease, DrainWoken

(* The end of a drain leaves it idle, or starts the next one.               *)
LEMMA EndedDrain == DrainEnds => drain' \in {Idle, Entering} /\ wakeReq' \in BOOLEAN
BY DEF DrainEnds

(* What the handlers assign to the records is of the records' types.        *)
LEMMA RecordTypes ==
  /\ Idle \in DrainType /\ Entering \in DrainType
  /\ NoInput \in [Requests -> InputPcs] /\ NoRelease \in ReleaseType /\ NoRun \in RunType
BY DEF Idle, Entering, NoInput, NoRelease, NoRun, DrainType, InputPcs, ReleaseType, RunType,
       Terminal

DrainPcs  == {"list", "converge", "dispatch", "settle", "confirm", "interrupt", "check", "enter"}
RunPhases == {"persisting", "persisted", "ready", "provider"}

(* The drain goes to another place, with a receipt, a result or less to do. *)
LEMMA DrainUpdates ==
  ASSUME drain \in DrainType
  PROVE  /\ \A pc \in DrainPcs : [drain EXCEPT !.pc = pc] \in DrainType
         /\ \A r \in Requests : [drain EXCEPT !.pc = "claimed", !.id = r] \in DrainType
         /\ \A x \in Terminal : [drain EXCEPT !.pc = "settle", !.result = x] \in DrainType
         /\ \A S \in SUBSET Requests : [drain EXCEPT !.pc = "converge", !.todo = S] \in DrainType
         /\ \A r : [drain EXCEPT !.todo = @ \ {r}] \in DrainType
BY DEF DrainType, DrainPcs

(* The run goes to another phase, or one of its flags is set.               *)
LEMMA RunUpdates ==
  ASSUME run \in RunType
  PROVE  /\ \A phase \in RunPhases : [run EXCEPT !.phase = phase] \in RunType
         /\ \A x \in Terminal : [run EXCEPT !.phase = "saving", !.outcome = x] \in RunType
         /\ [run EXCEPT !.aborted = TRUE] \in RunType
         /\ [run EXCEPT !.detached = TRUE] \in RunType
         /\ [run EXCEPT !.inputLost = TRUE] \in RunType
         /\ \A r \in Requests : [NoRun EXCEPT !.phase = "setup", !.id = r] \in RunType
BY DEF RunType, RunPhases, NoRun

(* An input goes to another place.                                          *)
LEMMA InputUpdates ==
  ASSUME input \in [Requests -> InputPcs], NEW r \in Requests, NEW pc \in InputPcs,
         InputGoesTo(r, pc)
  PROVE  input' \in [Requests -> InputPcs]
BY DEF InputGoesTo

(* Faults are counted up to their bound.                                    *)
LEMMA FaultsCounted ==
  ASSUME faults \in 0 .. MaxFaults, Fault
  PROVE  faults' \in 0 .. MaxFaults
BY BoundsAssumption DEF Fault

(* What converges are requests.                                             *)
LEMMA ReleasedAreRequests == InState({"interrupted"}) \ Unreleased \in SUBSET Requests
BY DEF InState

-----------------------------------------------------------------------------
(* Every step of the queue is a transaction of the store, issued with       *)
(* arguments the store knows, or leaves the store alone.                    *)
LEMMA StepIsTransaction ==
  ASSUME IInv, [Next]_vars
  PROVE  [StoreNext]_storeVars
<1> USE DEF IInv, TypeOK
<1>1. ASSUME UserStep PROVE [StoreNext]_storeVars
  BY <1>1 DEF UserStep, EndEdit, RunCancel, Accept, Lookup, Cancel, BeginEdit, ReleaseBegins,
              MoveQueued, InputClaim, StoreNext, storeVars
<1>2. ASSUME ApplicationStep PROVE [StoreNext]_storeVars
  BY <1>2 DEF ApplicationStep, Crash, Restart, BeginShutdown, Resume, ProviderBecomesBusy,
              ProviderBecomesAvailable, StoreNext, storeVars
<1>3. ASSUME DrainStep PROVE [StoreNext]_storeVars
  <2>1. CASE DrainEnter \/ DrainList \/ DrainDispatch \/ DrainConfirm \/ DrainCheck
    BY <2>1 DEF DrainEnter, DrainList, DrainDispatch, DrainConfirm, DrainCheck
  <2>2. CASE DrainClaim
    BY <2>2 DEF DrainClaim, StoreNext
  <2>3. CASE DrainStorageFails
    BY <2>3 DEF DrainStorageFails, StoreNext, DrainType
  <2>4. CASE DrainSettle
    BY <2>4 DEF DrainSettle, StoreNext, DrainOK
  <2>5. CASE DrainInterrupt
    BY <2>5 DEF DrainInterrupt, StoreNext, DrainOK
  <2>6. CASE \E r \in Requests : DrainConverge(r)
    BY <2>6 DEF DrainConverge, StoreNext
  <2> QED BY <1>3, <2>1, <2>2, <2>3, <2>4, <2>5, <2>6 DEF DrainStep
<1>4. ASSUME RunStep PROVE [StoreNext]_storeVars
  <2>1. CASE RunSetupEnds \/ RunCancelDeadline \/ RunPersistIssues \/ RunCallsProvider
             \/ RunProviderEnds
    BY <2>1 DEF RunSetupEnds, RunCancelDeadline, RunPersistIssues, RunCallsProvider,
                RunProviderEnds
  <2>2. CASE RunPersists
    BY <2>2 DEF RunPersists, StoreNext, RunOK
  <2>3. CASE RunMarks
    BY <2>3 DEF RunMarks, StoreNext, RunOK
  <2>4. CASE RunSaves
    BY <2>4 DEF RunSaves, StoreNext, RunOK
  <2> QED BY <1>4, <2>1, <2>2, <2>3, <2>4 DEF RunStep
<1>5. ASSUME LateWorkEnds PROVE [StoreNext]_storeVars
  BY <1>5 DEF LateWorkEnds
<1>6. ASSUME ReleaseCommits PROVE [StoreNext]_storeVars
  BY <1>6 DEF ReleaseCommits, ReleaseOK, ReleaseType, StoreNext
<1>7. ASSUME NEW r \in Requests, InputStep(r) PROVE [StoreNext]_storeVars
  BY <1>7 DEF InputStep, InputReclaim, InputStaysBlocked, InputSend, InputRefused, InputDispatch, InputEnds,
              InputConfirm, InputRecover, StoreNext
<1>8. ASSUME UNCHANGED vars PROVE [StoreNext]_storeVars
  BY <1>8 DEF vars
<1> QED BY <1>1, <1>2, <1>3, <1>4, <1>5, <1>6, <1>7, <1>8 DEF Next

(* Every step keeps every variable in its type.                             *)
LEMMA TypeStep ==
  ASSUME IInv, [Next]_vars
  PROVE  TypeOK'
<1>0. StoreTypeOK'
  BY StepIsTransaction, StoreTypes DEF IInv, TypeOK
<1> USE <1>0, RecordTypes, FaultsCounted DEF IInv, TypeOK, memoryVars, runtimeVars
<1>1. ASSUME UserStep PROVE TypeOK'
  <2>1. CASE EndEdit
    BY <2>1, WakeWakes DEF EndEdit, DrainWoken
  <2>2. CASE RunCancel
    BY <2>2, RunUpdates DEF RunCancel, RunUnchanged
  <2>3. ASSUME NEW r \in Requests, Accept(r) PROVE TypeOK'
    <3>1. drain' \in DrainType /\ wakeReq' \in BOOLEAN /\ known' \in BOOLEAN
      BY <2>3, WakeWakes DEF Accept, DrainWoken
    <3>2. faults' \in 0 .. MaxFaults
      BY <2>3 DEF Accept
    <3> QED BY <2>3, <3>1, <3>2 DEF Accept
  <2>4. ASSUME NEW r \in Requests, Lookup(r) PROVE TypeOK'
    BY <2>4, WakeWakes DEF Lookup, DrainWoken
  <2>5. ASSUME NEW r \in Requests, Cancel(r) PROVE TypeOK'
    BY <2>5, WakeWakes DEF Cancel, DrainWoken
  <2>6. ASSUME NEW r \in Requests, BeginEdit(r) PROVE TypeOK'
    BY <2>6 DEF BeginEdit
  <2>7. ASSUME NEW r \in Requests, ReleaseBegins(r) PROVE TypeOK'
    BY <2>7 DEF ReleaseBegins, ReleaseType
  <2>8. ASSUME NEW r \in Requests, NEW q \in Requests, MoveQueued(r, q) PROVE TypeOK'
    BY <2>8 DEF MoveQueued
  <2>9. ASSUME NEW r \in Requests, NEW q \in Requests, InputClaim(r, q) PROVE TypeOK'
    BY <2>9, InputUpdates DEF InputClaim, InputPcs
  <2> QED BY <1>1, <2>1, <2>2, <2>3, <2>4, <2>5, <2>6, <2>7, <2>8, <2>9 DEF UserStep
<1>2. ASSUME ApplicationStep PROVE TypeOK'
  <2>1. CASE Crash
    <3>1. crashes' \in 0 .. MaxCrashes
      BY <2>1, BoundsAssumption DEF Crash
    <3> QED BY <2>1, <3>1 DEF Crash
  <2>2. CASE Restart
    BY <2>2, WakeWakes DEF Restart, DrainWoken, IsPendingOwner
  <2>3. CASE BeginShutdown \/ ProviderBecomesBusy
    BY <2>3 DEF BeginShutdown, ProviderBecomesBusy
  <2>4. CASE Resume \/ ProviderBecomesAvailable
    BY <2>4, WakeWakes DEF Resume, ProviderBecomesAvailable, DrainWoken
  <2> QED BY <1>2, <2>1, <2>2, <2>3, <2>4 DEF ApplicationStep
<1>3. ASSUME DrainStep PROVE TypeOK'
  <2>1. CASE DrainEnter
    BY <2>1, EndedDrain, DrainUpdates DEF DrainEnter, DrainLeavesLock, DrainGoesTo, DrainPcs
  <2>2. CASE DrainList
    <3>1. drain' \in DrainType /\ wakeReq' \in BOOLEAN
      BY <2>2, EndedDrain, DrainUpdates, ReleasedAreRequests DEF DrainList, DrainLeavesLock
    <3> QED BY <2>2, <3>1 DEF DrainList, DrainLeavesLock
  <2>3. CASE DrainClaim
    <3>1. drain' \in DrainType /\ wakeReq' \in BOOLEAN
      BY <2>3, EndedDrain, DrainUpdates DEF DrainClaim, DrainLeavesLock
    <3> QED BY <2>3, <3>1 DEF DrainClaim, DrainLeavesLock
  <2>4. CASE DrainStorageFails
    BY <2>4, EndedDrain DEF DrainStorageFails, DrainLeavesLock
  <2>5. CASE DrainDispatch
    BY <2>5, DrainUpdates, RunUpdates DEF DrainDispatch, DrainGoesTo, DrainPcs, DrainOK
  <2>6. CASE DrainSettle
    <3>1. drain' \in DrainType /\ wakeReq' \in BOOLEAN
      BY <2>6, DrainUpdates DEF DrainSettle, DrainGoesTo, DrainPcs
    <3> QED BY <2>6, <3>1 DEF DrainSettle
  <2>7. CASE DrainConfirm
    <3>1. drain' \in DrainType /\ wakeReq' \in BOOLEAN
      BY <2>7, EndedDrain, DrainUpdates DEF DrainConfirm, DrainGoesTo, DrainPcs
    <3>2. blocked' \in BOOLEAN /\ faults' \in 0 .. MaxFaults
      BY <2>7 DEF DrainConfirm
    <3> QED BY <2>7, <3>1, <3>2 DEF DrainConfirm
  <2>8. CASE DrainInterrupt
    <3>1. drain' \in DrainType /\ wakeReq' \in BOOLEAN
      BY <2>8, EndedDrain, DrainUpdates DEF DrainInterrupt, DrainGoesTo, DrainPcs
    <3>2. blocked' \in BOOLEAN /\ faults' \in 0 .. MaxFaults
      BY <2>8 DEF DrainInterrupt
    <3> QED BY <2>8, <3>1, <3>2 DEF DrainInterrupt
  <2>9. CASE DrainCheck
    <3>1. drain' \in DrainType /\ wakeReq' \in BOOLEAN
      BY <2>9, EndedDrain, DrainUpdates DEF DrainCheck, DrainGoesTo, DrainPcs
    <3> QED BY <2>9, <3>1 DEF DrainCheck
  <2>10. ASSUME NEW r \in Requests, DrainConverge(r) PROVE TypeOK'
    <3>1. drain' \in DrainType /\ wakeReq' \in BOOLEAN
      BY <2>10, EndedDrain, DrainUpdates DEF DrainConverge, DrainLeavesLock
    <3> QED BY <2>10, <3>1 DEF DrainConverge, DrainLeavesLock
  <2> QED BY <1>3, <2>1, <2>2, <2>3, <2>4, <2>5, <2>6, <2>7, <2>8, <2>9, <2>10 DEF DrainStep
<1>4. ASSUME RunStep PROVE TypeOK'
  <2> USE DEF RunUnchanged
  <2>1. ASSUME NEW result \in Terminal, Finish(result)
        PROVE  /\ run' \in RunType /\ drain' \in DrainType /\ wakeReq' \in BOOLEAN
               /\ blocked' \in BOOLEAN
    BY <2>1, DrainUpdates DEF Finish, MayWake
  <2>2. ASSUME Throw
        PROVE  /\ run' \in RunType /\ drain' \in DrainType /\ wakeReq' \in BOOLEAN
               /\ blocked' \in BOOLEAN
    BY <2>2, SignalWakes, DrainUpdates DEF Throw, Reject, DrainPcs, MayWake, DrainWoken
  <2>3. ASSUME NEW phase \in RunPhases, GoesTo(phase)
        PROVE  /\ run' \in RunType /\ drain' \in DrainType /\ wakeReq' \in BOOLEAN
               /\ blocked' \in BOOLEAN
    BY <2>3, RunUpdates DEF GoesTo, RunPhases
  <2>4. CASE RunSetupEnds
    BY <2>4, <2>1, <2>2 DEF RunSetupEnds, Terminal
  <2>5. CASE RunCancelDeadline
    BY <2>5, DrainUpdates, RunUpdates DEF RunCancelDeadline, Reject, DrainPcs
  <2>6. CASE RunPersistIssues
    BY <2>6, <2>3 DEF RunPersistIssues, RunPhases
  <2>7. CASE RunPersists
    BY <2>7, <2>2, <2>3 DEF RunPersists, RunPhases
  <2>8. CASE RunMarks
    BY <2>8, <2>2, <2>3 DEF RunMarks, RunPhases
  <2>9. CASE RunCallsProvider
    <3>1. /\ run' \in RunType /\ drain' \in DrainType /\ wakeReq' \in BOOLEAN
          /\ blocked' \in BOOLEAN
      BY <2>9, <2>3, RunUpdates DEF RunCallsProvider, RunPhases, Terminal
    <3>2. sent' \in [Requests -> Nat]
      BY <2>9 DEF RunCallsProvider
    <3> QED BY <2>9, <3>1, <3>2 DEF RunCallsProvider
  <2>10. CASE RunProviderEnds
    BY <2>10, RunUpdates DEF RunProviderEnds
  <2>11. CASE RunSaves
    BY <2>11, <2>1, <2>2 DEF RunSaves, RunOK
  <2> QED BY <1>4, <2>4, <2>5, <2>6, <2>7, <2>8, <2>9, <2>10, <2>11 DEF RunStep
<1>5. ASSUME LateWorkEnds PROVE TypeOK'
  BY <1>5, SignalWakes DEF LateWorkEnds, DrainWoken
<1>6. ASSUME ReleaseCommits PROVE TypeOK'
  BY <1>6, WakeWakes DEF ReleaseCommits, DrainWoken
<1>7. ASSUME NEW r \in Requests, InputStep(r) PROVE TypeOK'
  <2> USE InputUpdates DEF InputPcs
  <2>1. CASE InputReclaim(r)
    BY <2>1, WakeWakes DEF InputReclaim, InputStaysBlocked, InputRestored, DrainWoken
  <2>2. CASE InputSend(r)
    BY <2>2 DEF InputSend
  <2>3. CASE InputRefused(r)
    BY <2>3, SignalWakes DEF InputRefused, DrainWoken
  <2>4. CASE InputDispatch(r)
    BY <2>4 DEF InputDispatch
  <2>5. CASE InputEnds(r)
    <3>1. drain' \in DrainType /\ wakeReq' \in BOOLEAN
      BY <2>5, SignalWakes DEF InputEnds, DrainWoken
    <3>2. input' \in [Requests -> InputPcs] /\ run' \in RunType /\ faults' \in 0 .. MaxFaults
      BY <2>5, RunUpdates DEF InputEnds
    <3> QED BY <2>5, <3>1, <3>2 DEF InputEnds
  <2>6. CASE InputConfirm(r)
    BY <2>6, WakeWakes DEF InputConfirm, Reconcile, DrainWoken
  <2>7. CASE InputRecover(r)
    BY <2>7, WakeWakes DEF InputRecover, InputRestored, InputStaysBlocked, DrainWoken
  <2> QED BY <1>7, <2>1, <2>2, <2>3, <2>4, <2>5, <2>6, <2>7 DEF InputStep
<1>8. ASSUME UNCHANGED vars PROVE TypeOK'
  BY <1>8 DEF vars
<1> QED BY <1>1, <1>2, <1>3, <1>4, <1>5, <1>6, <1>7, <1>8 DEF Next

-----------------------------------------------------------------------------
(* What a transaction does to the receipts, without its columns: which      *)
(* receipt changes, from which states to which.                             *)
Becomes(r, from, to) ==
  /\ rcpt[r].state \in from
  /\ rcpt'[r].state = to
  /\ \A q \in Requests \ {r} : rcpt'[q] = rcpt[q]

SameKind(r)  == rcpt'[r].input = rcpt[r].input
SameSession  == runState' = runState /\ liveTurn' = liveTurn
SameReceipts == \A q \in Requests : rcpt'[q].state = rcpt[q].state /\ SameKind(q)

(* The transactions of the store, seen as such changes.                     *)
LEMMA Transactions ==
  ASSUME rcpt \in [Requests -> Receipt], NEW r \in Requests
  PROVE
    /\ Enqueue(r)      => Becomes(r, {"absent"}, "queued") /\ SameKind(r) /\ SameSession
    /\ ClaimNext(r)    => Becomes(r, {"queued"}, "starting") /\ SameKind(r) /\ SameSession
    /\ StartTurn(r)    => /\ Becomes(r, {"starting"}, "running") /\ SameKind(r) /\ ~IsInput(r)
                          /\ runState' = "running" /\ liveTurn' = r
    /\ MarkStarted(r)  => rcpt[r].state = "running" /\ rcpt' = rcpt /\ SameSession
    /\ \A t \in Requests : ClaimForInput(r, t) =>
         Becomes(r, {"queued"}, "starting") /\ rcpt'[r].input = t /\ SameSession
    /\ RestoreInput(r) => /\ Becomes(r, {"starting"}, "queued") /\ IsInput(r)
                          /\ rcpt'[r].input = NoRequest /\ SameSession
    /\ AppendSteer(r)  => /\ Becomes(r, {"starting"}, "completed") /\ IsInput(r) /\ SameKind(r)
                          /\ SameSession
    /\ CancelQueued(r) => Becomes(r, {"queued"}, "canceled") /\ SameKind(r) /\ SameSession
    /\ \A x : Settle(r, x) => /\ SameSession
                              /\ \/ rcpt' = rcpt /\ rcpt[r].state \in Terminal
                                 \/ Becomes(r, Executing, x) /\ SameKind(r)
    /\ \A x : AppendTerminal(r, x) => \/ Becomes(r, {"running"}, x) /\ SameKind(r)
                                      \/ rcpt' = rcpt /\ rcpt[r].state # "running"
    /\ \A q \in Requests : Reorder(r, q) => SameReceipts /\ SameSession
    /\ \A free : ReleaseInterrupted(r, free) =>
         /\ rcpt[r].state = "interrupted" /\ SameReceipts /\ liveTurn' = liveTurn
         /\ runState' = runState \/ liveTurn = r
<1> USE DEF Becomes, SameKind, SameSession, SameReceipts, Receipt, IsInput
<1>1. Enqueue(r) => Becomes(r, {"absent"}, "queued") /\ SameKind(r) /\ SameSession
  BY DEF Enqueue
<1>2. ClaimNext(r) => Becomes(r, {"queued"}, "starting") /\ SameKind(r) /\ SameSession
  BY DEF ClaimNext, IsNext, Queued, InState
<1>3. StartTurn(r) => /\ Becomes(r, {"starting"}, "running") /\ SameKind(r) /\ ~IsInput(r)
                      /\ runState' = "running" /\ liveTurn' = r
  BY DEF StartTurn
<1>4. MarkStarted(r) => rcpt[r].state = "running" /\ rcpt' = rcpt /\ SameSession
  BY DEF MarkStarted, storeVars
<1>5. ASSUME NEW t \in Requests, ClaimForInput(r, t)
      PROVE  Becomes(r, {"queued"}, "starting") /\ rcpt'[r].input = t /\ SameSession
  BY <1>5 DEF ClaimForInput
<1>6. RestoreInput(r) => /\ Becomes(r, {"starting"}, "queued") /\ IsInput(r)
                         /\ rcpt'[r].input = NoRequest /\ SameSession
  BY DEF RestoreInput
<1>7. AppendSteer(r)  => /\ Becomes(r, {"starting"}, "completed") /\ IsInput(r) /\ SameKind(r)
                         /\ SameSession
  BY DEF AppendSteer
<1>8. CancelQueued(r) => Becomes(r, {"queued"}, "canceled") /\ SameKind(r) /\ SameSession
  BY DEF CancelQueued
<1>9. ASSUME NEW x, Settle(r, x)
      PROVE  /\ SameSession
             /\ \/ rcpt' = rcpt /\ rcpt[r].state \in Terminal
                \/ Becomes(r, Executing, x) /\ SameKind(r)
  BY <1>9 DEF Settle, storeVars
<1>10. ASSUME NEW x, AppendTerminal(r, x)
       PROVE  \/ Becomes(r, {"running"}, x) /\ SameKind(r)
              \/ rcpt' = rcpt /\ rcpt[r].state # "running"
  BY <1>10 DEF AppendTerminal
<1>11. ASSUME NEW q \in Requests, Reorder(r, q) PROVE SameReceipts /\ SameSession
  BY <1>11 DEF Reorder
<1>12. ASSUME NEW free, ReleaseInterrupted(r, free)
       PROVE  /\ rcpt[r].state = "interrupted" /\ SameReceipts /\ liveTurn' = liveTurn
              /\ runState' = runState \/ liveTurn = r
  BY <1>12 DEF ReleaseInterrupted
<1> QED
  BY <1>1, <1>2, <1>3, <1>4, <1>5, <1>6, <1>7, <1>8, <1>9, <1>10, <1>11, <1>12, Zenon

(* A receipt that was claimed as a turn is one for ever.                    *)
LEMMA TurnStaysTurn ==
  ASSUME IInv, [Next]_vars, NEW r \in Requests,
         ~IsInput(r), rcpt[r].state \notin {"absent", "queued"}
  PROVE  (~IsInput(r))' /\ rcpt'[r].state \notin {"absent", "queued"}
<1> USE DEF IInv, TypeOK, StoreTypeOK, IsInput, Becomes, SameKind, SameReceipts, Executing,
            Terminal
<1>1. ASSUME NEW q \in Requests,
             \/ Enqueue(q) \/ ClaimNext(q) \/ StartTurn(q) \/ MarkStarted(q) \/ RestoreInput(q)
             \/ AppendSteer(q) \/ CancelQueued(q)
      PROVE  rcpt'[r].input = rcpt[r].input /\ rcpt'[r].state \notin {"absent", "queued"}
  BY <1>1, Transactions
<1>2. ASSUME NEW q \in Requests,
             \/ \E t \in Requests : ClaimForInput(q, t) \/ Reorder(q, t)
             \/ \E phase \in Terminal : AppendTerminal(q, phase)
             \/ \E state \in Terminal \cup {"interrupted"} : Settle(q, state)
             \/ \E free \in BOOLEAN : ReleaseInterrupted(q, free)
      PROVE  rcpt'[r].input = rcpt[r].input /\ rcpt'[r].state \notin {"absent", "queued"}
  BY <1>2, Transactions
<1>3. CASE RecoverInterrupted
  BY <1>3 DEF RecoverInterrupted, Receipt
<1>4. CASE UNCHANGED storeVars
  BY <1>4 DEF storeVars
<1> QED BY <1>1, <1>2, <1>3, <1>4, StepIsTransaction DEF StoreNext

-----------------------------------------------------------------------------
(* The parts of the invariant, one by one.                                  *)

(* A process that is down does nothing but start.                           *)
LEMMA DownStep ==
  ASSUME IInv, [Next]_vars
  PROVE  DownOK'
<1> USE DEF IInv, DownOK, memoryVars, runtimeVars
<1>1. ASSUME UserStep PROVE DownOK'
  BY <1>1 DEF UserStep, UserMay, EndEdit, RunCancel, RunUnchanged, Accept, Lookup, Cancel,
              BeginEdit, ReleaseBegins, MoveQueued, InputClaim
<1>2. ASSUME ApplicationStep PROVE DownOK'
  BY <1>2 DEF ApplicationStep, Crash, Restart, BeginShutdown, Resume, ProviderBecomesBusy,
              ProviderBecomesAvailable, Idle, NoInput, NoRelease, NoRun
<1>3. ASSUME DrainStep PROVE up /\ up'
  BY <1>3 DEF DrainStep, DrainEnter, DrainList, DrainConverge, DrainClaim, DrainStorageFails,
              DrainDispatch, DrainSettle, DrainConfirm, DrainInterrupt, DrainCheck
<1>4. ASSUME RunStep PROVE up /\ up'
  BY <1>4 DEF RunStep, RunUnchanged, RunSetupEnds, RunCancelDeadline, RunPersistIssues,
              RunPersists, RunMarks, RunCallsProvider, RunProviderEnds, RunSaves
<1>5. ASSUME LateWorkEnds \/ ReleaseCommits PROVE up /\ up'
  BY <1>5 DEF LateWorkEnds, ReleaseCommits
<1>6. ASSUME NEW r \in Requests, InputStep(r) PROVE up /\ up'
  BY <1>6 DEF InputStep, InputReclaim, InputStaysBlocked, InputSend, InputRefused, InputDispatch, InputEnds,
              InputConfirm, InputRecover
<1>7. ASSUME UNCHANGED vars PROVE DownOK'
  BY <1>7 DEF vars
<1>8. up \in BOOLEAN
  BY DEF TypeOK
<1> QED BY <1>1, <1>2, <1>3, <1>4, <1>5, <1>6, <1>7, <1>8 DEF Next

(* The lock is taken only when it is free, and left by who holds it.        *)
LEMMA LockStep ==
  ASSUME IInv, [Next]_vars
  PROVE  LockOK'
<1> USE DEF IInv, LockOK, memoryVars, runtimeVars, TypeOK
<1>1. ASSUME UserStep PROVE LockOK'
  <2>1. CASE EndEdit \/ RunCancel \/ \E r \in Requests : Accept(r) \/ Lookup(r) \/ Cancel(r)
    BY <2>1, WakeWakes DEF EndEdit, RunCancel, RunUnchanged, Accept, Lookup, Cancel, DrainWoken,
                           Entering, Idle
  <2>2. CASE \E r \in Requests : BeginEdit(r) \/ \E q \in Requests : MoveQueued(r, q)
    BY <2>2 DEF BeginEdit, MoveQueued
  <2>3. CASE \E r \in Requests : ReleaseBegins(r)
    BY <2>3 DEF ReleaseBegins, UserMay
  <2>4. CASE \E r, q \in Requests : InputClaim(r, q)
    BY <2>4 DEF InputClaim, InputGoesTo, UserMay
  <2> QED BY <1>1, <2>1, <2>2, <2>3, <2>4 DEF UserStep
<1>2. ASSUME ApplicationStep PROVE LockOK'
  BY <1>2, WakeWakes DEF ApplicationStep, Crash, Restart, BeginShutdown, Resume,
              ProviderBecomesBusy, ProviderBecomesAvailable, Idle, NoInput, NoRelease, NoRun,
              DrainWoken, Entering
<1>3. ASSUME DrainStep PROVE LockOK'
  <2> USE EndedDrain DEF Idle, Entering, DrainGoesTo, DrainLeavesLock, DrainType
  <2>0. ASSUME DrainLeavesLock, lock \in {"free", "drain"}, UNCHANGED <<input, release>>
        PROVE  LockOK'
    BY <2>0
  <2>1. CASE DrainEnter \/ \E r \in Requests : DrainConverge(r)
    <3>1. CASE DrainLeavesLock
      BY <2>0, <2>1, <3>1 DEF DrainEnter, DrainConverge
    <3>2. CASE ~DrainLeavesLock
      BY <2>1, <3>2 DEF DrainEnter, DrainConverge
    <3> QED BY <3>1, <3>2
  <2>2. CASE DrainStorageFails
    BY <2>2 DEF DrainStorageFails
  <2>5. CASE DrainDispatch
    BY <2>5 DEF DrainDispatch
  <2>6. CASE DrainList
    <3>1. CASE DrainLeavesLock
      BY <2>0, <2>6, <3>1 DEF DrainList
    <3>2. CASE ~DrainLeavesLock
      <4>1. /\ drain'.pc \in {"list", "converge", "claimed"}
            /\ UNCHANGED <<lock, input, release>>
        BY <2>6, <3>2 DEF DrainList
      <4> QED BY <2>6, <4>1 DEF DrainList
    <3> QED BY <3>1, <3>2
  <2>7. CASE DrainClaim
    <3>1. CASE DrainLeavesLock
      BY <2>0, <2>7, <3>1 DEF DrainClaim
    <3>2. CASE ~DrainLeavesLock
      <4>1. /\ drain'.pc \in {"list", "converge", "claimed"}
            /\ UNCHANGED <<lock, input, release>>
        BY <2>7, <3>2 DEF DrainClaim
      <4> QED BY <2>7, <4>1 DEF DrainClaim
    <3> QED BY <3>1, <3>2
  <2>3. CASE DrainSettle \/ DrainConfirm
    BY <2>3 DEF DrainSettle, DrainConfirm
  <2>4. CASE DrainInterrupt \/ DrainCheck
    BY <2>4 DEF DrainInterrupt, DrainCheck
  <2> QED BY <1>3, <2>1, <2>2, <2>3, <2>4, <2>5, <2>6, <2>7 DEF DrainStep
<1>4. ASSUME RunStep PROVE LockOK'
  <2> USE SignalWakes DEF RunUnchanged, Finish, Throw, Reject, GoesTo, DrainWoken, Idle, Entering,
                          RunOK, DrainType
  <2>1. CASE RunSetupEnds \/ RunCancelDeadline \/ RunPersistIssues \/ RunPersists
    BY <2>1 DEF RunSetupEnds, RunCancelDeadline, RunPersistIssues, RunPersists
  <2>2. CASE RunMarks \/ RunCallsProvider \/ RunProviderEnds \/ RunSaves
    BY <2>2 DEF RunMarks, RunCallsProvider, RunProviderEnds, RunSaves
  <2> QED BY <1>4, <2>1, <2>2 DEF RunStep
<1>5. ASSUME LateWorkEnds \/ ReleaseCommits PROVE LockOK'
  BY <1>5, WakeWakes, SignalWakes DEF LateWorkEnds, ReleaseCommits, DrainWoken, Idle, Entering,
                                      NoRelease
<1>6. ASSUME NEW r \in Requests, InputStep(r) PROVE LockOK'
  <2> USE WakeWakes, SignalWakes DEF DrainWoken, Idle, Entering, InputGoesTo
  <2>1. CASE InputReclaim(r)
    BY <2>1 DEF InputReclaim, InputStaysBlocked, InputRestored
  <2>2. CASE InputSend(r) \/ InputRefused(r) \/ InputDispatch(r) \/ InputEnds(r)
    BY <2>2 DEF InputSend, InputRefused, InputDispatch, InputEnds
  <2>3. CASE InputConfirm(r) \/ InputRecover(r)
    BY <2>3 DEF InputConfirm, InputRecover, InputRestored, InputStaysBlocked, Reconcile
  <2> QED BY <1>6, <2>1, <2>2, <2>3 DEF InputStep
<1>7. ASSUME UNCHANGED vars PROVE LockOK'
  BY <1>7 DEF vars
<1> QED BY <1>1, <1>2, <1>3, <1>4, <1>5, <1>6, <1>7 DEF Next

(* A release names a receipt, and an edit a queued one: what takes a        *)
(* receipt from the queue needs the lock and finds no edit of it.           *)
LEMMA EditStep ==
  ASSUME IInv, [Next]_vars
  PROVE  ReleaseOK' /\ EditedStaysQueued'
<1> USE DEF IInv, ReleaseOK, EditedStaysQueued, memoryVars, runtimeVars, TypeOK, StoreTypeOK,
            Becomes, SameReceipts, Executing
<1>0. ASSUME SameReceipts \/ rcpt' = rcpt, edit' \in {edit, NoRequest},
             release' \in {release, NoRelease}
      PROVE  ReleaseOK' /\ EditedStaysQueued'
  BY <1>0 DEF NoRelease
<1>1. ASSUME UserStep PROVE ReleaseOK' /\ EditedStaysQueued'
  <2>1. CASE EndEdit \/ RunCancel \/ \E r \in Requests : Lookup(r)
    BY <2>1, <1>0 DEF EndEdit, RunCancel, RunUnchanged, Lookup, storeVars
  <2>2. CASE \E r \in Requests : Accept(r)
    BY <2>2, Transactions DEF Accept
  <2>3. CASE \E r \in Requests : Cancel(r)
    BY <2>3, Transactions DEF Cancel
  <2>4. CASE \E r \in Requests : BeginEdit(r) \/ ReleaseBegins(r)
    BY <2>4 DEF BeginEdit, ReleaseBegins, storeVars
  <2>5. CASE \E r, q \in Requests : MoveQueued(r, q)
    BY <2>5, <1>0, Transactions DEF MoveQueued
  <2>6. CASE \E r, q \in Requests : InputClaim(r, q)
    BY <2>6, Transactions DEF InputClaim, storeVars
  <2> QED BY <1>1, <2>1, <2>2, <2>3, <2>4, <2>5, <2>6 DEF UserStep
<1>2. ASSUME ApplicationStep PROVE ReleaseOK' /\ EditedStaysQueued'
  BY <1>2, <1>0 DEF ApplicationStep, Crash, Restart, BeginShutdown, Resume, storeVars, DownOK,
              ProviderBecomesBusy, ProviderBecomesAvailable
<1>3. ASSUME DrainStep PROVE ReleaseOK' /\ EditedStaysQueued'
  <2>1. CASE DrainEnter \/ DrainList \/ DrainDispatch \/ DrainConfirm \/ DrainCheck
    BY <2>1, <1>0 DEF DrainEnter, DrainList, DrainDispatch, DrainConfirm, DrainCheck, storeVars
  <2>2. CASE \E r \in Requests : DrainConverge(r)
    BY <2>2, <1>0, Transactions DEF DrainConverge
  <2>3. CASE DrainClaim \/ DrainStorageFails
    BY <2>3 DEF DrainClaim, DrainStorageFails, DrainOK
  <2>4. CASE DrainSettle \/ DrainInterrupt
    BY <2>4, Transactions DEF DrainSettle, DrainInterrupt, DrainOK, storeVars
  <2> QED BY <1>3, <2>1, <2>2, <2>3, <2>4 DEF DrainStep
<1>4. ASSUME RunStep PROVE ReleaseOK' /\ EditedStaysQueued'
  <2>1. CASE RunSetupEnds \/ RunCancelDeadline \/ RunPersistIssues \/ RunCallsProvider
             \/ RunProviderEnds
    BY <2>1, <1>0 DEF RunSetupEnds, RunCancelDeadline, RunPersistIssues, RunCallsProvider,
                RunProviderEnds, RunUnchanged, storeVars
  <2>2. CASE RunPersists \/ RunMarks
    BY <2>2, Transactions DEF RunPersists, RunMarks, RunUnchanged, RunOK, storeVars
  <2>3. CASE RunSaves
    BY <2>3, Transactions DEF RunSaves, RunUnchanged, RunOK, storeVars
  <2> QED BY <1>4, <2>1, <2>2, <2>3 DEF RunStep
<1>5. ASSUME LateWorkEnds PROVE ReleaseOK' /\ EditedStaysQueued'
  BY <1>5, <1>0 DEF LateWorkEnds, storeVars
<1>6. ASSUME ReleaseCommits PROVE ReleaseOK' /\ EditedStaysQueued'
  BY <1>6, <1>0, Transactions DEF ReleaseCommits, storeVars
<1>7. ASSUME NEW r \in Requests, InputStep(r) PROVE ReleaseOK' /\ EditedStaysQueued'
  <2>1. CASE InputSend(r) \/ InputRefused(r) \/ InputDispatch(r) \/ InputConfirm(r)
    BY <2>1, <1>0 DEF InputSend, InputRefused, InputDispatch, InputConfirm, Reconcile, storeVars
  <2>2. CASE InputReclaim(r) \/ InputRecover(r)
    BY <2>2, Transactions DEF InputReclaim, InputRecover, InputRestored, InputStaysBlocked,
                              storeVars
  <2>3. CASE InputEnds(r)
    BY <2>3, Transactions DEF InputEnds, storeVars
  <2> QED BY <1>7, <2>1, <2>2, <2>3 DEF InputStep
<1>8. ASSUME UNCHANGED vars PROVE ReleaseOK' /\ EditedStaysQueued'
  BY <1>8, <1>0 DEF vars, storeVars
<1> QED BY <1>1, <1>2, <1>3, <1>4, <1>5, <1>6, <1>7, <1>8 DEF Next

(* The drain keeps the receipt it claimed until the next one, and looks for *)
(* the run and the edits under the lock.                                    *)
HasReceipt == {"claimed", "dispatch", "settle", "confirm", "interrupt", "check"}

(* A step that leaves the receipt of the drain alone keeps DrainOK.         *)
LEMMA DrainKeepsReceipt ==
  ASSUME IInv, [Next]_vars,
         drain'.pc \in HasReceipt => drain.pc \in HasReceipt /\ drain'.id = drain.id,
         drain'.pc \in {"list", "converge", "claimed"} => run'.phase = "none",
         drain'.pc \in {"list", "converge"} => edit' = NoRequest,
         drain'.pc = "claimed" => /\ drain.pc = "claimed"
                                  /\ rcpt'[drain.id].state = rcpt[drain.id].state,
         drain'.pc = "settle" => drain'.result \in Terminal
  PROVE  DrainOK'
BY TurnStaysTurn DEF IInv, DrainOK, HasReceipt

(* Every step keeps DrainOK.                                                *)
LEMMA DrainOKStep ==
  ASSUME IInv, [Next]_vars
  PROVE  DrainOK'
<1> USE DEF IInv, DrainOK, HasReceipt, LockOK, memoryVars, runtimeVars, TypeOK, StoreTypeOK,
            Becomes, SameReceipts, DrainWoken, Idle, Entering
<1>0. ASSUME drain' = drain \/ drain' \in {Idle, Entering}, run'.phase = "none" \/ run.phase # "none",
             edit' \in {edit, NoRequest} \/ lock = "free",
             \A r \in Requests :
               (rcpt[r].state = "starting" /\ ~IsInput(r) /\ drain.pc = "claimed")
                 => rcpt'[r].state = "starting"
      PROVE  DrainOK'
  BY <1>0, DrainKeepsReceipt
<1>1. ASSUME UserStep PROVE DrainOK'
  <2>1. CASE EndEdit \/ \E r \in Requests : Lookup(r)
    BY <2>1, <1>0, WakeWakes DEF EndEdit, Lookup, storeVars
  <2>2. CASE RunCancel
    BY <2>2, <1>0 DEF RunCancel, RunUnchanged, RunType, storeVars
  <2>3. CASE \E r \in Requests : Accept(r) \/ Cancel(r)
    BY <2>3, <1>0, Transactions, WakeWakes DEF Accept, Cancel
  <2>4. CASE \E r \in Requests : BeginEdit(r) \/ ReleaseBegins(r)
    BY <2>4, <1>0 DEF BeginEdit, ReleaseBegins, UserMay, storeVars
  <2>5. CASE \E r, q \in Requests : MoveQueued(r, q)
    BY <2>5, <1>0, Transactions DEF MoveQueued
  <2>6. CASE \E r, q \in Requests : InputClaim(r, q)
    BY <2>6, <1>0, Transactions DEF InputClaim, storeVars
  <2> QED BY <1>1, <2>1, <2>2, <2>3, <2>4, <2>5, <2>6 DEF UserStep
<1>2. ASSUME ApplicationStep PROVE DrainOK'
  BY <1>2, <1>0, WakeWakes DEF ApplicationStep, Crash, Restart, BeginShutdown, Resume, storeVars,
              DownOK, NoRun, ProviderBecomesBusy, ProviderBecomesAvailable
<1>3. ASSUME DrainStep PROVE DrainOK'
  <2> USE EndedDrain DEF DrainGoesTo, DrainLeavesLock, DrainType
  <2>1. CASE DrainEnter
    BY <2>1, DrainKeepsReceipt DEF DrainEnter, InFlight, RuntimeBusy, storeVars
  <2>2. CASE DrainList
    <3>1. \/ drain' \in {Idle, Entering}
          \/ drain'.pc = "converge"
      BY <2>2 DEF DrainList
    <3> QED BY <2>2, <3>1, DrainKeepsReceipt DEF DrainList
  <2>3. ASSUME NEW r \in Requests, DrainConverge(r) PROVE DrainOK'
    BY <2>3, DrainKeepsReceipt DEF DrainConverge
  <2>4. CASE DrainClaim
    <3>1. CASE DrainLeavesLock
      BY <2>4, <3>1, DrainKeepsReceipt DEF DrainClaim
    <3>2. CASE ~DrainLeavesLock
      <4>1. PICK r \in Requests : /\ ClaimNext(r)
                                  /\ drain' = [drain EXCEPT !.pc = "claimed", !.id = r]
        BY <2>4, <3>2 DEF DrainClaim
      <4>2. drain'.pc = "claimed" /\ drain'.id = r /\ run'.phase = "none"
        BY <2>4, <4>1 DEF DrainClaim
      <4>3. rcpt'[r].state = "starting" /\ rcpt'[r].input = NoRequest
        BY <4>1, Transactions DEF SentOK, IsInput, SameKind
      <4> QED BY <4>2, <4>3 DEF IsInput
    <3> QED BY <3>1, <3>2
  <2>5. CASE DrainStorageFails
    BY <2>5, DrainKeepsReceipt DEF DrainStorageFails
  <2>6. CASE DrainDispatch
    BY <2>6, DrainKeepsReceipt DEF DrainDispatch
  <2>7. CASE DrainSettle
    BY <2>7, DrainKeepsReceipt DEF DrainSettle
  <2>8. CASE DrainConfirm
    BY <2>8, DrainKeepsReceipt DEF DrainConfirm
  <2>9. CASE DrainInterrupt
    BY <2>9, DrainKeepsReceipt DEF DrainInterrupt
  <2>10. CASE DrainCheck
    BY <2>10, DrainKeepsReceipt DEF DrainCheck
  <2> QED BY <1>3, <2>1, <2>2, <2>3, <2>4, <2>5, <2>6, <2>7, <2>8, <2>9, <2>10 DEF DrainStep
<1>4. ASSUME RunStep PROVE DrainOK'
  <2> USE SignalWakes, DrainKeepsReceipt
      DEF RunUnchanged, Finish, Throw, Reject, GoesTo, NoRun, RunOK, DrainType, RunType, Terminal
  <2>1. CASE RunSetupEnds
    BY <2>1 DEF RunSetupEnds
  <2>2. CASE RunCancelDeadline
    BY <2>2 DEF RunCancelDeadline
  <2>3. CASE RunPersistIssues
    BY <2>3 DEF RunPersistIssues
  <2>4. CASE RunPersists
    BY <2>4 DEF RunPersists
  <2>5. CASE RunMarks
    BY <2>5 DEF RunMarks
  <2>6. CASE RunCallsProvider \/ RunProviderEnds
    BY <2>6 DEF RunCallsProvider, RunProviderEnds
  <2>7. CASE RunSaves
    BY <2>7 DEF RunSaves
  <2> QED BY <1>4, <2>1, <2>2, <2>3, <2>4, <2>5, <2>6, <2>7 DEF RunStep
<1>5. ASSUME LateWorkEnds PROVE DrainOK'
  BY <1>5, <1>0, SignalWakes DEF LateWorkEnds, storeVars
<1>6. ASSUME ReleaseCommits PROVE DrainOK'
  BY <1>6, <1>0, WakeWakes, Transactions DEF ReleaseCommits, ReleaseOK, storeVars
<1>7. ASSUME NEW r \in Requests, InputStep(r) PROVE DrainOK'
  <2> USE <1>0, WakeWakes, SignalWakes, Transactions DEF InputOK, storeVars
  <2>1. CASE InputSend(r) \/ InputRefused(r) \/ InputDispatch(r) \/ InputConfirm(r)
    BY <2>1 DEF InputSend, InputRefused, InputDispatch, InputConfirm, Reconcile
  <2>2. CASE InputReclaim(r)
    BY <2>2 DEF InputReclaim, InputStaysBlocked, InputRestored
  <2>3. CASE InputRecover(r)
    BY <2>3 DEF InputRecover, InputRestored, InputStaysBlocked
  <2>4. CASE InputEnds(r)
    BY <2>4 DEF InputEnds, RunType
  <2> QED BY <1>7, <2>1, <2>2, <2>3, <2>4 DEF InputStep
<1>8. ASSUME UNCHANGED vars PROVE DrainOK'
  BY <1>8, <1>0 DEF vars, storeVars
<1> QED BY <1>1, <1>2, <1>3, <1>4, <1>5, <1>6, <1>7, <1>8 DEF Next

(* Whoever is not the run leaves it, its receipt and the Session's live     *)
(* turn alone.                                                              *)
LEMMA RunLeftAlone ==
  ASSUME IInv, [Next]_vars,
         run.phase # "none" =>
           /\ run'.phase = run.phase /\ run'.id = run.id /\ run'.detached = run.detached
           /\ run'.outcome = run.outcome
           /\ run.aborted => run'.aborted
           /\ drain' = drain \/ drain.pc # "dispatch"
           /\ rcpt'[run.id].state = "running" => rcpt[run.id].state = "running"
           /\ ~run.detached /\ rcpt[run.id].state = "running" => rcpt'[run.id].state = "running"
           /\ rcpt[run.id].state = "running" /\ liveTurn = run.id =>
                liveTurn' = liveTurn /\ runState' = runState,
         run.phase = "none" => run'.phase = "none"
  PROVE  RunOK' /\ RunOwnsTurn'
BY TurnStaysTurn DEF IInv, RunOK, RunOwnsTurn

(* Every step keeps what the run relies on.                                 *)
LEMMA RunOKStep ==
  ASSUME IInv, [Next]_vars
  PROVE  RunOK' /\ RunOwnsTurn'
<1> USE DEF IInv, RunOK, memoryVars, runtimeVars, TypeOK, StoreTypeOK, Becomes, SameReceipts,
            SameSession, SameKind, DrainWoken, Idle, Entering
<1>0. ASSUME run' = run, drain' = drain \/ drain.pc # "dispatch", rcpt' = rcpt \/ SameReceipts,
             SameSession
      PROVE  RunOK' /\ RunOwnsTurn'
  BY <1>0, RunLeftAlone
<1>1. ASSUME UserStep PROVE RunOK' /\ RunOwnsTurn'
  <2>1. CASE EndEdit \/ \E r \in Requests : Lookup(r)
    BY <2>1, <1>0, WakeWakes DEF EndEdit, Lookup, storeVars
  <2>2. CASE RunCancel
    BY <2>2, RunLeftAlone DEF RunCancel, RunUnchanged, RunType, storeVars
  <2>3. ASSUME NEW r \in Requests, Accept(r) \/ Cancel(r) PROVE RunOK' /\ RunOwnsTurn'
    BY <2>3, RunLeftAlone, Transactions, WakeWakes DEF Accept, Cancel
  <2>4. CASE \E r \in Requests : BeginEdit(r) \/ ReleaseBegins(r)
    BY <2>4, <1>0 DEF BeginEdit, ReleaseBegins, storeVars
  <2>5. CASE \E r, q \in Requests : MoveQueued(r, q)
    BY <2>5, <1>0, Transactions DEF MoveQueued
  <2>6. ASSUME NEW r \in Requests, NEW q \in Requests, InputClaim(r, q)
        PROVE  RunOK' /\ RunOwnsTurn'
    BY <2>6, RunLeftAlone, Transactions DEF InputClaim, storeVars
  <2> QED BY <1>1, <2>1, <2>2, <2>3, <2>4, <2>5, <2>6 DEF UserStep
<1>2. ASSUME ApplicationStep PROVE RunOK' /\ RunOwnsTurn'
  <2>1. CASE Crash \/ Restart
    BY <2>1, RunLeftAlone DEF Crash, Restart, NoRun, DownOK, RunOwnsTurn
  <2>2. CASE BeginShutdown \/ Resume \/ ProviderBecomesBusy \/ ProviderBecomesAvailable
    BY <2>2, <1>0, WakeWakes DEF BeginShutdown, Resume, storeVars, ProviderBecomesBusy,
                                 ProviderBecomesAvailable
  <2> QED BY <1>2, <2>1, <2>2 DEF ApplicationStep
<1>3. ASSUME DrainStep PROVE RunOK' /\ RunOwnsTurn'
  <2> USE DEF DrainOK
  <2>1. CASE DrainEnter \/ DrainList \/ DrainConfirm \/ DrainCheck
    BY <2>1, <1>0 DEF DrainEnter, DrainList, DrainConfirm, DrainCheck, storeVars
  <2>2. CASE DrainClaim \/ DrainStorageFails \/ \E r \in Requests : DrainConverge(r)
    BY <2>2, RunLeftAlone DEF DrainClaim, DrainStorageFails, DrainConverge
  <2>3. CASE DrainDispatch
    BY <2>3 DEF DrainDispatch, DrainGoesTo, DrainType, NoRun, RunOwnsTurn, storeVars, IsInput
  <2>4. CASE DrainSettle \/ DrainInterrupt
    BY <2>4, RunLeftAlone, Transactions DEF DrainSettle, DrainInterrupt, storeVars, Terminal
  <2> QED BY <1>3, <2>1, <2>2, <2>3, <2>4 DEF DrainStep
<1>4. ASSUME RunStep PROVE RunOK' /\ RunOwnsTurn'
  <2>0. ASSUME run' = NoRun PROVE RunOK' /\ RunOwnsTurn'
    BY <2>0 DEF NoRun, RunOwnsTurn
  <2> USE DEF RunUnchanged, GoesTo, RunType, DrainType
  <2>1. CASE RunSetupEnds
    BY <2>1, <2>0 DEF RunSetupEnds, Finish, Throw
  <2>2. CASE RunCancelDeadline
    BY <2>2, TurnStaysTurn DEF RunCancelDeadline, Reject, RunOwnsTurn, storeVars
  <2>3. CASE RunPersistIssues
    BY <2>3, TurnStaysTurn DEF RunPersistIssues, RunOwnsTurn, storeVars
  <2>4. CASE RunPersists
    <3>1. CASE run' = NoRun
      BY <3>1, <2>0
    <3>2. CASE run' # NoRun
      BY <2>4, <3>2, Transactions DEF RunPersists, Throw, RunOwnsTurn, IsInput
    <3> QED BY <3>1, <3>2
  <2>5. CASE RunMarks
    <3>1. CASE run' = NoRun
      BY <3>1, <2>0
    <3>2. CASE run' # NoRun
      BY <2>5, <3>2, Transactions DEF RunMarks, Throw, RunOwnsTurn, IsInput
    <3> QED BY <3>1, <3>2
  <2>6. CASE RunCallsProvider
    BY <2>6, TurnStaysTurn DEF RunCallsProvider, RunOwnsTurn, storeVars, Terminal
  <2>7. CASE RunProviderEnds
    BY <2>7, TurnStaysTurn DEF RunProviderEnds, RunOwnsTurn, storeVars
  <2>8. CASE RunSaves
    BY <2>8, <2>0 DEF RunSaves, Finish, Throw
  <2> QED BY <1>4, <2>1, <2>2, <2>3, <2>4, <2>5, <2>6, <2>7, <2>8 DEF RunStep
<1>5. ASSUME LateWorkEnds PROVE RunOK' /\ RunOwnsTurn'
  BY <1>5, <1>0, SignalWakes DEF LateWorkEnds, storeVars
<1>6. ASSUME ReleaseCommits PROVE RunOK' /\ RunOwnsTurn'
  BY <1>6, RunLeftAlone, WakeWakes, Transactions DEF ReleaseCommits, ReleaseOK, storeVars
<1>7. ASSUME NEW r \in Requests, InputStep(r) PROVE RunOK' /\ RunOwnsTurn'
  <2> USE WakeWakes, SignalWakes, Transactions DEF InputOK, storeVars
  <2>1. CASE InputSend(r) \/ InputRefused(r) \/ InputDispatch(r) \/ InputConfirm(r)
    BY <2>1, <1>0 DEF InputSend, InputRefused, InputDispatch, InputConfirm, Reconcile
  <2>2. CASE InputReclaim(r)
    BY <2>2, RunLeftAlone DEF InputReclaim, InputStaysBlocked, InputRestored
  <2>3. CASE InputRecover(r)
    BY <2>3, RunLeftAlone DEF InputRecover, InputRestored, InputStaysBlocked
  <2>4. CASE InputEnds(r)
    BY <2>4, RunLeftAlone DEF InputEnds, RunType
  <2> QED BY <1>7, <2>1, <2>2, <2>3, <2>4 DEF InputStep
<1>8. ASSUME UNCHANGED vars PROVE RunOK' /\ RunOwnsTurn'
  BY <1>8, <1>0 DEF vars, storeVars
<1> QED BY <1>1, <1>2, <1>3, <1>4, <1>5, <1>6, <1>7, <1>8 DEF Next

-----------------------------------------------------------------------------
(* Nobody but an input touches its receipt.                                 *)
LEMMA InputsLeftAlone ==
  ASSUME IInv,
         input' = input \/ input' = NoInput,
         \A r \in Requests :
           \/ ~IsInput(r)
           \/ rcpt[r].state \in {"absent", "queued"}
           \/ rcpt'[r].state = rcpt[r].state /\ SameKind(r)
  PROVE  InputOK'
BY DEF IInv, InputOK, NoInput, SameKind, IsInput

(* An input goes on with its own receipt, and leaves the others alone.      *)
LEMMA InputGoesOn ==
  ASSUME IInv, NEW r \in Requests, NEW pc, InputGoesTo(r, pc),
         \A q \in Requests \ {r} : rcpt'[q] = rcpt[q],
         pc # "idle" => (IsInput(r))' /\ rcpt'[r].state \notin {"absent", "queued"},
         pc \in {"claimed", "reclaim", "sending", "dispatched", "failedPre"}
           => rcpt'[r].state = "starting"
  PROVE  InputOK'
BY DEF IInv, InputOK, InputGoesTo, IsInput, TypeOK

(* Every step keeps what an input relies on.                                *)
LEMMA InputOKStep ==
  ASSUME IInv, [Next]_vars
  PROVE  InputOK'
<1> USE DEF IInv, memoryVars, runtimeVars, TypeOK, StoreTypeOK, Becomes, SameReceipts, SameKind,
            IsInput
<1>0. ASSUME rcpt' = rcpt \/ SameReceipts, input' = input PROVE InputOK'
  BY <1>0, InputsLeftAlone
<1>1. ASSUME UserStep PROVE InputOK'
  <2>1. CASE EndEdit \/ RunCancel
    BY <2>1, <1>0 DEF EndEdit, RunCancel, RunUnchanged, storeVars
  <2>2. ASSUME NEW r \in Requests, Accept(r) \/ Lookup(r) \/ Cancel(r) PROVE InputOK'
    BY <2>2, InputsLeftAlone, Transactions DEF Accept, Lookup, Cancel, storeVars
  <2>3. CASE \E r \in Requests : BeginEdit(r) \/ ReleaseBegins(r)
    BY <2>3, <1>0 DEF BeginEdit, ReleaseBegins, storeVars
  <2>4. CASE \E r, q \in Requests : MoveQueued(r, q)
    BY <2>4, <1>0, Transactions DEF MoveQueued
  <2>5. ASSUME NEW r \in Requests, NEW t \in Requests, InputClaim(r, t) PROVE InputOK'
    <3>1. CASE ClaimForInput(r, t)
      <4>1. rcpt'[r].state = "starting" /\ rcpt'[r].input = t
            /\ \A q \in Requests \ {r} : rcpt'[q] = rcpt[q]
        BY <3>1, Transactions
      <4>2. CASE input' = input
        BY <2>5, <3>1, <4>2, InputsLeftAlone, Transactions
      <4> QED BY <2>5, <4>1, <4>2, InputGoesOn, RequestsAssumption DEF InputClaim
    <3>2. CASE UNCHANGED storeVars
      <4>1. ~ClaimForInput(r, t)
        BY <3>2, Transactions DEF storeVars
      <4> QED BY <2>5, <3>2, <4>1, <1>0 DEF InputClaim, storeVars
    <3> QED BY <2>5, <3>1, <3>2 DEF InputClaim
  <2> QED BY <1>1, <2>1, <2>2, <2>3, <2>4, <2>5 DEF UserStep
<1>2. ASSUME ApplicationStep PROVE InputOK'
  BY <1>2, <1>0, InputsLeftAlone DEF ApplicationStep, Crash, Restart, BeginShutdown, Resume,
              storeVars, ProviderBecomesBusy, ProviderBecomesAvailable, DownOK, InputOK
<1>3. ASSUME DrainStep PROVE InputOK'
  <2>1. CASE DrainEnter \/ DrainList \/ DrainDispatch \/ DrainConfirm \/ DrainCheck
    BY <2>1, <1>0 DEF DrainEnter, DrainList, DrainDispatch, DrainConfirm, DrainCheck, storeVars
  <2>2. CASE DrainClaim \/ \E r \in Requests : DrainConverge(r)
    BY <2>2, <1>0, InputsLeftAlone, Transactions DEF DrainClaim, DrainConverge, storeVars
  <2>3. CASE DrainStorageFails
    <3>1. \A r \in drain.todo : r \in Requests
      BY DEF DrainType
    <3> QED BY <2>3, <3>1, <1>0, InputsLeftAlone, Transactions DEF DrainStorageFails, storeVars
  <2>4. CASE DrainSettle \/ DrainInterrupt
    BY <2>4, InputsLeftAlone, Transactions DEF DrainSettle, DrainInterrupt, DrainOK, storeVars
  <2> QED BY <1>3, <2>1, <2>2, <2>3, <2>4 DEF DrainStep
<1>4. ASSUME RunStep PROVE InputOK'
  <2> USE DEF RunUnchanged
  <2>1. CASE RunSetupEnds \/ RunCancelDeadline \/ RunPersistIssues \/ RunCallsProvider
             \/ RunProviderEnds
    BY <2>1, <1>0 DEF RunSetupEnds, RunCancelDeadline, RunPersistIssues, RunCallsProvider,
                RunProviderEnds, storeVars
  <2>2. CASE RunPersists \/ RunMarks
    BY <2>2, InputsLeftAlone, Transactions DEF RunPersists, RunMarks, RunOK, storeVars
  <2>3. CASE RunSaves
    BY <2>3, InputsLeftAlone, Transactions DEF RunSaves, RunOK, storeVars
  <2> QED BY <1>4, <2>1, <2>2, <2>3 DEF RunStep
<1>5. ASSUME LateWorkEnds PROVE InputOK'
  BY <1>5, <1>0 DEF LateWorkEnds, storeVars
<1>6. ASSUME ReleaseCommits PROVE InputOK'
  BY <1>6, <1>0, Transactions DEF ReleaseCommits, ReleaseOK, storeVars
<1>7. ASSUME NEW r \in Requests, InputStep(r) PROVE InputOK'
  <2> USE InputGoesOn DEF storeVars, InputOK
  <2>1. CASE InputReclaim(r)
    BY <2>1, Transactions DEF InputReclaim, InputStaysBlocked, InputRestored
  <2>2. CASE InputSend(r) \/ InputRefused(r) \/ InputDispatch(r)
    BY <2>2 DEF InputSend, InputRefused, InputDispatch
  <2>3. CASE InputEnds(r)
    BY <2>3, Transactions DEF InputEnds
  <2>4. CASE InputConfirm(r)
    BY <2>4 DEF InputConfirm
  <2>5. CASE InputRecover(r)
    BY <2>5, Transactions DEF InputRecover, InputRestored, InputStaysBlocked
  <2> QED BY <1>7, <2>1, <2>2, <2>3, <2>4, <2>5 DEF InputStep
<1>8. ASSUME UNCHANGED vars PROVE InputOK'
  BY <1>8, <1>0 DEF vars, storeVars
<1> QED BY <1>1, <1>2, <1>3, <1>4, <1>5, <1>6, <1>7, <1>8 DEF Next

-----------------------------------------------------------------------------
(* Of what was or will be sent: the receipts that may still be claimed, the *)
(* turns and the inputs that were claimed and the run on its way to the     *)
(* provider, and where each of them came from.                              *)
ToDispatch == {"setup", "persisting", "persisted", "ready"}
ToSend     == {"claimed", "reclaim", "sending", "failedPre"}

Unsent(r) == sent[r] = 0

(* A step that sends nothing and claims only what was not sent.             *)
LEMMA SentFrom ==
  ASSUME IInv, sent' = sent,
         run'.phase \in ToDispatch => run.phase \in ToDispatch /\ run'.id = run.id,
         \A r \in Requests :
           /\ rcpt'[r].state \in {"absent", "queued"} =>
                \/ rcpt[r].state \in {"absent", "queued"} /\ SameKind(r)
                \/ Unsent(r) /\ (~IsInput(r))'
           /\ rcpt'[r].state = "starting" /\ (~IsInput(r))' =>
                \/ rcpt[r].state = "starting" /\ ~IsInput(r)
                \/ Unsent(r)
           /\ input'[r] \in ToSend => input[r] \in ToSend \/ Unsent(r)
  PROVE  SentOK'
BY DEF IInv, SentOK, ToDispatch, ToSend, Unsent, SameKind, IsInput

(* A step that leaves the receipts, the inputs, the run and the history.    *)
LEMMA SentKept ==
  ASSUME IInv, sent' = sent, rcpt' = rcpt \/ SameReceipts, input' = input \/ input' = NoInput,
         run' = run \/ run' = NoRun
  PROVE  SentOK'
BY SentFrom DEF IInv, SameReceipts, SameKind, NoInput, NoRun, ToDispatch, ToSend, IsInput

(* Every step keeps SentOK.                                                 *)
LEMMA SentOKStep ==
  ASSUME IInv, [Next]_vars
  PROVE  SentOK'
<1> USE DEF IInv, memoryVars, runtimeVars, TypeOK, StoreTypeOK, Becomes, SameReceipts, SameKind,
            IsInput, Unsent, ToDispatch, ToSend
<1>1. ASSUME UserStep PROVE SentOK'
  <2>1. CASE EndEdit \/ \E r \in Requests : BeginEdit(r) \/ ReleaseBegins(r) \/ Lookup(r)
    BY <2>1, SentKept DEF EndEdit, BeginEdit, ReleaseBegins, Lookup, storeVars
  <2>2. CASE RunCancel
    BY <2>2, SentFrom DEF RunCancel, RunUnchanged, RunType, storeVars
  <2>3. ASSUME NEW r \in Requests, Accept(r) \/ Cancel(r) PROVE SentOK'
    BY <2>3, SentFrom, Transactions DEF Accept, Cancel, SentOK
  <2>4. CASE \E r, q \in Requests : MoveQueued(r, q)
    BY <2>4, SentKept, Transactions DEF MoveQueued
  <2>5. ASSUME NEW r \in Requests, NEW t \in Requests, InputClaim(r, t) PROVE SentOK'
    <3>1. Unsent(r)
      BY <2>5, Transactions DEF InputClaim, SentOK
    <3>2. CASE ClaimForInput(r, t)
      BY <2>5, <3>1, <3>2, SentFrom, Transactions DEF InputClaim, InputGoesTo
    <3>3. CASE UNCHANGED storeVars
      BY <2>5, <3>1, <3>3, SentFrom DEF InputClaim, InputGoesTo, storeVars
    <3> QED BY <2>5, <3>2, <3>3 DEF InputClaim
  <2> QED BY <1>1, <2>1, <2>2, <2>3, <2>4, <2>5 DEF UserStep
<1>2. ASSUME ApplicationStep PROVE SentOK'
  <2>1. CASE Restart
    BY <2>1, SentFrom DEF Restart, RecoverInterrupted, Receipt, Executing
  <2>2. CASE ~Restart
    BY <1>2, <2>2, SentKept DEF ApplicationStep, Crash, BeginShutdown, Resume, storeVars,
                ProviderBecomesBusy, ProviderBecomesAvailable
  <2> QED BY <2>1, <2>2
<1>3. ASSUME DrainStep PROVE SentOK'
  <2>1. CASE DrainEnter \/ DrainList \/ DrainConfirm \/ DrainCheck
    BY <2>1, SentKept DEF DrainEnter, DrainList, DrainConfirm, DrainCheck, storeVars
  <2>2. CASE \E r \in Requests : DrainConverge(r)
    BY <2>2, SentKept, Transactions DEF DrainConverge
  <2>3. CASE DrainClaim
    <3>1. CASE \E r \in Requests : ClaimNext(r)
      BY <2>3, <3>1, SentFrom, Transactions DEF DrainClaim, SentOK
    <3>2. CASE UNCHANGED storeVars
      BY <2>3, <3>2, SentKept DEF DrainClaim, storeVars
    <3> QED BY <2>3, <3>1, <3>2 DEF DrainClaim
  <2>4. CASE DrainStorageFails
    <3>1. \A r \in drain.todo : r \in Requests
      BY DEF DrainType
    <3>2. CASE \E r \in Requests : ClaimNext(r)
      BY <2>4, <3>2, SentFrom, Transactions DEF DrainStorageFails, SentOK
    <3>3. CASE rcpt' = rcpt \/ SameReceipts
      BY <2>4, <3>3, SentKept DEF DrainStorageFails
    <3> QED BY <2>4, <3>1, <3>2, <3>3, Transactions DEF DrainStorageFails, storeVars
  <2>5. CASE DrainDispatch
    BY <2>5 DEF DrainDispatch, DrainOK, SentOK, NoRun, storeVars
  <2>6. CASE DrainSettle \/ DrainInterrupt
    BY <2>6, SentKept, SentFrom, Transactions DEF DrainSettle, DrainInterrupt, DrainOK, storeVars,
                                                  Terminal
  <2> QED BY <1>3, <2>1, <2>2, <2>3, <2>4, <2>5, <2>6 DEF DrainStep
<1>4. ASSUME RunStep PROVE SentOK'
  <2> USE DEF RunUnchanged, GoesTo, RunType
  <2>1. CASE RunSetupEnds
    BY <2>1, SentKept DEF RunSetupEnds, Finish, Throw, storeVars
  <2>2. CASE RunCancelDeadline \/ RunPersistIssues \/ RunProviderEnds
    BY <2>2, SentFrom DEF RunCancelDeadline, RunPersistIssues, RunProviderEnds, storeVars
  <2>3. CASE RunPersists
    <3>1. run'.phase \in ToDispatch => run.phase \in ToDispatch /\ run'.id = run.id
      BY <2>3 DEF RunPersists, Throw, NoRun
    <3> QED BY <2>3, <3>1, SentFrom, Transactions DEF RunPersists, RunOK, storeVars
  <2>4. CASE RunMarks
    <3>1. run'.phase \in ToDispatch => run.phase \in ToDispatch /\ run'.id = run.id
      BY <2>4 DEF RunMarks, Throw, NoRun
    <3> QED BY <2>4, <3>1, SentFrom, Transactions DEF RunMarks, RunOK, storeVars
  <2>5. CASE RunCallsProvider
    <3>1. CASE sent' = sent
      BY <2>5, <3>1, SentFrom DEF RunCallsProvider, storeVars
    <3>2. CASE sent' # sent
      BY <2>5, <3>2 DEF RunCallsProvider, SentOK, InputOK, RunOK, RunOwnsTurn, storeVars
    <3> QED BY <3>1, <3>2
  <2>6. CASE RunSaves
    <3>1. run'.phase \notin ToDispatch
      BY <2>6 DEF RunSaves, Throw, Finish, NoRun
    <3> QED BY <2>6, <3>1, SentFrom, Transactions DEF RunSaves, RunOK, storeVars, Terminal
  <2> QED BY <1>4, <2>1, <2>2, <2>3, <2>4, <2>5, <2>6 DEF RunStep
<1>5. ASSUME LateWorkEnds PROVE SentOK'
  BY <1>5, SentKept DEF LateWorkEnds, storeVars
<1>6. ASSUME ReleaseCommits PROVE SentOK'
  BY <1>6, SentKept, Transactions DEF ReleaseCommits, ReleaseOK, storeVars
<1>7. ASSUME NEW r \in Requests, InputStep(r) PROVE SentOK'
  <2> USE DEF InputGoesTo, storeVars
  <2>1. CASE InputReclaim(r)
    BY <2>1, SentFrom, Transactions DEF InputReclaim, InputStaysBlocked, InputRestored, SentOK
  <2>2. CASE InputSend(r) \/ InputRefused(r)
    BY <2>2, SentFrom DEF InputSend, InputRefused
  <2>3. CASE InputDispatch(r)
    BY <2>3 DEF InputDispatch, SentOK, InputOK, RunOK
  <2>4. CASE InputEnds(r)
    BY <2>4, SentFrom, Transactions DEF InputEnds, RunType
  <2>5. CASE InputConfirm(r)
    BY <2>5, SentFrom DEF InputConfirm
  <2>6. CASE InputRecover(r)
    BY <2>6, SentFrom, Transactions DEF InputRecover, InputRestored, InputStaysBlocked, NotSent,
                                        SentOK
  <2> QED BY <1>7, <2>1, <2>2, <2>3, <2>4, <2>5, <2>6 DEF InputStep
<1>8. ASSUME UNCHANGED vars PROVE SentOK'
  BY <1>8, SentKept DEF vars, storeVars
<1> QED BY <1>1, <1>2, <1>3, <1>4, <1>5, <1>6, <1>7, <1>8 DEF Next

-----------------------------------------------------------------------------
(* The process starts with an empty queue and nothing under way.            *)
LEMMA InitInv == Init => IInv
<1> SUFFICES ASSUME Init PROVE IInv
  OBVIOUS
<1> USE RequestsAssumption DEF Init, StoreInit
<1>1. StoreTypeOK
  BY DEF StoreTypeOK, Receipt, States, NoReceipt
<1>2. TypeOK
  <2>1. /\ drain \in DrainType /\ input \in [Requests -> InputPcs]
        /\ release \in ReleaseType /\ run \in RunType
    BY RecordTypes
  <2>2. /\ sent \in [Requests -> Nat]
        /\ faults \in 0 .. MaxFaults /\ crashes \in 0 .. MaxCrashes
    BY BoundsAssumption
  <2> QED BY <1>1, <2>1, <2>2 DEF TypeOK
<1>3. DownOK /\ LockOK /\ DrainOK /\ ReleaseOK /\ RunOK /\ RunOwnsTurn /\ EditedStaysQueued
  BY DEF DownOK, LockOK, DrainOK, ReleaseOK, RunOK, RunOwnsTurn, EditedStaysQueued, Idle, NoRun,
         NoRelease, NoInput
<1>4. InputOK /\ SentOK
  BY DEF InputOK, SentOK, NoInput, NoRun, NoReceipt, IsInput
<1> QED BY <1>2, <1>3, <1>4 DEF IInv

(* Every step keeps who may act on which receipt.                           *)
LEMMA StepInv == IInv /\ [Next]_vars => IInv'
BY TypeStep, DownStep, LockStep, EditStep, DrainOKStep, RunOKStep, InputOKStep, SentOKStep
   DEF IInv

(* The invariant holds in every state the queue reaches, with any number of *)
(* requests, faults and crashes.                                            *)
THEOREM QueueInvariant == Spec => []IInv
BY InitInv, StepInv, PTL DEF Spec

(* Every variable keeps its type.                                           *)
THEOREM QueueTypes == Spec => []TypeOK
<1>1. IInv => TypeOK
  BY DEF IInv
<1> QED BY <1>1, QueueInvariant, PTL

(* No request is handed to the provider twice (dispatch of a drain, input   *)
(* to a running turn, retried, restored or recovered after a restart).      *)
THEOREM HandedOverOnce == Spec => []AtMostOnce
<1>1. IInv => AtMostOnce
  BY DEF IInv, SentOK, AtMostOnce
<1> QED BY <1>1, QueueInvariant, PTL

(* The provider works, and the answer is saved, only for the Session's live *)
(* turn, whatever releases and cancellations happen meanwhile.              *)
THEOREM RunOwnsItsTurn == Spec => []RunOwnsTurn
<1>1. IInv => RunOwnsTurn
  BY DEF IInv
<1> QED BY <1>1, QueueInvariant, PTL

(* A receipt under edit stays queued until the edit ends.                   *)
THEOREM EditsAreKept == Spec => []EditedStaysQueued
<1>1. IInv => EditedStaysQueued
  BY DEF IInv
<1> QED BY <1>1, QueueInvariant, PTL

(* The queue, with its faults and crashes, only makes transactions of the   *)
(* store with arguments the store knows: TurnQueue implements StoreSpec.    *)
THEOREM QueueUsesStore == Spec => StoreSpec
<1>1. Init => StoreInit
  BY DEF Init
<1>2. IInv /\ [Next]_vars => [StoreNext]_storeVars
  BY StepIsTransaction
<1> QED BY <1>1, <1>2, QueueInvariant, PTL DEF Spec, StoreSpec

(* In the queue, then, two turns are never claimed at once.                 *)
THEOREM QueueOneTurn == Spec => []OneTurnClaimed
<1>1. StoreInv => OneTurnClaimed
  BY DEF StoreInv
<1> QED BY <1>1, QueueUsesStore, StoreCorrect, PTL

(* And an unreleased turn of unknown outcome holds its followers.           *)
THEOREM QueueHoldsFollowers == Spec => []FollowersHeld
<1>1. StoreInv => FollowersHeld
  BY DEF StoreInv
<1> QED BY <1>1, QueueUsesStore, StoreCorrect, PTL

(* And the saved positions order the receipts totally.                      *)
THEOREM QueueOrder == Spec => []OrderIsTotal
<1>1. StoreInv => OrderIsTotal
  BY DEF StoreInv
<1> QED BY <1>1, QueueUsesStore, StoreCorrect, PTL

(* No transaction of the store changes a receipt that is terminal.          *)
LEMMA TerminalStep ==
  ASSUME StoreTypeOK, [StoreNext]_storeVars, NEW r \in Requests, rcpt[r].state \in Terminal
  PROVE  rcpt'[r] = rcpt[r]
<1> USE DEF StoreTypeOK, Becomes, Executing, Terminal
<1>1. ASSUME NEW q \in Requests,
             \/ Enqueue(q) \/ ClaimNext(q) \/ StartTurn(q) \/ MarkStarted(q) \/ RestoreInput(q)
             \/ AppendSteer(q) \/ CancelQueued(q)
      PROVE  rcpt'[r] = rcpt[r]
  BY <1>1, Transactions
<1>2. ASSUME NEW q \in Requests,
             \/ \E t \in Requests : ClaimForInput(q, t)
             \/ \E phase \in Terminal : AppendTerminal(q, phase)
             \/ \E state \in Terminal \cup {"interrupted"} : Settle(q, state)
      PROVE  rcpt'[r] = rcpt[r]
  BY <1>2, Transactions
<1>3. ASSUME NEW q \in Requests,
             \/ \E p \in Requests : Reorder(q, p)
             \/ \E free \in BOOLEAN : ReleaseInterrupted(q, free)
      PROVE  rcpt'[r] = rcpt[r]
  BY <1>3 DEF Reorder, ReleaseInterrupted, Queued, InState
<1>4. CASE RecoverInterrupted
  BY <1>4 DEF RecoverInterrupted
<1>5. CASE UNCHANGED storeVars
  BY <1>5 DEF storeVars
<1> QED BY <1>1, <1>2, <1>3, <1>4, <1>5 DEF StoreNext

(* A confirmed outcome is never changed, by any actor, in any order.        *)
THEOREM OutcomesAreFinal == Spec => TerminalIsFinal
<1>1. IInv /\ [Next]_vars
        => [\A r \in Requests : rcpt[r].state \in Terminal => rcpt'[r] = rcpt[r]]_vars
  BY StepIsTransaction, TerminalStep DEF IInv, TypeOK
<1> QED BY <1>1, QueueInvariant, PTL DEF Spec, TerminalIsFinal

=============================================================================
