------------------------- MODULE TurnQueueClaimProofs -------------------------
(***************************************************************************)
(* A turn is claimed for a Session that is idle, with nothing of an        *)
(* earlier run left, for every set of requests and every bound on faults   *)
(* and crashes.                                                            *)
(*                                                                         *)
(* The Session may be left running by a turn whose outcome is unknown.     *)
(* Then that turn is the live one and its receipt is interrupted; it holds *)
(* every claim until the user releases it, and once it is released the     *)
(* drain that lists it converges the Session before it claims.             *)
(***************************************************************************)
EXTENDS TurnQueueProofs

(* A running Session has a live turn that runs, or whose outcome is unknown. *)
LiveOK ==
  runState = "running" =>
    /\ liveTurn \in Requests
    /\ ~IsInput(liveTurn)
    /\ rcpt[liveTurn].turn
    /\ rcpt[liveTurn].state \in {"running", "interrupted"}

(* Until the start is saved the receipt of a run that is waited for starts. *)
SetupOK ==
  run.phase \in {"setup", "persisting"} /\ ~run.detached => rcpt[run.id].state = "starting"

(* A run that returned its outcome saved it, or had not started.            *)
SettleOK ==
  drain.pc = "settle" => /\ run.phase = "none"
                         /\ rcpt[drain.id].state \in {"starting"} \cup Terminal

(* While the drain holds the lock, a released turn that left the Session    *)
(* running is among those that still have to converge.                      *)
ConvergeOK ==
  /\ drain.pc \in {"list", "converge"} => ~lateWork
  /\ (/\ drain.pc = "converge" /\ runState = "running"
      /\ rcpt[liveTurn].state = "interrupted" /\ rcpt[liveTurn].released)
       => liveTurn \in drain.todo

SessionOK == LiveOK /\ SetupOK /\ SettleOK /\ ConvergeOK /\ StartFindsIdleSession

SInv == IInv /\ StoreInv /\ SessionOK

-----------------------------------------------------------------------------
Same(r) ==
  /\ rcpt'[r].state = rcpt[r].state
  /\ rcpt'[r].input = rcpt[r].input
  /\ rcpt'[r].turn = rcpt[r].turn
  /\ rcpt'[r].released = rcpt[r].released

(* A step that leaves the Session row, and every turn that was claimed.     *)
LEMMA SessionLeftAlone ==
  ASSUME SInv,
         SameSession,
         \A r \in Requests :
           IsInput(r) \/ rcpt[r].state \in {"absent", "queued"} \/ Same(r),
         \A r \in Requests :
           rcpt'[r].state = "starting" /\ (~IsInput(r))'
             => rcpt[r].state = "starting" /\ ~IsInput(r),
         run' = NoRun \/ (run'.phase = run.phase /\ run'.id = run.id /\ run'.detached = run.detached),
         drain' = drain \/ drain' \in {Idle, Entering},
         lateWork' => lateWork
  PROVE  SessionOK'
<1> USE DEF SInv, IInv, TypeOK, SessionOK, SameSession, Same, Idle, Entering, NoRun, IsInput, Terminal
<1>1. LiveOK'
  BY DEF LiveOK
<1>2. SetupOK'
  BY DEF SetupOK, RunOK
<1>3. SettleOK'
  BY DEF SettleOK, DrainOK
<1>4. ConvergeOK'
  BY DEF ConvergeOK, LiveOK
<1>5. StartFindsIdleSession'
  BY DEF StartFindsIdleSession, InState
<1> QED BY <1>1, <1>2, <1>3, <1>4, <1>5

(* Nothing is claimed while the Session is left running.                    *)
LEMMA ClaimsFindIdle ==
  ASSUME SInv, NEW r \in Requests, ClaimNext(r), drain.pc = "converge", drain.todo = {}
  PROVE  runState = "idle"
BY DEF SInv, IInv, TypeOK, StoreTypeOK, SessionOK, LiveOK, ConvergeOK, ClaimNext, Holding,
       Unreleased, InState, Executing

(* Every step keeps what is known of a Session left running.                *)
LEMMA SessionStep ==
  ASSUME SInv, [Next]_vars
  PROVE  SessionOK'
<1> USE DEF SInv, IInv, memoryVars, runtimeVars, TypeOK, StoreTypeOK, DrainWoken
<1>0. ASSUME UNCHANGED storeVars \/ (SameSession /\ \A r \in Requests : Same(r)),
             run' = run \/ run' = NoRun, drain' = drain \/ drain' \in {Idle, Entering},
             lateWork' => lateWork
      PROVE  SessionOK'
  <2>1. SameSession /\ \A r \in Requests : Same(r)
    BY <1>0 DEF Same, SameSession, storeVars
  <2> QED BY <1>0, <2>1, SessionLeftAlone DEF Same, IsInput
<1>1. ASSUME UserStep PROVE SessionOK'
  <2>1. CASE EndEdit \/ \E r \in Requests : BeginEdit(r) \/ ReleaseBegins(r) \/ Lookup(r)
    BY <2>1, <1>0, WakeWakes DEF EndEdit, BeginEdit, ReleaseBegins, Lookup
  <2>2. CASE RunCancel
    BY <2>2, SessionLeftAlone DEF RunCancel, RunUnchanged, RunType, storeVars, Same, SameSession,
                                  IsInput
  <2>3. ASSUME NEW r \in Requests, Accept(r) \/ Cancel(r) PROVE SessionOK'
    <3>1. /\ rcpt[r].state \in {"absent", "queued"}
          /\ rcpt'[r].state \in {"queued", "canceled"}
          /\ \A q \in Requests \ {r} : rcpt'[q] = rcpt[q]
          /\ SameSession
      BY <2>3, Transactions DEF Accept, Cancel, Becomes
    <3>2. run' = run /\ lateWork' = lateWork /\ drain' \in {drain, Entering}
      BY <2>3, WakeWakes DEF Accept, Cancel
    <3> QED BY <3>1, <3>2, SessionLeftAlone DEF Same, IsInput
  <2>4. ASSUME NEW r \in Requests, NEW q \in Requests, MoveQueued(r, q) PROVE SessionOK'
    <3>1. SameSession /\ \A p \in Requests : Same(p)
      BY <2>4 DEF MoveQueued, Reorder, Same, SameSession, Receipt
    <3> QED BY <2>4, <3>1, <1>0 DEF MoveQueued
  <2>5. ASSUME NEW r \in Requests, NEW t \in Requests, InputClaim(r, t) PROVE SessionOK'
    <3>1. CASE ClaimForInput(r, t)
      <4>1. /\ rcpt[r].state = "queued" /\ rcpt'[r].input = t /\ t # NoRequest
            /\ \A q \in Requests \ {r} : rcpt'[q] = rcpt[q]
            /\ SameSession
        BY <3>1, Transactions, RequestsAssumption DEF Becomes
      <4>2. run' = run /\ lateWork' = lateWork /\ drain' = drain
        BY <2>5 DEF InputClaim
      <4> QED BY <4>1, <4>2, SessionLeftAlone DEF Same, IsInput
    <3>2. CASE UNCHANGED storeVars
      BY <2>5, <3>2, <1>0 DEF InputClaim
    <3> QED BY <2>5, <3>1, <3>2 DEF InputClaim
  <2> QED BY <1>1, <2>1, <2>2, <2>3, <2>4, <2>5 DEF UserStep
<1>2. ASSUME ApplicationStep PROVE SessionOK'
  <2>1. CASE Restart
    <3>1. runState' = "idle" /\ run'.phase = "none" /\ drain'.pc \in {"idle", "enter"}
      BY <2>1, WakeWakes DEF Restart, RecoverInterrupted, DownOK, Entering, Idle
    <3> QED BY <3>1 DEF SessionOK, LiveOK, SetupOK, SettleOK, ConvergeOK, StartFindsIdleSession
  <2>2. CASE ~Restart
    BY <1>2, <2>2, <1>0, WakeWakes DEF ApplicationStep, Crash, BeginShutdown, Resume,
       ProviderBecomesBusy, ProviderBecomesAvailable
  <2> QED BY <2>1, <2>2
<1>3. ASSUME DrainStep PROVE SessionOK'
  <2> USE EndedDrain DEF DrainGoesTo, DrainLeavesLock, DrainType
  <2>0. ASSUME UNCHANGED storeVars, run' = run, lateWork' = lateWork,
               drain'.pc \notin {"settle", "list", "converge"}
        PROVE  SessionOK'
    BY <2>0 DEF storeVars, SessionOK, LiveOK, SetupOK, SettleOK, ConvergeOK,
                StartFindsIdleSession, InState, IsInput
  <2>1. CASE DrainEnter
    <3>1. CASE drain'.pc = "list"
      BY <2>1, <3>1 DEF DrainEnter, InFlight, RuntimeBusy, Idle, Entering, storeVars, SessionOK,
             LiveOK, SetupOK, SettleOK, ConvergeOK, StartFindsIdleSession, InState, IsInput
    <3>2. CASE drain'.pc # "list"
      BY <2>0, <2>1, <3>2 DEF DrainEnter, Idle, Entering
    <3> QED BY <3>1, <3>2
  <2>2. CASE DrainList
    <3>1. UNCHANGED storeVars /\ run' = run /\ lateWork' = lateWork
      BY <2>2 DEF DrainList
    <3>2. CASE DrainLeavesLock
      BY <2>0, <3>1, <3>2 DEF Idle, Entering
    <3>3. CASE ~DrainLeavesLock
      <4>1. /\ drain'.pc = "converge" /\ drain'.todo = InState({"interrupted"}) \ Unreleased
            /\ drain.pc = "list"
        BY <2>2, <3>3 DEF DrainList
      <4>2. ConvergeOK'
        BY <3>1, <4>1 DEF SessionOK, ConvergeOK, LiveOK, InState, Unreleased, storeVars
      <4> QED BY <3>1, <4>1, <4>2 DEF SessionOK, LiveOK, SetupOK, SettleOK,
                                      StartFindsIdleSession, InState, IsInput, storeVars
    <3> QED BY <3>2, <3>3
  <2>3. ASSUME NEW r \in Requests, ReleaseInterrupted(r, TRUE),
               drain.pc = "converge", UNCHANGED <<run, lateWork>>,
               drain' = [drain EXCEPT !.todo = @ \ {r}] \/ drain' \in {Idle, Entering}
        PROVE  SessionOK'
    <3>1. LiveOK'
      BY <2>3, Transactions DEF ReleaseInterrupted, SessionOK, LiveOK, IsInput
    <3>2. SetupOK' /\ SettleOK'
      BY <2>3 DEF DrainOK, SessionOK, SetupOK, SettleOK, Idle, Entering
    <3>3. ConvergeOK'
      BY <2>3 DEF ReleaseInterrupted, SessionOK, LiveOK, ConvergeOK, Idle, Entering
    <3>4. StartFindsIdleSession'
      BY <2>3, Transactions DEF SameReceipts, SameKind, SessionOK, StartFindsIdleSession, InState,
             IsInput, ReleaseInterrupted
    <3> QED BY <3>1, <3>2, <3>3, <3>4 DEF SessionOK
  <2>4. ASSUME NEW r \in Requests, ClaimNext(r), drain.pc = "converge", drain.todo = {},
               UNCHANGED <<run, lateWork>>, drain'.pc \notin {"settle", "list", "converge"}
        PROVE  SessionOK'
    <3>1. runState' = "idle" /\ run'.phase = "none"
      BY <2>4, ClaimsFindIdle, Transactions DEF SameSession, DrainOK
    <3> QED BY <2>4, <3>1 DEF SessionOK, LiveOK, SetupOK, SettleOK, ConvergeOK,
                              StartFindsIdleSession
  <2>5. CASE \E r \in Requests : DrainConverge(r)
    BY <2>3, <2>5 DEF DrainConverge
  <2>6. CASE DrainClaim
    <3>1. run' = run /\ lateWork' = lateWork /\ drain.pc = "converge" /\ drain.todo = {}
      BY <2>6 DEF DrainClaim
    <3>2. drain'.pc \in {"idle", "enter", "claimed"}
      <4>1. CASE DrainLeavesLock
        BY <4>1 DEF Idle, Entering
      <4>2. CASE ~DrainLeavesLock
        BY <2>6, <4>2 DEF DrainClaim
      <4> QED BY <4>1, <4>2
    <3>3. UNCHANGED storeVars \/ \E r \in Requests : ClaimNext(r)
      BY <2>6 DEF DrainClaim
    <3> QED BY <2>0, <2>4, <3>1, <3>2, <3>3
  <2>7. CASE DrainStorageFails
    <3>1. run' = run /\ lateWork' = lateWork /\ drain' \in {Idle, Entering}
      BY <2>7 DEF DrainStorageFails
    <3>2. drain'.pc \in {"idle", "enter"}
      BY <3>1 DEF Idle, Entering
    <3>3. \/ UNCHANGED storeVars
          \/ \E r \in Requests : drain.pc = "converge" /\ ReleaseInterrupted(r, TRUE)
          \/ drain.pc = "converge" /\ drain.todo = {} /\ \E r \in Requests : ClaimNext(r)
      BY <2>7 DEF DrainStorageFails
    <3> QED BY <2>0, <2>3, <2>4, <3>1, <3>2, <3>3
  <2>8. CASE DrainDispatch
    BY <2>8 DEF DrainDispatch, DrainOK, NoRun, storeVars, SessionOK, LiveOK, SetupOK, SettleOK,
                ConvergeOK, StartFindsIdleSession, InState, IsInput
  <2>9. ASSUME NEW x, Settle(drain.id, x), drain.pc \in {"settle", "interrupt"},
               drain.pc = "interrupt" => x = "interrupted",
               x # "starting",
               UNCHANGED <<run, lateWork>>, drain'.pc \notin {"settle", "list", "converge"}
        PROVE  SessionOK'
    <3> DEFINE d == drain.id
    <3>1. /\ d \in Requests /\ SameSession
          /\ \/ rcpt' = rcpt
             \/ /\ rcpt[d].state \in Executing
                /\ rcpt' = [rcpt EXCEPT ![d].state = x]
      BY <2>9 DEF DrainOK, Settle, storeVars, SameSession
    <3>2. LiveOK'
      BY <2>9, <3>1 DEF SessionOK, LiveOK, SettleOK, SameSession, IsInput, Terminal, Receipt
    <3>3. SetupOK'
      BY <2>9, <3>1 DEF SessionOK, SetupOK, SettleOK, RunOK
    <3>4. SettleOK' /\ ConvergeOK'
      BY <2>9 DEF SettleOK, ConvergeOK
    <3>5. StartFindsIdleSession'
      BY <2>9, <3>1 DEF SessionOK, StartFindsIdleSession, InState, IsInput, SameSession, Receipt
    <3> QED BY <3>2, <3>3, <3>4, <3>5 DEF SessionOK
  <2>10. CASE DrainSettle
    BY <2>0, <2>9, <2>10 DEF DrainSettle, DrainOK, Terminal
  <2>11. CASE DrainInterrupt
    BY <2>0, <2>9, <2>11 DEF DrainInterrupt, Idle, Entering
  <2>12. CASE DrainConfirm
    BY <2>0, <2>12 DEF DrainConfirm, Idle, Entering
  <2>13. CASE DrainCheck
    BY <2>0, <2>13 DEF DrainCheck, Idle, Entering
  <2> QED BY <1>3, <2>1, <2>2, <2>5, <2>6, <2>7, <2>8, <2>10, <2>11, <2>12, <2>13 DEF DrainStep
<1>4. ASSUME RunStep PROVE SessionOK'
  <2> USE SignalWakes DEF RunUnchanged, Idle, Entering, DrainType, RunType
  <2>0. ASSUME UNCHANGED storeVars, run.phase # "none", run'.phase # "none", run'.id = run.id,
               run'.phase \in {"setup", "persisting"} =>
                  run.phase \in {"setup", "persisting"} /\ (run.detached => run'.detached),
               drain' = drain \/ drain'.pc = "interrupt"
        PROVE  SessionOK'
    BY <2>0 DEF storeVars, DrainOK, RunOK, SessionOK, LiveOK, SetupOK, SettleOK,
                ConvergeOK, StartFindsIdleSession, InState, IsInput
  <2>1. ASSUME Throw, UNCHANGED storeVars, lateWork' = lateWork PROVE SessionOK'
    BY <2>1 DEF Throw, Reject, NoRun, storeVars, SessionOK, LiveOK, SetupOK, SettleOK,
                ConvergeOK, StartFindsIdleSession, InState, IsInput
  <2>2. CASE RunSetupEnds
    <3>1. CASE Throw
      BY <2>1, <2>2, <3>1 DEF RunSetupEnds
    <3>2. CASE ~Throw
      <4>1. /\ UNCHANGED storeVars /\ run' = NoRun
            /\ drain'.pc = "settle" /\ drain'.id = drain.id
            /\ drain.id = run.id /\ rcpt[run.id].state = "starting"
        BY <2>2, <3>2 DEF RunSetupEnds, Finish, RunOK, SessionOK, SetupOK
      <4> QED BY <4>1 DEF NoRun, storeVars, SessionOK, LiveOK, SetupOK, SettleOK, ConvergeOK,
                          StartFindsIdleSession, InState, IsInput
    <3> QED BY <3>1, <3>2
  <2>3. CASE RunCancelDeadline
    BY <2>0, <2>3 DEF RunCancelDeadline, Reject
  <2>4. CASE RunPersistIssues
    BY <2>0, <2>4 DEF RunPersistIssues, GoesTo
  <2>5. CASE RunPersists
    <3>1. CASE StartTurn(run.id)
      <4>1. /\ run.id \in Requests /\ ~IsInput(run.id)
            /\ rcpt[run.id].state = "starting"
            /\ rcpt' = [rcpt EXCEPT ![run.id].state = "running", ![run.id].turn = TRUE]
            /\ liveTurn' = run.id
        BY <2>5, <3>1 DEF RunPersists, RunOK, StartTurn
      <4>2. LiveOK'
        BY <4>1 DEF LiveOK, IsInput
      <4>3. run'.phase \notin {"setup", "persisting"}
        BY <2>5 DEF RunPersists, GoesTo, Throw, NoRun
      <4>4. drain'.pc \notin {"settle", "list", "converge"}
        BY <2>5 DEF RunPersists, GoesTo, Throw, Reject, DrainOK, SessionOK, SettleOK
      <4>5. StartFindsIdleSession'
        BY <4>1 DEF StoreInv, OneTurnClaimed, StartFindsIdleSession, InState, Executing, IsInput
      <4> QED BY <4>2, <4>3, <4>4, <4>5 DEF SessionOK, SetupOK, SettleOK, ConvergeOK
    <3>2. CASE ~StartTurn(run.id)
      BY <2>1, <2>5, <3>2 DEF RunPersists
    <3> QED BY <3>1, <3>2
  <2>6. CASE RunMarks
    <3>1. UNCHANGED storeVars
      BY <2>6 DEF RunMarks, MarkStarted
    <3>2. CASE Throw
      BY <2>1, <2>6, <3>1, <3>2 DEF RunMarks
    <3>3. CASE ~Throw
      BY <2>0, <2>6, <3>1, <3>3 DEF RunMarks, GoesTo
    <3> QED BY <3>2, <3>3
  <2>7. CASE RunCallsProvider \/ RunProviderEnds
    BY <2>0, <2>7 DEF RunCallsProvider, RunProviderEnds, GoesTo
  <2>8. CASE RunSaves
    <3>1. CASE UNCHANGED storeVars
      BY <2>1, <2>8, <3>1, Transactions DEF RunSaves, AppendTerminal, RunOwnsTurn, storeVars
    <3>2. CASE AppendTerminal(run.id, run.outcome)
      <4>1. runState' = "idle" /\ run' = NoRun /\ drain'.pc \notin {"list", "converge"}
        BY <2>8, <3>2 DEF RunSaves, AppendTerminal, Finish, Throw, Reject, DrainOK
      <4>2. SettleOK'
        <5>1. CASE Finish(run.outcome)
          <6>1. drain'.id = run.id /\ rcpt'[run.id].state \in Terminal
            BY <2>8, <3>2, <5>1 DEF RunSaves, Finish, AppendTerminal, RunOwnsTurn, RunOK, Receipt
          <6> QED BY <4>1, <6>1 DEF SettleOK, NoRun
        <5>2. CASE Throw
          BY <2>8, <5>2 DEF Throw, Reject, RunSaves, RunOK, SessionOK, SettleOK
        <5> QED BY <2>8, <5>1, <5>2 DEF RunSaves
      <4> QED BY <4>1, <4>2 DEF NoRun, SessionOK, LiveOK, SetupOK, ConvergeOK,
                                StartFindsIdleSession
    <3> QED BY <2>8, <3>1, <3>2 DEF RunSaves
  <2> QED BY <1>4, <2>2, <2>3, <2>4, <2>5, <2>6, <2>7, <2>8 DEF RunStep
<1>5. ASSUME LateWorkEnds PROVE SessionOK'
  BY <1>5, <1>0, SignalWakes DEF LateWorkEnds
<1>6. ASSUME ReleaseCommits PROVE SessionOK'
  <2>1. CASE UNCHANGED storeVars
    BY <1>6, <2>1, <1>0, WakeWakes DEF ReleaseCommits
  <2>2. CASE ReleaseInterrupted(release.id, release.free)
    <3>1. /\ release.id \in Requests /\ UNCHANGED run
          /\ drain' \in {drain, Entering} /\ lateWork' = lateWork
          /\ drain.pc \notin {"list", "converge"}
      BY <1>6, WakeWakes DEF ReleaseCommits, ReleaseOK, LockOK
    <3>2. /\ SameReceipts /\ liveTurn' = liveTurn
          /\ runState' \in {runState, "idle"}
          /\ \A r \in Requests : rcpt'[r].turn = rcpt[r].turn
      <4>1. SameReceipts /\ liveTurn' = liveTurn
        BY <2>2, <3>1, Transactions
      <4>2. /\ runState' \in {runState, "idle"}
            /\ \A r \in Requests : rcpt'[r].turn = rcpt[r].turn
        BY <2>2, <3>1 DEF ReleaseInterrupted, Receipt
      <4> QED BY <4>1, <4>2
    <3> QED BY <3>1, <3>2 DEF SameReceipts, SameKind, SessionOK, LiveOK, SetupOK, SettleOK,
                   ConvergeOK, StartFindsIdleSession, InState, IsInput, Entering, Idle, DrainOK,
                   RunOK
  <2> QED BY <1>6, <2>1, <2>2 DEF ReleaseCommits
<1>7. ASSUME NEW r \in Requests, InputStep(r) PROVE SessionOK'
  <2> USE WakeWakes, SignalWakes
  <2>1. CASE InputSend(r) \/ InputRefused(r) \/ InputDispatch(r) \/ InputConfirm(r)
    BY <2>1, <1>0 DEF InputSend, InputRefused, InputDispatch, InputConfirm, Reconcile
  <2>2. ASSUME \/ RestoreInput(r) \/ AppendSteer(r) \/ Settle(r, "interrupted")
               \/ UNCHANGED storeVars,
               IsInput(r),
               run'.phase = run.phase /\ run'.id = run.id /\ run'.detached = run.detached,
               drain' = drain \/ drain' \in {Idle, Entering},
               lateWork' = lateWork
        PROVE  SessionOK'
    <3>1. /\ SameSession
          /\ \A q \in Requests \ {r} : rcpt'[q] = rcpt[q]
          /\ rcpt' = rcpt \/ rcpt'[r].state \in {"queued", "completed", "interrupted"}
      BY <2>2, Transactions DEF Becomes, SameSession, storeVars
    <3> QED BY <2>2, <3>1, SessionLeftAlone DEF Same, IsInput, DrainOK
  <2>3. CASE InputEnds(r)
    BY <2>2, <2>3 DEF InputEnds, InputOK, RunType
  <2>4. CASE InputReclaim(r)
    BY <2>2, <2>4 DEF InputReclaim, InputStaysBlocked, InputRestored, InputOK
  <2>5. CASE InputRecover(r)
    BY <2>2, <2>5 DEF InputRecover, InputRestored, InputStaysBlocked, InputOK
  <2> QED BY <1>7, <2>1, <2>3, <2>4, <2>5 DEF InputStep
<1>8. ASSUME UNCHANGED vars PROVE SessionOK'
  BY <1>8, <1>0 DEF vars
<1> QED BY <1>1, <1>2, <1>3, <1>4, <1>5, <1>6, <1>7, <1>8 DEF Next

-----------------------------------------------------------------------------
(* The invariant holds of the queue.                                        *)
THEOREM SessionInvariant == Spec => []SInv
<1>1. Init => SInv
  <2> SUFFICES ASSUME Init PROVE SInv
    OBVIOUS
  <2>1. StoreInv
    <3>1. StoreTypeOK
      BY InitInv DEF IInv, TypeOK
    <3>2. OrderIsTotal /\ OneTurnClaimed /\ FollowersHeld
      BY DEF Init, StoreInit, NoReceipt, OrderIsTotal, OneTurnClaimed, FollowersHeld, Unreleased,
             InState, Executing
    <3> QED BY <3>1, <3>2 DEF StoreInv
  <2>2. SessionOK
    BY DEF Init, StoreInit, Idle, NoRun, SessionOK, LiveOK, SetupOK, SettleOK, ConvergeOK,
           StartFindsIdleSession
  <2> QED BY <2>1, <2>2, InitInv DEF SInv
<1>2. SInv /\ [Next]_vars => SInv'
  <2> SUFFICES ASSUME SInv, [Next]_vars PROVE SInv'
    OBVIOUS
  <2>1. IInv' /\ SessionOK'
    BY StepInv, SessionStep DEF SInv
  <2>2. StoreInv'
    BY StepIsTransaction, StoreTypes, StoreOrder, StoreOneTurn, StoreFollowers DEF SInv, StoreInv
  <2> QED BY <2>1, <2>2 DEF SInv
<1> QED BY <1>1, <1>2, PTL DEF Spec

(* A turn that is about to start finds the Session idle, whatever the turns *)
(* before it left behind and however early they were released.              *)
THEOREM TurnsStartIdle == Spec => []StartFindsIdleSession
<1>1. SInv => StartFindsIdleSession
  BY DEF SInv, SessionOK
<1> QED BY <1>1, SessionInvariant, PTL

(* Only the drain, at the end of its convergence, claims a receipt as a     *)
(* turn.                                                                    *)
LEMMA OnlyTheDrainClaims ==
  ASSUME IInv, [Next]_vars, NEW r \in Requests,
         rcpt[r].state = "queued", rcpt'[r].state = "starting", rcpt'[r].input = NoRequest
  PROVE  drain.pc = "converge" /\ InState(Executing) = {}
<1> USE DEF IInv, TypeOK, StoreTypeOK, Becomes, SameReceipts, Executing, Terminal
<1>0. rcpt' # rcpt
  OBVIOUS
<1>1. ~UserStep
  BY <1>0, Transactions, RequestsAssumption
     DEF UserStep, EndEdit, RunCancel, Accept, Lookup, Cancel, BeginEdit, ReleaseBegins,
         MoveQueued, InputClaim, storeVars
<1>2. ~ApplicationStep
  BY <1>0 DEF ApplicationStep, Crash, Restart, RecoverInterrupted, BeginShutdown, Resume,
              ProviderBecomesBusy, ProviderBecomesAvailable, storeVars
<1>3. ASSUME DrainStep PROVE drain.pc = "converge" /\ InState(Executing) = {}
  <2>1. ~(DrainEnter \/ DrainList \/ DrainDispatch \/ DrainConfirm \/ DrainCheck)
    BY <1>0 DEF DrainEnter, DrainList, DrainDispatch, DrainConfirm, DrainCheck, storeVars
  <2>2. ~(DrainSettle \/ DrainInterrupt \/ \E q \in Requests : DrainConverge(q))
    BY <1>0, Transactions DEF DrainSettle, DrainInterrupt, DrainConverge, DrainOK, storeVars
  <2>3. CASE DrainClaim
    BY <1>0, <2>3 DEF DrainClaim, ClaimNext, Holding, storeVars
  <2>4. CASE DrainStorageFails
    <3>1. \A q \in drain.todo : q \in Requests
      BY DEF DrainType
    <3>2. PICK q \in Requests : drain.pc = "converge" /\ ClaimNext(q)
      BY <1>0, <2>4, <3>1, Transactions DEF DrainStorageFails, storeVars
    <3> QED BY <3>2 DEF ClaimNext, Holding
  <2> QED BY <1>3, <2>1, <2>2, <2>3, <2>4 DEF DrainStep
<1>4. ~RunStep
  BY <1>0, Transactions
     DEF RunStep, RunSetupEnds, RunCancelDeadline, RunPersistIssues, RunPersists, RunMarks,
         RunCallsProvider, RunProviderEnds, RunSaves, RunOK, storeVars
<1>5. ~LateWorkEnds
  BY <1>0 DEF LateWorkEnds, storeVars
<1>6. ~ReleaseCommits
  BY <1>0, Transactions DEF ReleaseCommits, ReleaseOK, storeVars
<1>7. ASSUME NEW q \in Requests, InputStep(q) PROVE FALSE
  BY <1>0, <1>7, Transactions
     DEF InputStep, InputReclaim, InputStaysBlocked, InputSend, InputRefused, InputDispatch, InputEnds,
         InputConfirm, InputRecover, storeVars
<1>8. ~UNCHANGED vars
  BY <1>0 DEF vars, storeVars
<1> QED BY <1>1, <1>2, <1>3, <1>4, <1>5, <1>6, <1>7, <1>8 DEF Next

(* A turn is claimed only when no run, no cleanup of a provider and no      *)
(* input of the Session is in flight.                                       *)
THEOREM ClaimsFindNoRun == Spec => ClaimFindsNoRun
<1>1. ASSUME SInv, [Next]_vars, NEW r \in Requests,
             rcpt[r].state = "queued", rcpt'[r].state = "starting", rcpt'[r].input = NoRequest
      PROVE  ~RuntimeBusy
  <2>1. drain.pc = "converge" /\ InState(Executing) = {}
    BY <1>1, OnlyTheDrainClaims DEF SInv
  <2>2. run.phase = "none" /\ ~lateWork
    BY <1>1, <2>1 DEF SInv, IInv, DrainOK, SessionOK, ConvergeOK
  <2>3. PendingInput = {}
    BY <1>1, <2>1 DEF PendingInput, SInv, IInv, InputOK, InState, Executing
  <2> QED BY <2>2, <2>3 DEF RuntimeBusy
<1>2. SInv /\ [Next]_vars
        => [\A r \in Requests :
              (/\ rcpt[r].state = "queued" /\ rcpt'[r].state = "starting"
               /\ rcpt'[r].input = NoRequest)
                => ~RuntimeBusy]_vars
  BY <1>1
<1> QED BY <1>2, SessionInvariant, PTL DEF Spec, ClaimFindsNoRun

==============================================================================
