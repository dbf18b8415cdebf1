------------------------ MODULE TurnQueueContractProofs ------------------------
(***************************************************************************)
(* TurnQueue implements TurnQueueContract, for every set of requests and   *)
(* every bound on faults and crashes: under the refinement mapping of      *)
(* TurnQueue every step is one its callers were promised, or changes       *)
(* nothing they can see.                                                   *)
(*                                                                         *)
(* Beyond IInv the mapping needs two facts: only an interrupted receipt is *)
(* released, so that what becomes interrupted is unknown and not released; *)
(* and an input that the provider may answer was handed over.              *)
(*                                                                         *)
(* From the first of them follows, too, that a queue of which no storage   *)
(* call failed is never left blocked without a request to release.         *)
(***************************************************************************)
EXTENDS TurnQueueProofs

OnlyUnknownReleased == \A r \in Requests : rcpt[r].released => rcpt[r].state = "interrupted"

DispatchedWasSent == \A r \in Requests : input[r] = "dispatched" => sent[r] = 1

CInv == IInv /\ OnlyUnknownReleased /\ DispatchedWasSent

(* No transaction takes a receipt out of 'interrupted', or releases another *)
(* one.                                                                     *)
LEMMA ReleasedStep ==
  ASSUME StoreTypeOK, OnlyUnknownReleased, [StoreNext]_storeVars
  PROVE  OnlyUnknownReleased'
<1> USE DEF StoreTypeOK, OnlyUnknownReleased, Receipt, Executing, Terminal
<1>1. ASSUME NEW r \in Requests,
             Enqueue(r) \/ ClaimNext(r) \/ StartTurn(r) \/ MarkStarted(r) \/ CancelQueued(r)
      PROVE  OnlyUnknownReleased'
  BY <1>1 DEF Enqueue, ClaimNext, IsNext, Queued, InState, StartTurn, MarkStarted, CancelQueued,
              storeVars
<1>2. ASSUME NEW r \in Requests,
             RestoreInput(r) \/ AppendSteer(r) \/ \E t \in Requests : ClaimForInput(r, t)
      PROVE  OnlyUnknownReleased'
  BY <1>2 DEF RestoreInput, AppendSteer, ClaimForInput
<1>3. ASSUME NEW r \in Requests,
             \/ \E phase \in Terminal : AppendTerminal(r, phase)
             \/ \E state \in Terminal \cup {"interrupted"} : Settle(r, state)
      PROVE  OnlyUnknownReleased'
  BY <1>3 DEF AppendTerminal, Settle, storeVars
<1>4. ASSUME NEW r \in Requests, NEW q \in Requests, Reorder(r, q) PROVE OnlyUnknownReleased'
  <2>1. \A p \in Requests :
          rcpt'[p].released = rcpt[p].released /\ rcpt'[p].state = rcpt[p].state
    BY <1>4 DEF Reorder
  <2> QED BY <2>1
<1>7. ASSUME NEW r \in Requests, NEW free \in BOOLEAN, ReleaseInterrupted(r, free)
      PROVE  OnlyUnknownReleased'
  BY <1>7 DEF ReleaseInterrupted
<1>5. CASE RecoverInterrupted
  BY <1>5 DEF RecoverInterrupted
<1>6. CASE UNCHANGED storeVars
  BY <1>6 DEF storeVars
<1> QED BY <1>1, <1>2, <1>3, <1>4, <1>5, <1>6, <1>7 DEF StoreNext

(* The provider answers an input only after it was handed over.             *)
LEMMA DispatchedStep ==
  ASSUME IInv, DispatchedWasSent, [Next]_vars
  PROVE  DispatchedWasSent'
<1> USE DEF DispatchedWasSent, memoryVars, runtimeVars, IInv, TypeOK
<1>0. ASSUME sent' = sent, \A r \in Requests : input'[r] = "dispatched" => input[r] = "dispatched"
      PROVE  DispatchedWasSent'
  BY <1>0
<1>1. ASSUME UserStep PROVE DispatchedWasSent'
  BY <1>1, <1>0 DEF UserStep, EndEdit, RunCancel, RunUnchanged, Accept, Lookup, Cancel, BeginEdit,
                    ReleaseBegins, MoveQueued, InputClaim, InputGoesTo
<1>2. ASSUME ApplicationStep PROVE DispatchedWasSent'
  BY <1>2, <1>0 DEF ApplicationStep, Crash, Restart, BeginShutdown, Resume, ProviderBecomesBusy,
                    ProviderBecomesAvailable, NoInput
<1>3. ASSUME DrainStep PROVE DispatchedWasSent'
  BY <1>3, <1>0 DEF DrainStep, DrainEnter, DrainList, DrainConverge, DrainClaim,
                    DrainStorageFails, DrainDispatch, DrainSettle, DrainConfirm, DrainInterrupt,
                    DrainCheck
<1>4. ASSUME RunStep PROVE DispatchedWasSent'
  <2>1. CASE RunCallsProvider
    <3>1. sent[run.id] = 0
      BY <2>1 DEF RunCallsProvider, SentOK
    <3> QED BY <2>1, <3>1 DEF RunCallsProvider, RunUnchanged
  <2>2. CASE ~RunCallsProvider
    BY <1>4, <2>2, <1>0 DEF RunStep, RunUnchanged, RunSetupEnds, RunCancelDeadline,
                            RunPersistIssues, RunPersists, RunMarks, RunProviderEnds, RunSaves
  <2> QED BY <2>1, <2>2
<1>5. ASSUME LateWorkEnds \/ ReleaseCommits PROVE DispatchedWasSent'
  BY <1>5, <1>0 DEF LateWorkEnds, ReleaseCommits
<1>6. ASSUME NEW r \in Requests, InputStep(r) PROVE DispatchedWasSent'
  <2> USE DEF InputGoesTo
  <2>1. CASE InputDispatch(r)
    BY <2>1 DEF InputDispatch, SentOK
  <2>2. CASE InputReclaim(r) \/ InputSend(r) \/ InputRefused(r) \/ InputEnds(r)
    BY <2>2, <1>0 DEF InputReclaim, InputStaysBlocked, InputSend, InputRefused, InputEnds, InputRestored
  <2>3. CASE InputConfirm(r) \/ InputRecover(r)
    BY <2>3, <1>0 DEF InputConfirm, InputRecover, InputRestored, InputStaysBlocked, Reconcile
  <2> QED BY <1>6, <2>1, <2>2, <2>3 DEF InputStep
<1>7. ASSUME UNCHANGED vars PROVE DispatchedWasSent'
  BY <1>7, <1>0 DEF vars
<1> QED BY <1>1, <1>2, <1>3, <1>4, <1>5, <1>6, <1>7 DEF Next

-----------------------------------------------------------------------------
(* The transactions as the queue issues them: a turn's outcome is settled   *)
(* for turns, an input is saved once it was handed over and put back only   *)
(* if it was not, and only a queued receipt that never was an input is      *)
(* claimed as a turn.                                                       *)
Promised(r) ==
  \/ Enqueue(r) \/ StartTurn(r) \/ MarkStarted(r) \/ CancelQueued(r)
  \/ ~IsInput(r) /\ ClaimNext(r)
  \/ \E t \in Requests : ClaimForInput(r, t)
  \/ sent[r] = 0 /\ RestoreInput(r)
  \/ sent[r] = 1 /\ AppendSteer(r)
  \/ ~IsInput(r) /\ \E x \in Terminal : AppendTerminal(r, x) \/ Settle(r, x)
  \/ Settle(r, "interrupted")
  \/ \E q \in Requests : Reorder(r, q)
  \/ \E free \in BOOLEAN : ReleaseInterrupted(r, free)

Calls(r) ==
  /\ rcpt[r].state \in Executing
  /\ sent[r] = 0
  /\ sent' = [sent EXCEPT ![r] = @ + 1]
  /\ UNCHANGED storeVars

Quietly == UNCHANGED <<storeVars, sent>>

PromisedStep ==
  \/ UNCHANGED sent /\ \E r \in Requests : Promised(r)
  \/ UNCHANGED sent /\ RecoverInterrupted
  \/ \E r \in Requests : Calls(r)
  \/ Quietly

(* Every step of the queue is one of these.                                 *)
LEMMA StepIsPromised ==
  ASSUME CInv, [Next]_vars
  PROVE  PromisedStep
<1> USE DEF CInv, IInv, memoryVars, runtimeVars, Quietly
<1>1. ASSUME UserStep PROVE PromisedStep
  BY <1>1 DEF UserStep, EndEdit, RunCancel, RunUnchanged, Accept, Lookup, Cancel, BeginEdit,
              ReleaseBegins, MoveQueued, InputClaim, PromisedStep, Promised
<1>2. ASSUME ApplicationStep PROVE PromisedStep
  BY <1>2 DEF ApplicationStep, Crash, Restart, BeginShutdown, Resume, ProviderBecomesBusy,
              ProviderBecomesAvailable, PromisedStep
<1>3. ASSUME DrainStep PROVE PromisedStep
  <2>0. ASSUME NEW r \in Requests, ClaimNext(r) PROVE ~IsInput(r)
    BY <2>0 DEF ClaimNext, IsNext, Queued, InState, SentOK
  <2>1. CASE DrainEnter \/ DrainList \/ DrainDispatch \/ DrainConfirm \/ DrainCheck
    BY <2>1 DEF DrainEnter, DrainList, DrainDispatch, DrainConfirm, DrainCheck, PromisedStep
  <2>2. CASE DrainClaim
    BY <2>2, <2>0 DEF DrainClaim, PromisedStep, Promised
  <2>3. CASE DrainStorageFails
    BY <2>3, <2>0 DEF DrainStorageFails, PromisedStep, Promised, DrainType, TypeOK
  <2>4. CASE DrainSettle
    BY <2>4 DEF DrainSettle, DrainOK, PromisedStep, Promised
  <2>5. CASE DrainInterrupt
    BY <2>5 DEF DrainInterrupt, DrainOK, PromisedStep, Promised
  <2>6. CASE \E r \in Requests : DrainConverge(r)
    BY <2>6 DEF DrainConverge, PromisedStep, Promised
  <2> QED BY <1>3, <2>1, <2>2, <2>3, <2>4, <2>5, <2>6 DEF DrainStep
<1>4. ASSUME RunStep PROVE PromisedStep
  <2> USE DEF RunUnchanged, RunOK
  <2>1. CASE RunSetupEnds \/ RunCancelDeadline \/ RunPersistIssues \/ RunProviderEnds
    BY <2>1 DEF RunSetupEnds, RunCancelDeadline, RunPersistIssues, RunProviderEnds, PromisedStep
  <2>2. CASE RunPersists
    BY <2>2 DEF RunPersists, PromisedStep, Promised
  <2>3. CASE RunMarks
    BY <2>3 DEF RunMarks, PromisedStep, Promised
  <2>4. CASE RunCallsProvider
    <3>1. sent[run.id] = 0 /\ rcpt[run.id].state \in Executing /\ run.id \in Requests
      BY <2>4 DEF RunCallsProvider, SentOK, RunOwnsTurn, Executing
    <3> QED BY <2>4, <3>1 DEF RunCallsProvider, PromisedStep, Calls
  <2>5. CASE RunSaves
    BY <2>5 DEF RunSaves, PromisedStep, Promised
  <2> QED BY <1>4, <2>1, <2>2, <2>3, <2>4, <2>5 DEF RunStep
<1>5. ASSUME LateWorkEnds PROVE PromisedStep
  BY <1>5 DEF LateWorkEnds, PromisedStep
<1>6. ASSUME ReleaseCommits PROVE PromisedStep
  BY <1>6 DEF ReleaseCommits, ReleaseOK, ReleaseType, TypeOK, PromisedStep, Promised
<1>7. ASSUME NEW r \in Requests, InputStep(r) PROVE PromisedStep
  <2>1. CASE InputSend(r) \/ InputRefused(r) \/ InputConfirm(r)
    BY <2>1 DEF InputSend, InputRefused, InputConfirm, PromisedStep
  <2>2. CASE InputDispatch(r)
    BY <2>2 DEF InputDispatch, PromisedStep, Calls, SentOK, InputOK, Executing
  <2>3. CASE InputEnds(r)
    BY <2>3 DEF InputEnds, PromisedStep, Promised, DispatchedWasSent
  <2>4. CASE InputReclaim(r)
    BY <2>4 DEF InputReclaim, InputStaysBlocked, PromisedStep, Promised, SentOK
  <2>5. CASE InputRecover(r)
    BY <2>5 DEF InputRecover, NotSent, PromisedStep, Promised, SentOK
  <2> QED BY <1>7, <2>1, <2>2, <2>3, <2>4, <2>5 DEF InputStep
<1>8. ASSUME UNCHANGED vars PROVE PromisedStep
  BY <1>8 DEF vars, PromisedStep
<1> QED BY <1>1, <1>2, <1>3, <1>4, <1>5, <1>6, <1>7, <1>8 DEF Next

-----------------------------------------------------------------------------
(* What the callers see of every transaction.                               *)
Status == [r \in Requests |-> StatusOf(r)]

SeenAs(r, to) == Status' = [Status EXCEPT ![r] = to]

(* To its callers such a transaction is a step of the contract.             *)
LEMMA PromisedIsSeen ==
  ASSUME StoreTypeOK, OnlyUnknownReleased, NEW r \in Requests, UNCHANGED sent, Promised(r)
  PROVE  [Contract!Next]_<<Status, sent>>
<1>0. ASSUME \A q \in Requests : StatusOf(q)' = StatusOf(q)
      PROVE  [Contract!Next]_<<Status, sent>>
  BY <1>0 DEF Status
<1> USE DEF StoreTypeOK, Receipt, States, Executing, Terminal, IsInput, StatusOf, Status, SeenAs
<1>1. CASE Enqueue(r)
  <2>1. Status[r] = "none" /\ SeenAs(r, "waiting")
    BY <1>1 DEF Enqueue
  <2> QED BY <2>1 DEF Contract!Submit, Contract!Moves, Contract!Next
<1>2. CASE ~IsInput(r) /\ ClaimNext(r)
  <2>1. Status[r] = "waiting" /\ SeenAs(r, "turn")
    BY <1>2 DEF ClaimNext, IsNext, Queued, InState
  <2>2. \A q \in Requests : Status[q] \notin {"turn", "input", "unknown"}
    BY <1>2 DEF ClaimNext, Holding, Unreleased, InState
  <2> QED BY <2>1, <2>2 DEF Contract!TakeTurn, Contract!Moves, Contract!Next
<1>3. CASE StartTurn(r) \/ MarkStarted(r)
  BY <1>0, <1>3 DEF StartTurn, MarkStarted, storeVars
<1>4. CASE CancelQueued(r)
  <2>1. Status[r] = "waiting" /\ SeenAs(r, "ended")
    BY <1>4 DEF CancelQueued
  <2> QED BY <2>1 DEF Contract!Withdraw, Contract!Moves, Contract!Next
<1>5. ASSUME NEW t \in Requests, ClaimForInput(r, t) PROVE [Contract!Next]_<<Status, sent>>
  <2>1. Status[r] = "waiting" /\ SeenAs(r, "input")
    BY <1>5, RequestsAssumption DEF ClaimForInput
  <2> QED BY <2>1 DEF Contract!TakeInput, Contract!Moves, Contract!Next
<1>6. CASE sent[r] = 0 /\ RestoreInput(r)
  <2>1. Status[r] = "input" /\ SeenAs(r, "waiting")
    BY <1>6 DEF RestoreInput
  <2> QED BY <1>6, <2>1 DEF Contract!PutBack, Contract!Moves, Contract!Next
<1>7. CASE sent[r] = 1 /\ AppendSteer(r)
  <2>1. Status[r] = "input" /\ SeenAs(r, "ended")
    BY <1>7 DEF AppendSteer
  <2> QED BY <1>7, <2>1 DEF Contract!End, Contract!Moves, Contract!Next
<1>8. ASSUME NEW x \in Terminal, ~IsInput(r), AppendTerminal(r, x) \/ Settle(r, x)
      PROVE  [Contract!Next]_<<Status, sent>>
  <2>1. CASE rcpt' = rcpt
    BY <1>0, <2>1
  <2>2. CASE rcpt' # rcpt
    <3>1. rcpt[r].state \in Executing /\ rcpt' = [rcpt EXCEPT ![r].state = x]
      BY <1>8, <2>2 DEF AppendTerminal, Settle, storeVars
    <3>2. Status[r] = "turn" /\ SeenAs(r, "ended")
      BY <1>8, <3>1
    <3> QED BY <3>2 DEF Contract!End, Contract!Moves, Contract!Next
  <2> QED BY <2>1, <2>2
<1>9. CASE Settle(r, "interrupted")
  <2>1. CASE rcpt' = rcpt
    BY <1>0, <2>1
  <2>2. CASE rcpt' # rcpt
    <3>1. rcpt[r].state \in Executing /\ rcpt' = [rcpt EXCEPT ![r].state = "interrupted"]
      BY <1>9, <2>2 DEF Settle, storeVars
    <3>2. ~rcpt[r].released
      BY <3>1 DEF OnlyUnknownReleased
    <3>3. Status[r] \in {"turn", "input"} /\ SeenAs(r, "unknown")
      BY <3>1, <3>2
    <3> QED BY <3>3 DEF Contract!Lose, Contract!Moves, Contract!Next
  <2> QED BY <2>1, <2>2
<1>10. ASSUME NEW q \in Requests, Reorder(r, q) PROVE [Contract!Next]_<<Status, sent>>
  <2>1. \A p \in Requests : /\ rcpt'[p].released = rcpt[p].released
                            /\ rcpt'[p].state = rcpt[p].state
                            /\ rcpt'[p].input = rcpt[p].input
    BY <1>10 DEF Reorder
  <2> QED BY <1>0, <2>1
<1>11. ASSUME NEW free \in BOOLEAN, ReleaseInterrupted(r, free)
       PROVE  [Contract!Next]_<<Status, sent>>
  <2>1. SeenAs(r, "released") /\ Status[r] \in {"released", "unknown"}
    BY <1>11 DEF ReleaseInterrupted
  <2>2. CASE Status[r] = "released"
    <3>1. Status' = Status
      BY <2>1, <2>2
    <3> QED BY <3>1
  <2>3. CASE Status[r] = "unknown"
    BY <2>1, <2>3 DEF Contract!Release, Contract!Moves, Contract!Next
  <2> QED BY <2>1, <2>2, <2>3
<1> QED BY <1>1, <1>2, <1>3, <1>4, <1>5, <1>6, <1>7, <1>8, <1>9, <1>10, <1>11 DEF Promised

(* And so is every step of the queue.                                       *)
LEMMA StepIsSeen ==
  ASSUME CInv, [Next]_vars
  PROVE  [Contract!Next]_<<Status, sent>>
<1> USE DEF CInv, IInv, TypeOK
<1>1. CASE UNCHANGED sent /\ \E r \in Requests : Promised(r)
  BY <1>1, PromisedIsSeen
<1>2. CASE UNCHANGED sent /\ RecoverInterrupted
  <2>1. Status' = [r \in Requests |->
                     IF Status[r] \in {"turn", "input"} THEN "unknown" ELSE Status[r]]
    BY <1>2 DEF RecoverInterrupted, OnlyUnknownReleased, StoreTypeOK, Receipt, States, Executing,
                Terminal, StatusOf, Status
  <2> QED BY <1>2, <2>1 DEF Contract!LoseAll, Contract!Next, Status
<1>3. ASSUME NEW r \in Requests, Calls(r) PROVE [Contract!Next]_<<Status, sent>>
  <2>1. Status' = Status
    BY <1>3 DEF Calls, storeVars, StatusOf, Status, Executing, Terminal, IsInput
  <2>2. Status[r] \in {"turn", "input"}
    BY <1>3 DEF Calls, StatusOf, Status, Executing, Terminal
  <2>3. sent' = [sent EXCEPT ![r] = 1]
    BY <1>3 DEF Calls
  <2> QED BY <1>3, <2>1, <2>2, <2>3 DEF Calls, Contract!Call, Contract!Next, Status
<1>4. CASE Quietly
  BY <1>4 DEF Quietly, storeVars, StatusOf, Status, Executing, Terminal, IsInput
<1> QED BY <1>1, <1>2, <1>3, <1>4, StepIsPromised DEF PromisedStep

(* What the mapping needs holds at the start ...                            *)
LEMMA ContractInit == Init => CInv
BY InitInv DEF CInv, Init, StoreInit, NoReceipt, NoInput, OnlyUnknownReleased, DispatchedWasSent

(* ... and after every step.                                                *)
LEMMA ContractStep ==
  ASSUME CInv, [Next]_vars
  PROVE  CInv'
<1>1. IInv' /\ DispatchedWasSent'
  BY StepInv, DispatchedStep DEF CInv
<1>2. OnlyUnknownReleased'
  BY StepIsTransaction, ReleasedStep DEF CInv, IInv, TypeOK
<1> QED BY <1>1, <1>2 DEF CInv

(* Every behaviour of the queue, with its lost replies, crashes and         *)
(* restarts, is one its callers were promised.                              *)
THEOREM QueueImplementsContract == Spec => ImplementsContract
<1>1. Init => Contract!Init
  BY DEF Init, StoreInit, NoReceipt, StatusOf, Executing, Terminal, Contract!Init
<1>2. CInv /\ [Next]_vars => [Contract!Next]_<<Status, sent>>
  BY StepIsSeen
<1>3. CInv /\ [Next]_vars => CInv'
  BY ContractStep
<1> QED BY <1>1, <1>2, <1>3, ContractInit, PTL
        DEF Spec, ImplementsContract, Contract!Spec, Status

-----------------------------------------------------------------------------
(* Without storage faults a blocked queue has a reason.  The block is set   *)
(* by a rejected dispatch, which interrupts the receipt of the drain next,  *)
(* and by an input that was not saved, which interrupts its receipt in the  *)
(* same step.  It must be known besides that the Session is adopted         *)
(* whenever it is blocked, for a release clears the block only then; that   *)
(* a convergence releases nothing that is not released; and that an input   *)
(* of unknown answer, without faults, was not saved.                        *)

(* The Session is adopted once it is worked on.                             *)
Adopted ==
  (drain.pc # "idle" \/ blocked \/ \E r \in Requests : input[r] # "idle") => known

(* The reason of a block is there, or the drain is about to save it.        *)
Blocking ==
  /\ ~up => ~blocked
  /\ blocked => drain.pc = "interrupt" \/ Unreleased # {}

(* What converges was released.                                             *)
ConvergesReleased ==
  drain.pc = "converge" =>
    \A r \in drain.todo : rcpt[r].state = "interrupted" /\ rcpt[r].released

(* Without faults no outcome has to be looked up.                           *)
NothingLost ==
  /\ drain.pc # "confirm"
  /\ \A r \in Requests : /\ input[r] \notin {"reclaim", "failedRecovery"}
                         /\ input[r] = "failedUnknown" => rcpt[r].state = "starting"

BlockOK == Adopted /\ Blocking /\ ConvergesReleased /\ NothingLost

BInv == CInv /\ (faults = 0 => BlockOK)

(* A number of faults that is 0 was 0 before.                               *)
LEMMA FaultsStay ==
  ASSUME TypeOK, [Next]_vars, faults' = 0
  PROVE  faults = 0 /\ ~Fault
<1>1. faults \in Nat
  BY BoundsAssumption DEF TypeOK
<1>2. ~Fault
  BY <1>1 DEF Fault
<1>3. faults' = faults
  <2>1. CASE UserStep
    BY <1>2, <2>1 DEF UserStep, EndEdit, RunCancel, Accept, Lookup, Cancel, BeginEdit,
                      ReleaseBegins, MoveQueued, InputClaim
  <2>2. CASE ApplicationStep
    BY <2>2 DEF ApplicationStep, Crash, Restart, BeginShutdown, Resume, ProviderBecomesBusy,
                ProviderBecomesAvailable
  <2>3. CASE DrainStep
    BY <1>2, <2>3 DEF DrainStep, DrainEnter, DrainList, DrainConverge, DrainClaim,
                      DrainStorageFails, DrainDispatch, DrainSettle, DrainConfirm,
                      DrainInterrupt, DrainCheck
  <2>4. CASE RunStep
    BY <1>2, <2>4 DEF RunStep, RunSetupEnds, RunCancelDeadline, RunPersistIssues, RunPersists,
                      RunMarks, RunCallsProvider, RunProviderEnds, RunSaves
  <2>5. CASE LateWorkEnds \/ ReleaseCommits
    BY <1>2, <2>5 DEF LateWorkEnds, ReleaseCommits
  <2>6. CASE \E r \in Requests : InputStep(r)
    BY <1>2, <2>6 DEF InputStep, InputReclaim, InputStaysBlocked, InputSend, InputRefused, InputDispatch, InputEnds,
                      InputConfirm, InputRecover
  <2>7. CASE UNCHANGED vars
    BY <2>7 DEF vars
  <2> QED BY <2>1, <2>2, <2>3, <2>4, <2>5, <2>6, <2>7 DEF Next
<1> QED BY <1>2, <1>3

(* What a transaction does to the interrupted receipts: it leaves them      *)
(* interrupted, and only a release takes one from the unreleased.           *)
Holds == Unreleased \subseteq Unreleased'

StaysReleased ==
  \A r \in Requests : rcpt[r].state = "interrupted" /\ rcpt[r].released
                        => rcpt'[r].state = "interrupted" /\ rcpt'[r].released

(* What the transactions do to the unreleased requests.                     *)
LEMMA TransactionsHold ==
  ASSUME StoreTypeOK, NEW r \in Requests
  PROVE
    /\ Enqueue(r) \/ ClaimNext(r) \/ StartTurn(r) \/ MarkStarted(r) => Holds
    /\ RestoreInput(r) \/ AppendSteer(r) \/ CancelQueued(r) => Holds
    /\ \A t : ClaimForInput(r, t) => Holds
    /\ \A x : Settle(r, x) \/ AppendTerminal(r, x) => Holds
    /\ \A q \in Requests : Reorder(r, q) => Holds
    /\ \A free : ReleaseInterrupted(r, free) /\ rcpt[r].released => Holds
<1> USE DEF StoreTypeOK, Receipt, States, Executing, Terminal, Holds, Unreleased, InState
<1>1. Enqueue(r) \/ ClaimNext(r) \/ StartTurn(r) \/ MarkStarted(r) => Holds
  BY DEF Enqueue, ClaimNext, IsNext, Queued, StartTurn, MarkStarted, storeVars
<1>2. RestoreInput(r) \/ AppendSteer(r) \/ CancelQueued(r) => Holds
  BY DEF RestoreInput, AppendSteer, CancelQueued
<1>3. ASSUME NEW t, ClaimForInput(r, t) PROVE Holds
  BY <1>3 DEF ClaimForInput
<1>4. ASSUME NEW x, Settle(r, x) \/ AppendTerminal(r, x) PROVE Holds
  BY <1>4 DEF Settle, AppendTerminal, storeVars
<1>5. ASSUME NEW q \in Requests, Reorder(r, q) PROVE Holds
  BY <1>5 DEF Reorder, Queued
<1>6. ASSUME NEW free, ReleaseInterrupted(r, free), rcpt[r].released PROVE Holds
  BY <1>6 DEF ReleaseInterrupted
<1> QED BY <1>1, <1>2, <1>3, <1>4, <1>5, <1>6

(* A release is never taken back.                                           *)
LEMMA ReleasesStay ==
  ASSUME StoreTypeOK, [StoreNext]_storeVars
  PROVE  StaysReleased
<1> USE DEF StoreTypeOK, Receipt, States, Executing, Terminal, StaysReleased
<1>1. ASSUME NEW r \in Requests,
             Enqueue(r) \/ ClaimNext(r) \/ StartTurn(r) \/ MarkStarted(r) \/ CancelQueued(r)
      PROVE  StaysReleased
  BY <1>1 DEF Enqueue, ClaimNext, IsNext, Queued, InState, StartTurn, MarkStarted, CancelQueued,
              storeVars
<1>2. ASSUME NEW r \in Requests,
             RestoreInput(r) \/ AppendSteer(r) \/ \E t \in Requests : ClaimForInput(r, t)
      PROVE  StaysReleased
  BY <1>2 DEF RestoreInput, AppendSteer, ClaimForInput
<1>3. ASSUME NEW r \in Requests,
             \/ \E phase \in Terminal : AppendTerminal(r, phase)
             \/ \E state \in Terminal \cup {"interrupted"} : Settle(r, state)
      PROVE  StaysReleased
  BY <1>3 DEF AppendTerminal, Settle, storeVars
<1>4. ASSUME NEW r \in Requests, NEW q \in Requests, Reorder(r, q) PROVE StaysReleased
  BY <1>4 DEF Reorder, Queued, InState
<1>5. ASSUME NEW r \in Requests, NEW free \in BOOLEAN, ReleaseInterrupted(r, free)
      PROVE  StaysReleased
  BY <1>5 DEF ReleaseInterrupted
<1>6. CASE RecoverInterrupted
  BY <1>6 DEF RecoverInterrupted
<1>7. CASE UNCHANGED storeVars
  BY <1>7 DEF storeVars
<1> QED BY <1>1, <1>2, <1>3, <1>4, <1>5, <1>6, <1>7 DEF StoreNext

(* A wake starts the drain of an adopted Session only.                      *)
LEMMA WakeAdopted == Wake => drain' = drain \/ known'
BY DEF Wake, MayWake

(* And so does the signal of a release.                                     *)
LEMMA SignalAdopted == SignalRelease => drain' = drain \/ known'
BY WakeAdopted DEF SignalRelease

(* The steps keep the Session adopted while it is worked on.                *)
LEMMA AdoptedStep ==
  ASSUME IInv, Adopted, Blocking, [Next]_vars, ~Fault
  PROVE  Adopted'
<1> USE DEF memoryVars, runtimeVars, IInv, TypeOK
<1>0. ASSUME known => known', drain' = drain \/ drain.pc # "idle" \/ known',
             blocked' => blocked \/ known',
             input' = input \/ known'
      PROVE  Adopted'
  BY <1>0 DEF Adopted
<1>00. ASSUME known, known' PROVE Adopted'
  BY <1>00 DEF Adopted
<1>1. ASSUME UserStep PROVE Adopted'
  <2>1. CASE EndEdit \/ RunCancel
    BY <2>1, <1>0, WakeAdopted DEF EndEdit, RunCancel, RunUnchanged
  <2>2. ASSUME NEW r \in Requests, Accept(r) \/ Lookup(r) \/ Cancel(r) PROVE Adopted'
    BY <2>2, <1>0, WakeAdopted DEF Accept, Lookup, Cancel
  <2>3. ASSUME NEW r \in Requests, BeginEdit(r) \/ ReleaseBegins(r) PROVE Adopted'
    BY <2>3, <1>0 DEF BeginEdit, ReleaseBegins
  <2>4. ASSUME NEW r \in Requests, NEW q \in Requests, MoveQueued(r, q) \/ InputClaim(r, q)
        PROVE  Adopted'
    BY <2>4, <1>0 DEF MoveQueued, InputClaim
  <2> QED BY <1>1, <2>1, <2>2, <2>3, <2>4 DEF UserStep
<1>2. ASSUME ApplicationStep PROVE Adopted'
  <2>1. CASE Crash
    BY <2>1 DEF Crash, Adopted, Idle, NoInput
  <2>2. CASE Restart
    BY <2>2, WakeAdopted DEF Restart, Adopted, Blocking, DownOK
  <2>3. CASE ~Crash /\ ~Restart
    BY <1>2, <2>3, <1>0, WakeAdopted DEF ApplicationStep, BeginShutdown, Resume,
                         ProviderBecomesBusy, ProviderBecomesAvailable
  <2> QED BY <2>1, <2>2, <2>3
<1>3. ASSUME DrainStep PROVE Adopted'
  <2>1. drain.pc # "idle" /\ known' = known
    BY <1>3 DEF DrainStep, DrainEnter, DrainList, DrainConverge, DrainClaim, DrainStorageFails,
                DrainDispatch, DrainSettle, DrainConfirm, DrainInterrupt, DrainCheck
  <2> QED BY <2>1, <1>00 DEF Adopted
<1>4. ASSUME RunStep PROVE Adopted'
  <2> USE DEF RunUnchanged, RunOK
  <2>1. CASE ~run.detached
    <3>1. drain.pc # "idle" /\ known' = known
      BY <1>4, <2>1 DEF RunStep, RunSetupEnds, RunCancelDeadline, RunPersistIssues, RunPersists,
                        RunMarks, RunCallsProvider, RunProviderEnds, RunSaves
    <3> QED BY <3>1, <1>00 DEF Adopted
  <2>2. CASE run.detached
    BY <1>4, <2>2, <1>0, SignalAdopted DEF RunStep, Throw, GoesTo, RunSetupEnds,
          RunCancelDeadline, RunPersistIssues, RunPersists, RunMarks, RunCallsProvider,
          RunProviderEnds, RunSaves
  <2> QED BY <2>1, <2>2
<1>5. ASSUME LateWorkEnds \/ ReleaseCommits PROVE Adopted'
  BY <1>5, <1>0, SignalAdopted, WakeAdopted DEF LateWorkEnds, ReleaseCommits
<1>6. ASSUME NEW r \in Requests, InputStep(r) PROVE Adopted'
  <2>1. known
    BY <1>6 DEF Adopted, InputStep, InputReclaim, InputStaysBlocked, InputSend, InputRefused, InputDispatch,
                InputEnds, InputConfirm, InputRecover
  <2>2. known => known'
    BY <1>6 DEF InputStep, InputReclaim, InputSend, InputRefused, InputDispatch,
                InputEnds, InputConfirm, InputRecover, InputRestored, InputStaysBlocked, Reconcile
  <2> QED BY <2>1, <2>2, <1>00
<1>7. ASSUME UNCHANGED vars PROVE Adopted'
  BY <1>7, <1>0 DEF vars
<1> QED BY <1>1, <1>2, <1>3, <1>4, <1>5, <1>6, <1>7 DEF Next

(* Where a drain that goes on is.                                           *)
LEMMA DrainPlaces ==
  ASSUME drain \in DrainType
  PROVE  /\ \A r : [drain EXCEPT !.pc = "claimed", !.id = r].pc = "claimed"
         /\ \A r : [drain EXCEPT !.todo = @ \ {r}].pc = drain.pc
         /\ \A S : [drain EXCEPT !.pc = "converge", !.todo = S].pc = "converge"
BY DEF DrainType

(* ... and where one that ended.                                            *)
LEMMA EndedPlaces == DrainEnds => drain'.pc \in {"idle", "enter"}
BY DEF DrainEnds, Idle, Entering

(* The drain converges only what was released when it listed.               *)
LEMMA ConvergesStep ==
  ASSUME IInv, ConvergesReleased, [Next]_vars
  PROVE  ConvergesReleased'
<1> USE DEF memoryVars, runtimeVars, IInv, TypeOK, Idle, Entering
<1>1. StaysReleased /\ drain.todo \subseteq Requests
  BY StepIsTransaction, ReleasesStay DEF DrainType
<1>0. ASSUME drain'.pc = "converge" => drain.pc = "converge" /\ drain'.todo \subseteq drain.todo
      PROVE  ConvergesReleased'
  BY <1>0, <1>1 DEF ConvergesReleased, StaysReleased
<1>2. ASSUME DrainWoken \/ drain' = drain PROVE ConvergesReleased'
  BY <1>0, <1>2 DEF DrainWoken
<1>3. ASSUME UserStep PROVE ConvergesReleased'
  BY <1>3, <1>2, WakeWakes DEF UserStep, EndEdit, RunCancel, Accept, Lookup, Cancel, BeginEdit,
                    ReleaseBegins, MoveQueued, InputClaim
<1>4. ASSUME ApplicationStep PROVE ConvergesReleased'
  BY <1>4, <1>0, <1>2, WakeWakes DEF ApplicationStep, Crash, Restart, BeginShutdown, Resume,
                    ProviderBecomesBusy, ProviderBecomesAvailable
<1>5. ASSUME DrainStep PROVE ConvergesReleased'
  <2> USE EndedDrain DEF DrainLeavesLock, DrainGoesTo, DrainType
  <2>1. CASE DrainList
    <3>1. ASSUME drain' = [drain EXCEPT !.pc = "converge",
                                        !.todo = InState({"interrupted"}) \ Unreleased],
                 UNCHANGED storeVars
          PROVE  ConvergesReleased'
      <4>1. \A r \in drain'.todo : rcpt'[r].state = "interrupted" /\ rcpt'[r].released
        BY <3>1 DEF InState, Unreleased, storeVars
      <4> QED BY <4>1 DEF ConvergesReleased
    <3> QED BY <2>1, <3>1, <1>0 DEF DrainList
  <2>2. ASSUME NEW r \in Requests, DrainConverge(r) PROVE ConvergesReleased'
    BY <2>2, <1>0 DEF DrainConverge
  <2>5. CASE DrainClaim
    <3>1. drain'.pc \in {"idle", "enter", "claimed"}
      BY <2>5, DrainPlaces, EndedPlaces DEF DrainClaim, DrainLeavesLock
    <3> QED BY <3>1, <1>0
  <2>3. CASE DrainEnter \/ DrainDispatch
    BY <2>3, <1>0 DEF DrainEnter, DrainDispatch
  <2>6. CASE DrainStorageFails
    BY <2>6, <1>0 DEF DrainStorageFails
  <2>4. CASE DrainSettle \/ DrainConfirm \/ DrainInterrupt \/ DrainCheck
    BY <2>4, <1>0 DEF DrainSettle, DrainConfirm, DrainInterrupt, DrainCheck
  <2> QED BY <1>5, <2>1, <2>2, <2>3, <2>4, <2>5, <2>6 DEF DrainStep
<1>6. ASSUME RunStep PROVE ConvergesReleased'
  <2> USE SignalWakes DEF GoesTo, DrainType
  <2>1. ASSUME NEW x, Finish(x) PROVE ConvergesReleased'
    BY <2>1, <1>0 DEF Finish
  <2>2. ASSUME Throw PROVE ConvergesReleased'
    BY <2>2, <1>0, <1>2 DEF Throw, Reject
  <2> QED BY <1>6, <2>1, <2>2, <1>0, <1>2 DEF RunStep, Reject, RunSetupEnds, RunCancelDeadline,
            RunPersistIssues, RunPersists, RunMarks, RunCallsProvider, RunProviderEnds, RunSaves
<1>7. ASSUME LateWorkEnds \/ ReleaseCommits PROVE ConvergesReleased'
  BY <1>7, <1>2, SignalWakes, WakeWakes DEF LateWorkEnds, ReleaseCommits
<1>8. ASSUME NEW r \in Requests, InputStep(r) PROVE ConvergesReleased'
  <2>1. DrainWoken \/ drain' = drain
    BY <1>8, SignalWakes, WakeWakes DEF InputStep, InputReclaim, InputSend, InputRefused,
          InputDispatch, InputEnds, InputConfirm, InputRecover, InputRestored, InputStaysBlocked,
          Reconcile
  <2> QED BY <2>1, <1>2
<1>9. ASSUME UNCHANGED vars PROVE ConvergesReleased'
  BY <1>9, <1>2 DEF vars
<1> QED BY <1>3, <1>4, <1>5, <1>6, <1>7, <1>8, <1>9 DEF Next

(* Without faults every outcome is told apart, and nobody but an input      *)
(* touches its receipt.                                                     *)
LEMMA NothingLostStep ==
  ASSUME IInv, NothingLost, [Next]_vars, ~Fault
  PROVE  NothingLost'
<1> USE DEF memoryVars, runtimeVars, IInv, TypeOK, StoreTypeOK, Becomes, SameReceipts, SameKind,
            IsInput, Idle, Entering, InputOK
<1>0. ASSUME drain'.pc = "confirm" => drain.pc = "confirm", input' = input \/ input' = NoInput,
             \A r \in Requests :
               \/ ~IsInput(r)
               \/ rcpt[r].state \in {"absent", "queued"}
               \/ rcpt'[r].state = rcpt[r].state
      PROVE  NothingLost'
  BY <1>0 DEF NothingLost, NoInput
<1>1. ASSUME DrainWoken \/ drain' = drain
      PROVE  drain'.pc = "confirm" => drain.pc = "confirm"
  BY <1>1 DEF DrainWoken
<1>2. ASSUME UserStep PROVE NothingLost'
  <2>1. CASE EndEdit \/ RunCancel
    BY <2>1, <1>0, <1>1, WakeWakes DEF EndEdit, RunCancel, RunUnchanged, storeVars
  <2>2. ASSUME NEW r \in Requests, Accept(r) \/ Lookup(r) \/ Cancel(r) PROVE NothingLost'
    <3>1. drain'.pc = "confirm" => drain.pc = "confirm"
      BY <2>2, <1>1, WakeWakes DEF Accept, Lookup, Cancel
    <3> QED BY <2>2, <3>1, <1>0, Transactions DEF Accept, Lookup, Cancel, storeVars
  <2>3. CASE \E r \in Requests : BeginEdit(r) \/ ReleaseBegins(r)
    BY <2>3, <1>0 DEF BeginEdit, ReleaseBegins, storeVars
  <2>4. CASE \E r, q \in Requests : MoveQueued(r, q)
    BY <2>4, <1>0, Transactions DEF MoveQueued
  <2>5. ASSUME NEW r \in Requests, NEW t \in Requests, InputClaim(r, t) PROVE NothingLost'
    <3>1. ClaimForInput(r, t) /\ InputGoesTo(r, "claimed") /\ drain' = drain
      BY <2>5 DEF InputClaim
    <3> QED BY <3>1, Transactions DEF NothingLost, InputGoesTo
  <2> QED BY <1>2, <2>1, <2>2, <2>3, <2>4, <2>5 DEF UserStep
<1>3. ASSUME ApplicationStep PROVE NothingLost'
  <2>1. drain'.pc = "confirm" => drain.pc = "confirm"
    BY <1>3, <1>1, WakeWakes DEF ApplicationStep, Crash, Restart, BeginShutdown, Resume,
              ProviderBecomesBusy, ProviderBecomesAvailable
  <2> QED BY <1>3, <2>1, <1>0 DEF ApplicationStep, Crash, Restart, BeginShutdown, Resume,
        storeVars, ProviderBecomesBusy, ProviderBecomesAvailable, DownOK, NothingLost
<1>4. ASSUME DrainStep PROVE NothingLost'
  <2>0. drain'.pc = "confirm" => drain.pc = "confirm"
    <3> USE EndedPlaces, DrainPlaces DEF DrainLeavesLock, DrainGoesTo
    <3>1. CASE DrainClaim
      BY <3>1 DEF DrainClaim
    <3>2. CASE DrainEnter \/ DrainStorageFails \/ DrainDispatch
      BY <3>2 DEF DrainEnter, DrainStorageFails, DrainDispatch, DrainType
    <3>4. CASE DrainList
      BY <3>4 DEF DrainList
    <3>5. ASSUME NEW r \in Requests, DrainConverge(r)
          PROVE  drain'.pc \in {drain.pc, "idle", "enter"}
      <4>1. DrainEnds \/ drain' = [drain EXCEPT !.todo = @ \ {r}]
        BY <3>5, Zenon DEF DrainConverge
      <4> QED BY <4>1
    <3>3. CASE DrainSettle \/ DrainConfirm \/ DrainInterrupt \/ DrainCheck
      BY <3>3 DEF DrainSettle, DrainConfirm, DrainInterrupt, DrainCheck, DrainType
    <3> QED BY <1>4, <3>1, <3>2, <3>3, <3>4, <3>5 DEF DrainStep
  <2>1. CASE DrainEnter \/ DrainList \/ DrainDispatch \/ DrainConfirm \/ DrainCheck
    BY <2>0, <2>1, <1>0 DEF DrainEnter, DrainList, DrainDispatch, DrainConfirm, DrainCheck,
                            storeVars
  <2>2. CASE DrainClaim \/ \E r \in Requests : DrainConverge(r)
    BY <2>0, <2>2, <1>0, Transactions DEF DrainClaim, DrainConverge, storeVars
  <2>3. CASE DrainStorageFails
    BY <2>3 DEF DrainStorageFails
  <2>4. CASE DrainSettle \/ DrainInterrupt
    BY <2>0, <2>4, <1>0, Transactions DEF DrainSettle, DrainInterrupt, DrainOK, storeVars
  <2> QED BY <1>4, <2>1, <2>2, <2>3, <2>4 DEF DrainStep
<1>5. ASSUME RunStep PROVE NothingLost'
  <2> USE DEF RunUnchanged
  <2>0. drain'.pc = "confirm" => drain.pc = "confirm"
    BY <1>5, <1>1, SignalWakes DEF RunStep, Reject, Finish, Throw, GoesTo, DrainType, RunSetupEnds,
          RunCancelDeadline, RunPersistIssues, RunPersists, RunMarks, RunCallsProvider,
          RunProviderEnds, RunSaves
  <2>1. CASE RunSetupEnds \/ RunCancelDeadline \/ RunPersistIssues \/ RunCallsProvider
             \/ RunProviderEnds
    BY <2>0, <2>1, <1>0 DEF RunSetupEnds, RunCancelDeadline, RunPersistIssues, RunCallsProvider,
                RunProviderEnds, storeVars
  <2>2. CASE RunPersists \/ RunMarks
    BY <2>0, <2>2, <1>0, Transactions DEF RunPersists, RunMarks, RunOK, storeVars
  <2>3. CASE RunSaves
    BY <2>0, <2>3, <1>0, Transactions DEF RunSaves, RunOK, storeVars
  <2> QED BY <1>5, <2>1, <2>2, <2>3 DEF RunStep
<1>6. ASSUME LateWorkEnds \/ ReleaseCommits PROVE NothingLost'
  <2>0. drain'.pc = "confirm" => drain.pc = "confirm"
    BY <1>6, <1>1, SignalWakes, WakeWakes DEF LateWorkEnds, ReleaseCommits
  <2> QED BY <1>6, <2>0, <1>0, Transactions DEF LateWorkEnds, ReleaseCommits, ReleaseOK, storeVars
<1>7. ASSUME NEW r \in Requests, InputStep(r) PROVE NothingLost'
  <2>0. drain'.pc = "confirm" => drain.pc = "confirm"
    BY <1>7, <1>1, SignalWakes, WakeWakes DEF InputStep, InputReclaim, InputSend, InputRefused,
          InputDispatch, InputEnds, InputConfirm, InputRecover, InputRestored, InputStaysBlocked,
          Reconcile
  <2> USE <2>0 DEF NothingLost, InputGoesTo, storeVars
  <2>1. ASSUME NEW pc, InputGoesTo(r, pc), pc \notin {"reclaim", "failedRecovery"},
               pc = "failedUnknown" => rcpt'[r].state = "starting",
               \A q \in Requests \ {r} : rcpt'[q] = rcpt[q]
        PROVE  NothingLost'
    BY <2>1
  <2>2. CASE InputSend(r) \/ InputRefused(r) \/ InputDispatch(r)
    BY <2>1, <2>2 DEF InputSend, InputRefused, InputDispatch
  <2>3. CASE InputReclaim(r)
    BY <2>3 DEF InputReclaim, InputStaysBlocked
  <2>4. CASE InputEnds(r)
    BY <2>1, <2>4, Transactions DEF InputEnds
  <2>5. CASE InputConfirm(r)
    BY <2>1, <2>5 DEF InputConfirm
  <2>6. CASE InputRecover(r)
    BY <2>1, <2>6, Transactions DEF InputRecover, InputRestored, InputStaysBlocked
  <2> QED BY <1>7, <2>2, <2>3, <2>4, <2>5, <2>6 DEF InputStep
<1>8. ASSUME UNCHANGED vars PROVE NothingLost'
  BY <1>8, <1>0 DEF vars, storeVars
<1> QED BY <1>2, <1>3, <1>4, <1>5, <1>6, <1>7, <1>8 DEF Next

(* While the queue is blocked it keeps the reason, until it is released.    *)
LEMMA BlockingStep ==
  ASSUME CInv, BlockOK, [Next]_vars, ~Fault
  PROVE  Blocking'
<1> USE DEF memoryVars, runtimeVars, CInv, IInv, TypeOK, BlockOK, Idle, Entering
<1>h. ASSUME UNCHANGED storeVars PROVE Holds
  BY <1>h DEF Holds, Unreleased, InState, storeVars
<1>0. ASSUME Holds, up, up', blocked' => blocked, drain.pc = "interrupt" => drain'.pc = "interrupt"
      PROVE  Blocking'
  BY <1>0 DEF Holds, Blocking
<1>1. ASSUME DrainWoken \/ drain' = drain
      PROVE  drain.pc = "interrupt" => drain'.pc = "interrupt"
  BY <1>1 DEF DrainWoken
<1>2. ASSUME ~blocked' PROVE Blocking'
  BY <1>2 DEF Blocking
<1>3. ASSUME NEW r \in Requests, rcpt[r].state \in Executing, rcpt'[r].state = "interrupted",
             Settle(r, "interrupted")
      PROVE  Unreleased' # {}
  <2>1. ~rcpt[r].released
    BY <1>3 DEF OnlyUnknownReleased, Executing
  <2>2. rcpt'[r].released = rcpt[r].released
    BY <1>3 DEF Settle, Executing, Terminal, StoreTypeOK, Receipt
  <2> QED BY <1>3, <2>1, <2>2 DEF Unreleased, InState
<1>4. ASSUME UserStep PROVE Blocking'
  <2>1. CASE EndEdit \/ RunCancel
    BY <2>1, <1>0, <1>h, <1>1, WakeWakes DEF EndEdit, RunCancel, RunUnchanged, DownOK
  <2>2. ASSUME NEW r \in Requests, Accept(r) \/ Lookup(r) \/ Cancel(r) PROVE Blocking'
    <3>1. Holds /\ up /\ up' /\ (blocked' => blocked)
      BY <2>2, <1>h, TransactionsHold DEF Accept, Lookup, Cancel, UserMay
    <3>2. drain.pc = "interrupt" => drain'.pc = "interrupt"
      BY <2>2, <1>1, WakeWakes DEF Accept, Lookup, Cancel
    <3> QED BY <3>1, <3>2, <1>0
  <2>3. ASSUME NEW r \in Requests, BeginEdit(r) \/ ReleaseBegins(r) PROVE Blocking'
    BY <2>3, <1>0, <1>h DEF BeginEdit, ReleaseBegins, UserMay
  <2>4. ASSUME NEW r \in Requests, NEW q \in Requests, MoveQueued(r, q) \/ InputClaim(r, q)
        PROVE  Blocking'
    BY <2>4, <1>0, TransactionsHold DEF MoveQueued, InputClaim, UserMay
  <2> QED BY <1>4, <2>1, <2>2, <2>3, <2>4 DEF UserStep
<1>5. ASSUME ApplicationStep PROVE Blocking'
  <2>1. CASE Crash \/ Restart
    BY <2>1 DEF Crash, Restart, Blocking
  <2>2. CASE ~Crash /\ ~Restart
    <3>1. Holds /\ up /\ up' /\ blocked' = blocked
      BY <1>5, <2>2, <1>h DEF ApplicationStep, BeginShutdown, Resume, ProviderBecomesBusy,
                              ProviderBecomesAvailable
    <3>2. drain.pc = "interrupt" => drain'.pc = "interrupt"
      BY <1>5, <2>2, <1>1, WakeWakes DEF ApplicationStep, BeginShutdown, Resume,
                              ProviderBecomesBusy, ProviderBecomesAvailable
    <3> QED BY <3>1, <3>2, <1>0
  <2> QED BY <2>1, <2>2
<1>6. ASSUME DrainStep PROVE Blocking'
  <2>0. up /\ up'
    BY <1>6 DEF DrainStep, DownOK, DrainEnter, DrainList, DrainConverge, DrainClaim,
          DrainStorageFails, DrainDispatch, DrainSettle, DrainConfirm, DrainInterrupt, DrainCheck
  <2>1. CASE DrainEnter \/ DrainList \/ DrainDispatch \/ DrainCheck
    <3>1. Holds /\ blocked' = blocked /\ drain.pc # "interrupt"
      BY <2>1, <1>h DEF DrainEnter, DrainList, DrainDispatch, DrainCheck
    <3> QED BY <2>0, <3>1, <1>0
  <2>2. ASSUME NEW r \in Requests, DrainConverge(r) PROVE Blocking'
    <3>1. rcpt[r].released
      BY <2>2 DEF DrainConverge, ConvergesReleased
    <3>2. Holds
      BY <2>2, <3>1, TransactionsHold DEF DrainConverge
    <3> QED BY <2>0, <2>2, <3>2, <1>0 DEF DrainConverge
  <2>3. CASE DrainClaim
    <3>1. Holds
      BY <2>3, <1>h, TransactionsHold DEF DrainClaim
    <3> QED BY <2>0, <2>3, <3>1, <1>0 DEF DrainClaim
  <2>4. CASE DrainStorageFails \/ DrainConfirm
    BY <2>4 DEF DrainStorageFails, DrainConfirm, NothingLost
  <2>5. CASE DrainSettle
    <3>1. Holds
      BY <2>5, TransactionsHold DEF DrainSettle, DrainOK
    <3> QED BY <2>0, <2>5, <3>1, <1>0 DEF DrainSettle
  <2>6. CASE DrainInterrupt
    <3>1. CASE rcpt[drain.id].state \in Terminal
      BY <2>6, <3>1, <1>2 DEF DrainInterrupt
    <3>2. CASE rcpt[drain.id].state \notin Terminal
      <4>1. drain.id \in Requests /\ Settle(drain.id, "interrupted")
        BY <2>6, <3>2 DEF DrainInterrupt, DrainOK
      <4>2. rcpt[drain.id].state \in Executing /\ rcpt'[drain.id].state = "interrupted"
        BY <3>2, <4>1, Transactions DEF StoreTypeOK, Becomes
      <4> QED BY <2>0, <4>1, <4>2, <1>3 DEF Blocking
    <3> QED BY <3>1, <3>2
  <2> QED BY <1>6, <2>1, <2>2, <2>3, <2>4, <2>5, <2>6 DEF DrainStep
<1>7. ASSUME RunStep PROVE Blocking'
  <2> USE DEF RunUnchanged, RunOK, DrainType
  <2>0. up /\ up' /\ run.id \in Requests
    BY <1>7 DEF RunStep, DownOK, RunSetupEnds, RunCancelDeadline, RunPersistIssues, RunPersists,
          RunMarks, RunCallsProvider, RunProviderEnds, RunSaves
  <2>1. Holds
    BY <1>7, <2>0, <1>h, TransactionsHold DEF RunStep, RunSetupEnds, RunCancelDeadline,
          RunPersistIssues, RunPersists, RunMarks, RunCallsProvider, RunProviderEnds, RunSaves
  <2>2. ASSUME Reject PROVE Blocking'
    BY <2>0, <2>2 DEF Reject, Blocking
  <2>3. ASSUME NEW phase, GoesTo(phase) PROVE Blocking'
    BY <2>0, <2>1, <2>3, <1>0 DEF GoesTo
  <2>4. ASSUME Throw PROVE Blocking'
    BY <2>0, <2>1, <2>2, <2>4, <1>0, <1>1, SignalWakes DEF Throw
  <2>5. ASSUME NEW x, Finish(x), run.phase # "none", ~run.detached PROVE Blocking'
    BY <2>0, <2>1, <2>5, <1>0 DEF Finish
  <2>6. run.phase = "saving" => ~run.detached
    OBVIOUS
  <2>7. CASE RunSetupEnds \/ RunCancelDeadline \/ RunPersistIssues
    BY <2>7, <2>2, <2>3, <2>4, <2>5 DEF RunSetupEnds, RunCancelDeadline, RunPersistIssues
  <2>8. CASE RunPersists \/ RunMarks
    BY <2>8, <2>3, <2>4 DEF RunPersists, RunMarks
  <2>9. CASE RunCallsProvider \/ RunProviderEnds
    <3>1. drain' = drain /\ blocked' = blocked
      BY <2>9 DEF RunCallsProvider, RunProviderEnds, GoesTo
    <3> QED BY <2>0, <2>1, <3>1, <1>0
  <2>10. CASE RunSaves
    BY <2>10, <2>4, <2>5, <2>6 DEF RunSaves
  <2> QED BY <1>7, <2>7, <2>8, <2>9, <2>10 DEF RunStep
<1>8. ASSUME LateWorkEnds PROVE Blocking'
  BY <1>8, <1>0, <1>1, <1>h, SignalWakes DEF LateWorkEnds, DownOK
<1>9. ASSUME ReleaseCommits PROVE Blocking'
  <2>1. CASE blocked' = (blocked /\ ~known)
    BY <2>1, <1>2 DEF Adopted
  <2>2. CASE blocked' # (blocked /\ ~known)
    <3>1. UNCHANGED <<storeVars, blocked, drain>> /\ up /\ up'
      BY <1>9, <2>2 DEF ReleaseCommits, DownOK
    <3> QED BY <3>1, <1>0, <1>h
  <2> QED BY <2>1, <2>2
<1>10. ASSUME NEW r \in Requests, InputStep(r) PROVE Blocking'
  <2>0. up /\ up'
    BY <1>10 DEF DownOK, InputStep, InputReclaim, InputStaysBlocked, InputSend, InputRefused, InputDispatch,
                 InputEnds, InputConfirm, InputRecover
  <2>1. CASE InputSend(r) \/ InputRefused(r) \/ InputDispatch(r)
    BY <2>0, <2>1, <1>0, <1>1, <1>h, SignalWakes DEF InputSend, InputRefused, InputDispatch
  <2>2. CASE InputReclaim(r)
    BY <2>2 DEF InputReclaim, InputStaysBlocked, NothingLost
  <2>3. CASE InputEnds(r)
    <3>1. Holds
      BY <2>3, <1>h, TransactionsHold DEF InputEnds
    <3> QED BY <2>0, <2>3, <3>1, <1>0, <1>1, SignalWakes DEF InputEnds
  <2>4. CASE InputConfirm(r)
    BY <2>0, <2>4, <1>0, <1>1, <1>h, WakeWakes DEF InputConfirm, Reconcile
  <2>5. CASE InputRecover(r)
    <3>0. rcpt[r].state = "starting" /\ input[r] # "failedRecovery"
      BY <2>5 DEF InputRecover, NothingLost, InputOK
    <3>1. CASE NotSent(r)
      BY <2>5, <3>0, <3>1, <1>2 DEF InputRecover, InputRestored, Saved
    <3>2. CASE ~NotSent(r)
      <4>1. Settle(r, "interrupted")
        BY <2>5, <3>0, <3>2 DEF InputRecover, Saved
      <4>2. rcpt[r].state \in Executing /\ rcpt'[r].state = "interrupted"
        BY <3>0, <4>1, Transactions DEF StoreTypeOK, Becomes, Executing, Terminal
      <4> QED BY <2>0, <4>1, <4>2, <1>3 DEF Blocking
    <3> QED BY <3>1, <3>2
  <2> QED BY <1>10, <2>1, <2>2, <2>3, <2>4, <2>5 DEF InputStep
<1>11. ASSUME UNCHANGED vars PROVE Blocking'
  BY <1>11, <1>h DEF vars, Holds, Blocking
<1> QED BY <1>4, <1>5, <1>6, <1>7, <1>8, <1>9, <1>10, <1>11 DEF Next

(* Every step keeps what the contract and the reasons of a block rest on.   *)
LEMMA BlockStep ==
  ASSUME BInv, [Next]_vars
  PROVE  BInv'
<1>1. CInv'
  BY ContractStep DEF BInv
<1>2. ASSUME faults' = 0 PROVE BlockOK'
  <2>1. faults = 0 /\ ~Fault
    BY <1>2, FaultsStay DEF BInv, CInv, IInv
  <2> QED BY <2>1, AdoptedStep, BlockingStep, ConvergesStep, NothingLostStep
          DEF BInv, CInv, BlockOK
<1> QED BY <1>1, <1>2 DEF BInv

(* As long as no storage call failed, and with any number of crashes, a     *)
(* queue at rest is blocked only by an interrupted request that the user    *)
(* can release.                                                             *)
THEOREM BlockedWithReason == Spec => [](faults = 0 => BlockedForAReason)
<1>1. Init => BInv
  BY ContractInit DEF BInv, Init, BlockOK, Adopted, Blocking, ConvergesReleased, NothingLost, Idle,
                      NoInput
<1>2. BInv => (faults = 0 => BlockedForAReason)
  BY DEF BInv, BlockOK, Blocking, BlockedForAReason, Quiet
<1>3. BInv /\ [Next]_vars => BInv'
  BY BlockStep
<1> QED BY <1>1, <1>2, <1>3, PTL DEF Spec

================================================================================
