------------------------- MODULE TurnQueueStoreProofs -------------------------
(***************************************************************************)
(* Invariants of the durable receipts, for every set of requests: they     *)
(* hold of the transactions alone, in whatever order and with whatever     *)
(* arguments the services issue them.                                      *)
(***************************************************************************)
EXTENDS TurnQueueStore, TLAPS

StoreInv == StoreTypeOK /\ OrderIsTotal /\ OneTurnClaimed /\ FollowersHeld

(* Every step of the store keeps the columns in their types.                *)
LEMMA StoreTypes ==
  ASSUME StoreTypeOK, [StoreNext]_storeVars
  PROVE  StoreTypeOK'
<1> USE DEF StoreTypeOK, Receipt, States, Executing, Terminal
<1>1. ASSUME NEW r \in Requests, Enqueue(r) PROVE StoreTypeOK'
  <2> DEFINE f == [rcpt EXCEPT ![r].state = "queued"]
  <2>1. f \in [Requests -> Receipt]
    OBVIOUS
  <2>2. [f EXCEPT ![r].pos = lastSeq + 1] \in [Requests -> Receipt]
    <3> HIDE DEF f
    <3> QED BY <2>1
  <2>3. rcpt' = [f EXCEPT ![r].pos = lastSeq + 1]
    BY <1>1 DEF Enqueue
  <2> QED BY <1>1, <2>2, <2>3 DEF Enqueue
<1>2. ASSUME NEW r \in Requests, ClaimNext(r) PROVE StoreTypeOK'
  BY <1>2 DEF ClaimNext
<1>3. ASSUME NEW r \in Requests, StartTurn(r) PROVE StoreTypeOK'
  BY <1>3 DEF StartTurn
<1>4. ASSUME NEW r \in Requests, MarkStarted(r) PROVE StoreTypeOK'
  BY <1>4 DEF MarkStarted, storeVars
<1>5. ASSUME NEW r \in Requests, RestoreInput(r) PROVE StoreTypeOK'
  BY <1>5 DEF RestoreInput
<1>6. ASSUME NEW r \in Requests, AppendSteer(r) PROVE StoreTypeOK'
  BY <1>6 DEF AppendSteer
<1>7. ASSUME NEW r \in Requests, CancelQueued(r) PROVE StoreTypeOK'
  BY <1>7 DEF CancelQueued
<1>8. ASSUME NEW r \in Requests, NEW t \in Requests, ClaimForInput(r, t) PROVE StoreTypeOK'
  <2> DEFINE f == [rcpt EXCEPT ![r].state = "starting"]
  <2>1. f \in [Requests -> Receipt]
    OBVIOUS
  <2>2. [f EXCEPT ![r].input = t] \in [Requests -> Receipt]
    <3> HIDE DEF f
    <3> QED BY <2>1
  <2>3. rcpt' = [f EXCEPT ![r].input = t]
    BY <1>8 DEF ClaimForInput
  <2> QED BY <1>8, <2>2, <2>3 DEF ClaimForInput
<1>9. ASSUME NEW r \in Requests, NEW phase \in Terminal, AppendTerminal(r, phase)
      PROVE  StoreTypeOK'
  BY <1>9 DEF AppendTerminal
<1>10. ASSUME NEW r \in Requests, NEW s \in Terminal \cup {"interrupted"}, Settle(r, s)
       PROVE  StoreTypeOK'
  BY <1>10 DEF Settle, storeVars
<1>11. ASSUME NEW r \in Requests, NEW q \in Requests, Reorder(r, q) PROVE StoreTypeOK'
  BY <1>11 DEF Reorder
<1>12. ASSUME NEW r \in Requests, NEW free \in BOOLEAN, ReleaseInterrupted(r, free)
       PROVE  StoreTypeOK'
  BY <1>12 DEF ReleaseInterrupted
<1>13. CASE RecoverInterrupted
  BY <1>13 DEF RecoverInterrupted
<1>14. CASE UNCHANGED storeVars
  BY <1>14 DEF storeVars
<1> QED
  BY <1>1, <1>2, <1>3, <1>4, <1>5, <1>6, <1>7, <1>8, <1>9, <1>10, <1>11, <1>12, <1>13,
     <1>14 DEF StoreNext

(* Every step of the store keeps the order total.                           *)
LEMMA StoreOrder ==
  ASSUME StoreTypeOK, OrderIsTotal, [StoreNext]_storeVars
  PROVE  OrderIsTotal'
<1> USE DEF OrderIsTotal, StoreTypeOK, Receipt, States, Executing, Terminal
<1>1. ASSUME NEW r \in Requests, Enqueue(r) PROVE OrderIsTotal'
  BY <1>1 DEF Enqueue
<1>2. ASSUME NEW r \in Requests, NEW q \in Requests, Reorder(r, q) PROVE OrderIsTotal'
  BY <1>2 DEF Reorder, Queued, InState
<1>3. ASSUME UNCHANGED lastSeq,
             \A r \in Requests : /\ rcpt'[r].pos = rcpt[r].pos
                                 /\ rcpt'[r].state # "absent" => rcpt[r].state # "absent"
      PROVE  OrderIsTotal'
  BY <1>3
<1> DEFINE SameOrder ==
             /\ UNCHANGED lastSeq
             /\ \A r \in Requests : /\ rcpt'[r].pos = rcpt[r].pos
                                    /\ rcpt'[r].state # "absent" => rcpt[r].state # "absent"
<1>4. ASSUME NEW r \in Requests,
             \/ ClaimNext(r) \/ StartTurn(r) \/ MarkStarted(r) \/ RestoreInput(r)
             \/ AppendSteer(r) \/ CancelQueued(r)
             \/ \E t \in Requests : ClaimForInput(r, t)
             \/ \E phase \in Terminal : AppendTerminal(r, phase)
             \/ \E s \in Terminal \cup {"interrupted"} : Settle(r, s)
             \/ \E free \in BOOLEAN : ReleaseInterrupted(r, free)
      PROVE  SameOrder
  BY <1>4 DEF ClaimNext, StartTurn, MarkStarted, RestoreInput, AppendSteer, CancelQueued,
              ClaimForInput, AppendTerminal, Settle, ReleaseInterrupted, storeVars, IsNext,
              Queued, InState
<1>5. CASE RecoverInterrupted
  <2>1. SameOrder
    BY <1>5 DEF RecoverInterrupted
  <2> QED BY <2>1, <1>3
<1>6. CASE UNCHANGED storeVars
  <2>1. SameOrder
    BY <1>6 DEF storeVars
  <2> QED BY <2>1, <1>3
<1> QED
  BY <1>1, <1>2, <1>3, <1>4, <1>5, <1>6 DEF StoreNext

(* A claim needs everybody to be at rest, an input is marked as such when   *)
(* it is claimed, and the other transactions only end executions.           *)
LEMMA StoreOneTurn ==
  ASSUME StoreTypeOK, OneTurnClaimed, [StoreNext]_storeVars
  PROVE  OneTurnClaimed'
<1> USE RequestsAssumption DEF OneTurnClaimed, StoreTypeOK, Receipt, IsInput, Executing, Terminal
<1> DEFINE Turns == {r \in Requests : rcpt[r].state \in Executing /\ ~IsInput(r)}
<1>1. ASSUME Turns' \subseteq Turns PROVE OneTurnClaimed'
  BY <1>1
<1>2. ASSUME NEW r \in Requests, ClaimNext(r) PROVE OneTurnClaimed'
  <2>1. Turns = {}
    BY <1>2 DEF ClaimNext, Holding, InState
  <2>2. Turns' \subseteq {r}
    BY <1>2, <2>1 DEF ClaimNext
  <2> QED BY <2>2
<1>3. ASSUME NEW r \in Requests,
             \/ Enqueue(r) \/ StartTurn(r) \/ MarkStarted(r) \/ RestoreInput(r)
             \/ AppendSteer(r) \/ CancelQueued(r)
      PROVE  Turns' \subseteq Turns
  BY <1>3 DEF Enqueue, StartTurn, MarkStarted, RestoreInput, AppendSteer, CancelQueued, storeVars
<1>4. ASSUME NEW r \in Requests, NEW t \in Requests, ClaimForInput(r, t)
      PROVE  Turns' \subseteq Turns
  <2>1. rcpt'[r].input = t
    BY <1>4 DEF ClaimForInput
  <2>2. \A q \in Requests \ {r} : rcpt'[q] = rcpt[q]
    BY <1>4 DEF ClaimForInput
  <2> QED BY <2>1, <2>2
<1>5. ASSUME NEW r \in Requests, NEW phase \in Terminal, AppendTerminal(r, phase)
      PROVE  Turns' \subseteq Turns
  BY <1>5 DEF AppendTerminal
<1>6. ASSUME NEW r \in Requests, NEW s \in Terminal \cup {"interrupted"}, Settle(r, s)
      PROVE  Turns' \subseteq Turns
  BY <1>6 DEF Settle, storeVars
<1>7. ASSUME NEW r \in Requests, NEW q \in Requests, Reorder(r, q)
      PROVE  Turns' \subseteq Turns
  <2>1. \A p \in Requests : rcpt'[p].state = rcpt[p].state /\ rcpt'[p].input = rcpt[p].input
    BY <1>7 DEF Reorder
  <2> QED BY <2>1
<1>8. ASSUME NEW r \in Requests, NEW free \in BOOLEAN, ReleaseInterrupted(r, free)
      PROVE  Turns' \subseteq Turns
  BY <1>8 DEF ReleaseInterrupted
<1>9. CASE RecoverInterrupted
  BY <1>9 DEF RecoverInterrupted
<1>10. CASE UNCHANGED storeVars
  BY <1>10 DEF storeVars
<1> HIDE DEF Turns
<1> QED
  BY <1>1, <1>2, <1>3, <1>4, <1>5, <1>6, <1>7, <1>8, <1>9, <1>10 DEF StoreNext

(* The only transaction that makes a turn's outcome unknown while the       *)
(* process lives ends the one turn that was claimed.                        *)
LEMMA StoreFollowers ==
  ASSUME StoreTypeOK, OneTurnClaimed, FollowersHeld, [StoreNext]_storeVars
  PROVE  FollowersHeld'
<1> USE RequestsAssumption DEF FollowersHeld, StoreTypeOK, Receipt, IsInput, Executing, Terminal,
        InState, Unreleased
<1> DEFINE Turns    == {r \in Requests : rcpt[r].state \in Executing /\ ~IsInput(r)}
           Unknowns == {r \in Requests : /\ rcpt[r].state = "interrupted" /\ ~rcpt[r].released
                                         /\ ~IsInput(r)}
<1>0. Turns = {} \/ Unknowns = {}
  OBVIOUS
<1>1. ASSUME Turns' \subseteq Turns, Unknowns' \subseteq Unknowns PROVE FollowersHeld'
  BY <1>0, <1>1
<1>2. ASSUME NEW r \in Requests, ClaimNext(r) PROVE FollowersHeld'
  <2>1. Unknowns = {}
    BY <1>2 DEF ClaimNext, Holding
  <2>2. Unknowns' \subseteq Unknowns
    BY <1>2 DEF ClaimNext
  <2> QED BY <2>1, <2>2
<1>3. ASSUME NEW r \in Requests,
             \/ Enqueue(r) \/ StartTurn(r) \/ MarkStarted(r) \/ RestoreInput(r)
             \/ AppendSteer(r) \/ CancelQueued(r)
      PROVE  Turns' \subseteq Turns /\ Unknowns' \subseteq Unknowns
  BY <1>3 DEF Enqueue, StartTurn, MarkStarted, RestoreInput, AppendSteer, CancelQueued, storeVars
<1>4. ASSUME NEW r \in Requests, NEW t \in Requests, ClaimForInput(r, t)
      PROVE  Turns' \subseteq Turns /\ Unknowns' \subseteq Unknowns
  <2>1. rcpt'[r].input = t /\ rcpt'[r].state = "starting"
    BY <1>4 DEF ClaimForInput
  <2>2. \A q \in Requests \ {r} : rcpt'[q] = rcpt[q]
    BY <1>4 DEF ClaimForInput
  <2> QED BY <2>1, <2>2
<1>5. ASSUME NEW r \in Requests, NEW phase \in Terminal, AppendTerminal(r, phase)
      PROVE  Turns' \subseteq Turns /\ Unknowns' \subseteq Unknowns
  BY <1>5 DEF AppendTerminal
<1>6. ASSUME NEW r \in Requests, NEW s \in Terminal, Settle(r, s)
      PROVE  Turns' \subseteq Turns /\ Unknowns' \subseteq Unknowns
  BY <1>6 DEF Settle, storeVars
<1>7. ASSUME NEW r \in Requests, Settle(r, "interrupted") PROVE FollowersHeld'
  <2>1. CASE UNCHANGED storeVars
    BY <2>1, <1>1 DEF storeVars
  <2>2. CASE /\ rcpt[r].state \in Executing
             /\ rcpt' = [rcpt EXCEPT ![r].state = "interrupted"]
    <3>1. /\ \A q \in Requests \ {r} : rcpt'[q] = rcpt[q]
          /\ rcpt'[r].state = "interrupted" /\ rcpt'[r].input = rcpt[r].input
      BY <2>2
    <3>2. CASE IsInput(r)
      BY <3>1, <3>2, <1>1
    <3>3. CASE ~IsInput(r)
      <4>1. Turns' = {}
        BY <3>1, <3>3, <2>2 DEF OneTurnClaimed
      <4> QED BY <4>1
    <3> QED BY <3>2, <3>3
  <2> QED BY <1>7, <2>1, <2>2 DEF Settle
<1>8. ASSUME NEW r \in Requests, NEW q \in Requests, Reorder(r, q)
      PROVE  Turns' \subseteq Turns /\ Unknowns' \subseteq Unknowns
  <2>1. \A p \in Requests : /\ rcpt'[p].state = rcpt[p].state /\ rcpt'[p].input = rcpt[p].input
                            /\ rcpt'[p].released = rcpt[p].released
    BY <1>8 DEF Reorder
  <2> QED BY <2>1
<1>9. ASSUME NEW r \in Requests, NEW free \in BOOLEAN, ReleaseInterrupted(r, free)
      PROVE  Turns' \subseteq Turns /\ Unknowns' \subseteq Unknowns
  BY <1>9 DEF ReleaseInterrupted
<1>10. CASE RecoverInterrupted
  <2>1. Turns' = {}
    BY <1>10 DEF RecoverInterrupted
  <2> QED BY <2>1
<1>11. CASE UNCHANGED storeVars
  BY <1>11, <1>1 DEF storeVars
<1> HIDE DEF Turns, Unknowns
<1> QED
  BY <1>1, <1>2, <1>3, <1>4, <1>5, <1>6, <1>7, <1>8, <1>9, <1>10, <1>11 DEF StoreNext

(* The four invariants hold of the store, whoever calls it.                 *)
THEOREM StoreCorrect == StoreSpec => []StoreInv
<1>1. StoreInit => StoreInv
  <2> SUFFICES ASSUME StoreInit PROVE StoreInv
    OBVIOUS
  <2> USE DEF StoreInit, NoReceipt
  <2>1. StoreTypeOK
    BY DEF StoreTypeOK, Receipt, States
  <2>2. OrderIsTotal /\ OneTurnClaimed /\ FollowersHeld
    BY DEF OrderIsTotal, OneTurnClaimed, FollowersHeld, Unreleased, InState, Executing
  <2> QED BY <2>1, <2>2 DEF StoreInv
<1>2. StoreInv /\ [StoreNext]_storeVars => StoreInv'
  BY StoreTypes, StoreOrder, StoreOneTurn, StoreFollowers DEF StoreInv
<1> QED BY <1>1, <1>2, PTL DEF StoreSpec

=============================================================================
