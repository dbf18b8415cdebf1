--------------------------- MODULE TurnQueueStore ---------------------------
(***************************************************************************)
(* The durable side of one Session's Turn queue: the receipts of           *)
(* session_turn_queue_v6 and the two facts of the Session row that the     *)
(* queue's transactions read and write.  Every action is one BEGIN         *)
(* IMMEDIATE .. COMMIT transaction of SessionTurnQueueStorageV6 or         *)
(* SessionStorageV6; a transaction that throws rolls back and is not a     *)
(* step.                                                                   *)
(*                                                                         *)
(* A receipt is named by its client request id (unique per Session         *)
(* incarnation by idx_v6_session_turn_queue_main_request).  The captured   *)
(* message, the reason and the timestamps other than released_at are       *)
(* abstracted away.                                                        *)
(***************************************************************************)
EXTENDS Integers, FiniteSets

CONSTANTS
  Requests,   \* the client request ids that may be submitted
  NoRequest   \* SQL NULL for a column that names a request

ASSUME RequestsAssumption == NoRequest \notin Requests

VARIABLES
  rcpt,       \* session_turn_queue_v6, one row per request id
  lastSeq,    \* sqlite_sequence of the AUTOINCREMENT sequence column
  runState,   \* runtime_policy_json.$.runState: "running", or "idle" for any other
  liveTurn    \* the request whose turn is the latest one and in phase 'running'

storeVars == <<rcpt, lastSeq, runState, liveTurn>>

Terminal  == {"completed", "failed", "canceled"}
Executing == {"starting", "running"}
States    == {"absent", "queued", "interrupted"} \cup Executing \cup Terminal

Receipt ==
  [state    : States,
   pos      : Nat,                          \* queue_position
   input    : Requests \cup {NoRequest},    \* input_turn_id
   turn     : BOOLEAN,                      \* turn_id and user_message_seq are set
   released : BOOLEAN]                      \* released_at is set

NoReceipt ==
  [state |-> "absent", pos |-> 0, input |-> NoRequest, turn |-> FALSE, released |-> FALSE]

InState(S)  == {r \in Requests : rcpt[r].state \in S}
Queued      == InState({"queued"})
Unreleased  == {r \in InState({"interrupted"}) : ~rcpt[r].released}
IsInput(r)  == rcpt[r].input # NoRequest

(* The receipts that hold the claims of everybody else (claimNext's first   *)
(* query).                                                                  *)
Holding == InState(Executing) \cup Unreleased

(* ORDER BY queue_position: the queued receipt that is next.                *)
IsNext(r) == r \in Queued /\ \A q \in Queued : rcpt[r].pos <= rcpt[q].pos

-----------------------------------------------------------------------------

StoreInit ==
  /\ rcpt = [r \in Requests |-> NoReceipt]
  /\ lastSeq = 0
  /\ runState = "idle"
  /\ liveTurn = NoRequest

(* Operators under 'Mutant' are mistakes the runs must notice: each stands  *)
(* before the operation it would replace and is used nowhere.               *)

(* Mutant: the new position counts what is queued.                          *)
EnqueueAfterQueued(r) ==
  /\ rcpt[r].state = "absent"
  /\ lastSeq' = lastSeq + 1
  /\ rcpt' = [rcpt EXCEPT ![r].state = "queued", ![r].pos = Cardinality(Queued) + 1]
  /\ UNCHANGED <<runState, liveTurn>>

(* A request id is inserted at the end of the order, once.                  *)
Enqueue(r) ==
  /\ rcpt[r].state = "absent"
  /\ lastSeq' = lastSeq + 1
  /\ rcpt' = [rcpt EXCEPT ![r].state = "queued", ![r].pos = lastSeq + 1]
  /\ UNCHANGED <<runState, liveTurn>>

(* Mutant: an unknown outcome does not hold the followers.                  *)
ClaimNextAfterUnknown(r) ==
  /\ InState(Executing) = {}
  /\ IsNext(r)
  /\ rcpt' = [rcpt EXCEPT ![r].state = "starting"]
  /\ UNCHANGED <<lastSeq, runState, liveTurn>>

ClaimNext(r) ==
  /\ Holding = {}
  /\ IsNext(r)
  /\ rcpt' = [rcpt EXCEPT ![r].state = "starting"]
  /\ UNCHANGED <<lastSeq, runState, liveTurn>>

(* persistQueuedTurnStart: user message, minimal turn, running Session and  *)
(* running receipt in one transaction.                                      *)
StartTurn(r) ==
  /\ rcpt[r].state = "starting"
  /\ ~IsInput(r)
  /\ rcpt' = [rcpt EXCEPT ![r].state = "running", ![r].turn = TRUE]
  /\ runState' = "running"
  /\ liveTurn' = r
  /\ UNCHANGED lastSeq

(* The turn already recorded by StartTurn is confirmed; nothing changes.    *)
MarkStarted(r) ==
  /\ rcpt[r].state = "running"
  /\ rcpt[r].turn
  /\ UNCHANGED storeVars

(* Mutant: input_turn_id is not written.                                    *)
ClaimForInputUnmarked(r, t) ==
  /\ rcpt[r].state = "queued"
  /\ runState = "running"
  /\ liveTurn # NoRequest
  /\ rcpt' = [rcpt EXCEPT ![r].state = "starting"]
  /\ UNCHANGED <<lastSeq, runState, liveTurn>>

(* The input names the turn the caller saw; only that some latest turn is   *)
(* running is checked here.                                                 *)
ClaimForInput(r, t) ==
  /\ rcpt[r].state = "queued"
  /\ runState = "running"
  /\ liveTurn # NoRequest
  /\ rcpt' = [rcpt EXCEPT ![r].state = "starting", ![r].input = t]
  /\ UNCHANGED <<lastSeq, runState, liveTurn>>

RestoreInput(r) ==
  /\ rcpt[r].state = "starting"
  /\ IsInput(r)
  /\ ~rcpt[r].turn
  /\ rcpt' = [rcpt EXCEPT ![r].state = "queued", ![r].input = NoRequest]
  /\ UNCHANGED <<lastSeq, runState, liveTurn>>

(* appendSessionSteer: the user message and the completed receipt together. *)
AppendSteer(r) ==
  /\ rcpt[r].state = "starting"
  /\ IsInput(r)
  /\ runState = "running"
  /\ liveTurn = rcpt[r].input
  /\ rcpt' = [rcpt EXCEPT ![r].state = "completed", ![r].turn = TRUE]
  /\ UNCHANGED <<lastSeq, runState, liveTurn>>

(* appendSessionTerminal: the answer, the turn's phase and the receipt      *)
(* together.                                                                *)
AppendTerminal(r, phase) ==
  /\ liveTurn = r
  /\ rcpt' = IF rcpt[r].state = "running" THEN [rcpt EXCEPT ![r].state = phase] ELSE rcpt
  /\ runState' = "idle"
  /\ liveTurn' = NoRequest
  /\ UNCHANGED lastSeq

(* Mutant: a confirmed outcome is overwritten.                              *)
SettleAny(r, state) ==
  /\ rcpt[r].state \in Terminal \cup Executing
  /\ rcpt' = [rcpt EXCEPT ![r].state = state]
  /\ UNCHANGED <<lastSeq, runState, liveTurn>>

(* What settle may do to a receipt: keep a terminal state that agrees or    *)
(* that an 'interrupted' would overwrite, or end an executing one.          *)
Settle(r, state) ==
  \/ /\ rcpt[r].state \in Terminal
     /\ state \in {rcpt[r].state, "interrupted"}
     /\ UNCHANGED storeVars
  \/ /\ rcpt[r].state \in Executing
     /\ rcpt' = [rcpt EXCEPT ![r].state = state]
     /\ UNCHANGED <<lastSeq, runState, liveTurn>>

(* Mutant: the other spelling of the state.                                 *)
CancelQueuedMisspelt(r) ==
  /\ rcpt[r].state = "queued"
  /\ rcpt' = [rcpt EXCEPT ![r].state = "cancelled"]
  /\ UNCHANGED <<lastSeq, runState, liveTurn>>

CancelQueued(r) ==
  /\ rcpt[r].state = "queued"
  /\ rcpt' = [rcpt EXCEPT ![r].state = "canceled"]
  /\ UNCHANGED <<lastSeq, runState, liveTurn>>

(* One exchange of two queued positions: any permutation of the queued      *)
(* slots that reorderQueued may save is a sequence of these.                *)
Reorder(r, q) ==
  /\ {r, q} \subseteq Queued
  /\ rcpt' = [rcpt EXCEPT ![r].pos = rcpt[q].pos, ![q].pos = rcpt[r].pos]
  /\ UNCHANGED <<lastSeq, runState, liveTurn>>

(* Mutant: the released request is queued again.                            *)
ReleaseByRequeueing(r, runReleased) ==
  /\ rcpt[r].state = "interrupted"
  /\ rcpt' = [rcpt EXCEPT ![r].state = "queued", ![r].input = NoRequest]
  /\ runState' = IF runReleased THEN "idle" ELSE runState
  /\ UNCHANGED <<lastSeq, liveTurn>>

(* releaseInterrupted; runReleased says that no run of the Session is in    *)
(* flight, and only then is the Session row brought back to idle.           *)
ReleaseInterrupted(r, runReleased) ==
  /\ rcpt[r].state = "interrupted"
  /\ rcpt' = [rcpt EXCEPT ![r].released = TRUE]
  /\ runState' = IF runReleased /\ ~IsInput(r) /\ rcpt[r].turn /\ liveTurn = r
                 THEN "idle" ELSE runState
  /\ UNCHANGED <<lastSeq, liveTurn>>

(* Mutant: startup queues again what was being executed.                    *)
RecoverByRequeueing ==
  /\ rcpt' = [r \in Requests |->
                IF rcpt[r].state \in Executing
                THEN [rcpt[r] EXCEPT !.state = "queued", !.input = NoRequest] ELSE rcpt[r]]
  /\ runState' = "idle"
  /\ UNCHANGED <<lastSeq, liveTurn>>

(* Startup: running Sessions and executing receipts become interrupted.     *)
RecoverInterrupted ==
  /\ rcpt' = [r \in Requests |->
                IF rcpt[r].state \in Executing
                THEN [rcpt[r] EXCEPT !.state = "interrupted"] ELSE rcpt[r]]
  /\ runState' = "idle"
  /\ UNCHANGED <<lastSeq, liveTurn>>

(* listPendingOwners: is this Session one that startup adopts and wakes?    *)
IsPendingOwner ==
  \/ Queued \cup InState(Executing) \cup Unreleased # {}
  \/ runState = "running" /\ \E r \in InState({"interrupted"}) : ~IsInput(r)

StoreNext ==
  \/ \E r \in Requests :
       \/ Enqueue(r)
       \/ ClaimNext(r)
       \/ StartTurn(r)
       \/ MarkStarted(r)
       \/ RestoreInput(r)
       \/ AppendSteer(r)
       \/ CancelQueued(r)
       \/ \E t \in Requests : ClaimForInput(r, t)
       \/ \E phase \in Terminal : AppendTerminal(r, phase)
       \/ \E state \in Terminal \cup {"interrupted"} : Settle(r, state)
       \/ \E q \in Requests : Reorder(r, q)
       \/ \E free \in BOOLEAN : ReleaseInterrupted(r, free)
  \/ RecoverInterrupted

StoreSpec == StoreInit /\ [][StoreNext]_storeVars

-----------------------------------------------------------------------------

(* Every column has a value of its type.                                    *)
StoreTypeOK ==
  /\ rcpt \in [Requests -> Receipt]
  /\ lastSeq \in Nat
  /\ runState \in {"idle", "running"}
  /\ liveTurn \in Requests \cup {NoRequest}

(* The saved order is total: accepting, reordering, claiming and restoring  *)
(* never leave two receipts at one queue_position, so the order in which    *)
(* queued work is claimed is the one the user sees.                         *)
OrderIsTotal ==
  \A r, q \in Requests :
    /\ rcpt[r].state # "absent" => rcpt[r].pos \in 1 .. lastSeq
    /\ (r # q /\ rcpt[r].state # "absent" /\ rcpt[q].state # "absent")
         => rcpt[r].pos # rcpt[q].pos

(* At most one receipt executes as a turn of its own (claimNext); others    *)
(* may only be inputs claimed for the turn that is running.                 *)
OneTurnClaimed ==
  \A r, q \in Requests :
    (/\ rcpt[r].state \in Executing /\ ~IsInput(r)
     /\ rcpt[q].state \in Executing /\ ~IsInput(q)) => r = q

(* A turn whose outcome is unknown holds the followers back: while one is   *)
(* interrupted and not released by the user, no other turn is claimed.      *)
FollowersHeld ==
  \A r \in Unreleased : ~IsInput(r) =>
    \A q \in InState(Executing) : IsInput(q)

=============================================================================
