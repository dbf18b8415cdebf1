------------------------- MODULE StorageCallContract -------------------------
(***************************************************************************)
(* What a storage call promises to the services that make it.  A call is   *)
(* answered once.  A result says that its writes are committed; an error   *)
(* other than "unknown" says that they are not and never will be.  Of an   *)
(* unknown outcome only this is known: while the storage still answers,    *)
(* whatever the call wrote it wrote before it was answered.  So whoever    *)
(* looks again and gets a result sees all that the call will ever do.      *)
(***************************************************************************)
CONSTANT Calls

VARIABLES
  status,  \* "none", "open", or the answer
  writes,  \* the calls that write
  effect,  \* the writes of the call are committed
  lost,    \* the storage answers no more
  over     \* close() has returned

Answers == {"result", "rejected", "notExecuted", "unknown", "failed"}

Init ==
  /\ status = [c \in Calls |-> "none"]
  /\ writes = {}
  /\ effect = [c \in Calls |-> FALSE]
  /\ lost = FALSE /\ over = FALSE

(* What an answer says is true when it is given.                            *)
Truthful(c, a) ==
  CASE a = "result"  -> ~lost /\ (c \in writes => effect[c])
    [] a = "unknown" -> c \in writes
    [] OTHER         -> c \in writes => ~effect[c]

Ask(c, write) ==
  /\ status[c] = "none"
  /\ status' = [status EXCEPT ![c] = "open"]
  /\ writes' = IF write THEN writes \cup {c} ELSE writes
  /\ UNCHANGED <<effect, lost, over>>

TakesEffect(c) ==
  /\ c \in writes /\ ~effect[c] /\ ~over
  /\ status[c] = "open" \/ (status[c] = "unknown" /\ lost)
  /\ effect' = [effect EXCEPT ![c] = TRUE]
  /\ UNCHANGED <<status, writes, lost, over>>

Answered(c, a) ==
  /\ status[c] = "open" /\ Truthful(c, a)
  /\ status' = [status EXCEPT ![c] = a]
  /\ UNCHANGED <<writes, effect, lost, over>>

(* The client answers calls by itself, among them one that is made just     *)
(* now: it was closed, the worker is gone, or a request cannot be sent.     *)
(* When the storage is lost nobody goes on waiting.                         *)
Settle ==
  /\ \A c \in Calls :
       \/ status'[c] = status[c]
       \/ status[c] = "none" /\ status'[c] = "failed"
       \/ status[c] = "open" /\ status'[c] \in {"failed", "unknown"} /\ Truthful(c, status'[c])
       \/ status[c] = "open" /\ status'[c] = "open"
  /\ writes \subseteq writes'
  /\ \A c \in writes' \ writes : status[c] = "none" /\ status'[c] = "failed"
  /\ lost => lost'
  /\ lost' => \A c \in Calls : status'[c] # "open"
  /\ over => over'
  /\ UNCHANGED effect

Next ==
  \/ \E c \in Calls :
       \/ \E write \in BOOLEAN : Ask(c, write)
       \/ TakesEffect(c)
       \/ \E a \in Answers : Answered(c, a)
  \/ Settle

Spec == Init /\ [][Next]_<<status, writes, effect, lost, over>>

=============================================================================
