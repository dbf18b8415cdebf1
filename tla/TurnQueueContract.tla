-------------------------- MODULE TurnQueueContract --------------------------
(***************************************************************************)
(* What the Turn queue of a Session promises to those who submit requests  *)
(* to it: a request is run as a turn or taken as an input of the turn that *)
(* runs, at most one turn at a time; it is handed to the provider at most  *)
(* once; it goes back to the queue only if it was not handed over; and     *)
(* once its outcome is not known it is never run again, and nobody is run  *)
(* after it until it is released.                                          *)
(***************************************************************************)
EXTENDS Naturals

CONSTANT Requests

VARIABLES
  status,  \* where each request is
  calls    \* how often each request was handed to the provider

Init ==
  /\ status = [r \in Requests |-> "none"]
  /\ calls = [r \in Requests |-> 0]

Moves(r, from, to) ==
  /\ status[r] \in from
  /\ status' = [status EXCEPT ![r] = to]
  /\ UNCHANGED calls

Submit(r)   == Moves(r, {"none"}, "waiting")
Withdraw(r) == Moves(r, {"waiting"}, "ended")

TakeTurn(r) ==
  /\ \A q \in Requests : status[q] \notin {"turn", "input", "unknown"}
  /\ Moves(r, {"waiting"}, "turn")

TakeInput(r) == Moves(r, {"waiting"}, "input")

Call(r) ==
  /\ status[r] \in {"turn", "input"}
  /\ calls[r] = 0
  /\ calls' = [calls EXCEPT ![r] = 1]
  /\ UNCHANGED status

(* Only an input is ever put back, and only before it was handed over.      *)
PutBack(r) == calls[r] = 0 /\ Moves(r, {"input"}, "waiting")

(* A turn may end before the provider is called, an input may not.          *)
End(r) ==
  \/ Moves(r, {"turn"}, "ended")
  \/ calls[r] = 1 /\ Moves(r, {"input"}, "ended")

Lose(r)    == Moves(r, {"turn", "input"}, "unknown")
Release(r) == Moves(r, {"unknown"}, "released")

(* A crash loses everything that was being run.                             *)
LoseAll ==
  /\ status' = [r \in Requests |->
                  IF status[r] \in {"turn", "input"} THEN "unknown" ELSE status[r]]
  /\ UNCHANGED calls

Next ==
  \/ \E r \in Requests :
       \/ Submit(r) \/ Withdraw(r) \/ TakeTurn(r) \/ TakeInput(r) \/ Call(r)
       \/ PutBack(r) \/ End(r) \/ Lose(r) \/ Release(r)
  \/ LoseAll

Spec == Init /\ [][Next]_<<status, calls>>

=============================================================================
