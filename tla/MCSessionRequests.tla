--------------------------- MODULE MCSessionRequests ---------------------------
(* Instances of SessionRequests for TLC.                                    *)
EXTENDS SessionRequests, TLC

Permutes == Permutations(Approvals) \cup Permutations(Signals)
=============================================================================
