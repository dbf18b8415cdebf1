--------------------------- MODULE MCRuntimeDiscovery ---------------------------
(* Instances of RuntimeDiscovery for TLC: two failures hit x and one hits y,*)
(* so that there is every number from none to two beside a failure of the   *)
(* other.                                                                   *)
EXTENDS RuntimeDiscovery
CONSTANTS x, y
Both == {x, y}
TwoAndOne == [i \in Both |-> IF i = x THEN 2 ELSE 1]
=============================================================================
