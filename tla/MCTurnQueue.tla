----------------------------- MODULE MCTurnQueue -----------------------------
EXTENDS TurnQueue, TLC

Symmetry == Permutations(Requests)
=============================================================================
