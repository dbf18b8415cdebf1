--------------------------- MODULE MCStorageWorker ---------------------------
EXTENDS StorageWorker, TLC

Symmetry == Permutations(Calls)
=============================================================================
