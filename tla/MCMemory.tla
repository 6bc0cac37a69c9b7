------------------------------ MODULE MCMemory ------------------------------
EXTENDS Memory, TLC
Symmetry == Permutations(Threads) \cup Permutations(Fds)
=============================================================================
