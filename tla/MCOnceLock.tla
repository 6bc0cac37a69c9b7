----------------------------- MODULE MCOnceLock -----------------------------
EXTENDS OnceLock, TLC
Symmetry == Permutations(Threads)
=============================================================================
