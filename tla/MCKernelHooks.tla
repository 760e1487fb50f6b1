--------------------------- MODULE MCKernelHooks ---------------------------
EXTENDS KernelHooks, TLC

CONSTANTS p1, p2, i1, i2, c1, c2

Symmetry == Permutations(Pid) \cup Permutations(Category)
=============================================================================
