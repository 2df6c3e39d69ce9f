---------------------------- MODULE MCAllocTable ----------------------------
EXTENDS AllocTable, TLC

Symmetry == Permutations(Thread) \cup Permutations(Callback)

=============================================================================
