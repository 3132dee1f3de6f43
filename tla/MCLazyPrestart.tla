--------------------------- MODULE MCLazyPrestart ---------------------------
EXTENDS LazyPrestart, TLC

Symmetry == Permutations(Images) \cup Permutations(Daemons)
=============================================================================
