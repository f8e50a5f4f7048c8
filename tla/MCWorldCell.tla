----------------------------- MODULE MCWorldCell -----------------------------
EXTENDS WorldCell, TLC
CONSTANTS b1, b2, x, s1, s2, c1, c2
Symmetry == Permutations(Spots) \cup Permutations(Calls)
=============================================================================
