------------------------ MODULE MCCrossTabConflicts ------------------------
EXTENDS CrossTabConflicts, TLC
CONSTANTS t1, t2, v1, v2, a1, s1
MCTab == {t1, t2}
MCArea == {a1}
MCValue == {v1, v2}
Symmetry == Permutations(MCTab)
=============================================================================
