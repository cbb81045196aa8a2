--------------------------- MODULE MCWorkControl ---------------------------
EXTENDS WorkControl, TLC

CONSTANTS j1, j2, o1, o2

NoDependencies == [j \in Jobs |-> <<>>]
SecondAfterFirst == [j \in Jobs |-> IF j = j2 THEN <<j1>> ELSE <<>>]
NoLegacy == <<>>
OneLegacy == <<j1>>
\* Operation ids are interchangeable.
OpSymmetry == Permutations(OpIds)
=============================================================================
