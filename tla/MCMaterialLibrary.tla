------------------------ MODULE MCMaterialLibrary ------------------------
(* Two libraries: one with two folders, and one that stays empty and whose *)
(* snapshot can stand where the other's is looked for.                     *)
EXTENDS MaterialLibrary, TLC

CONSTANTS a, b, u1, u2, first, second
Folders   == {a, b}
Libraries == {first, second}
Places    == [f \in Folders |-> first]
Uids      == {u1, u2}
Alike     == Permutations(Folders) \cup Permutations(Uids)
=============================================================================
