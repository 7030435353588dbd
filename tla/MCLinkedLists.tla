--------------------------- MODULE MCLinkedLists ----------------------------
(* Two pages of two blocks: lists of up to three entries and a header.     *)
EXTENDS LinkedLists, TLC

CONSTANTS p1, p2, x, y, z

MCPage == {p1, p2}
MCElement == {x, y, z}
MCSymmetry == Permutations(MCPage) \cup Permutations(MCElement)
=============================================================================
