----------------------------- MODULE MCPreloads -----------------------------
(* Instances of Preloads small enough for TLC.                             *)
EXTENDS Preloads, TLC

CONSTANTS a, b, c

MCLibrary == {a, b, c}
MCSymmetry == Permutations(MCLibrary)
=============================================================================
