---------------------------- MODULE MCBlockLock -----------------------------
(* Instances of BlockLock small enough for TLC.                            *)
EXTENDS BlockLock, TLC

CONSTANTS t1, t2

MCThread == {t1, t2}
MCSymmetry == Permutations(MCThread)
=============================================================================
