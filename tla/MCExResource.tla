--------------------------- MODULE MCExResource ----------------------------
(* ExResource for TLC.                                                        *)
EXTENDS ExResource, TLC
CONSTANTS t1, t2, t3, p1
ResourceSymmetry == Permutations(Threads)
=============================================================================
