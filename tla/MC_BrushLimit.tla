--------------------------- MODULE MC_BrushLimit ----------------------------
(* Model-checking instance of BrushLimit: concurrent Check calls of one    *)
(* user, as model values in the .cfg.                                      *)
EXTENDS BrushLimit, TLC
CONSTANTS p1, p2, p3, p4
MC_Procs == {p1, p2, p3, p4}
\* The Check calls are interchangeable.
MC_Symmetry == Permutations(MC_Procs)
=============================================================================
