--------------------------- MODULE MCCallerContext ---------------------------
(* Instances of CallerContext for TLC.                                      *)
EXTENDS CallerContext, TLC

Symmetry == Permutations(Turns)
=============================================================================
