------------------------- MODULE MCProtectEndpoints -------------------------
(* TLC instances of ProtectEndpoints.                                         *)
EXTENDS ProtectEndpoints, TLC

CONSTANTS r1, r2

RequestSymmetry == Permutations(Requests)
=============================================================================
