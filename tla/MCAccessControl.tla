--------------------------- MODULE MCAccessControl ---------------------------
(* Instances of AccessControl. *)
EXTENDS AccessControl, TLC
RequestSymmetry == Permutations(Requests)
=============================================================================
