-------------------------------- MODULE MCPKI --------------------------------
(* Model-checking instance of PKI. *)
EXTENDS PKI, TLC

(* Runs are only compared for equality. *)
Symmetry == Permutations(Runs)
=============================================================================
