------------------------------- MODULE MCRunner -------------------------------
(* Model-checking instances of Runner. *)
EXTENDS Runner, TLC

(* Calls are only compared for equality. *)
Symmetry == Permutations(Calls)
=============================================================================
