-------------------------------- MODULE MCAgent --------------------------------
(* Model-checking instances of Agent. *)
EXTENDS Agent, TLC

(* Requests and kill switches are only compared for equality. *)
Symmetry == Permutations(Requests) \cup Permutations(Switches)
=============================================================================
