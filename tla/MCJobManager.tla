----------------------------- MODULE MCJobManager -----------------------------
(* Model-checking instances of JobManager. *)
EXTENDS JobManager, TLC

(* Ids and reasons are only compared for equality, and nothing chooses one. *)
Symmetry == Permutations(JobIds) \cup Permutations(Reasons)
=============================================================================
