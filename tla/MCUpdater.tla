------------------------------- MODULE MCUpdater -------------------------------
(* Model-checking instances of Updater. *)
EXTENDS Updater

(* v1.9.0, v2.0.0-rc1, v2.0.0, v2.0.1 *)
Names ==
    << [numbers |-> <<1, 9, 0>>, suffix |-> "none"], [numbers |-> <<2, 0, 0>>, suffix |-> "rc1"],
       [numbers |-> <<2, 0, 0>>, suffix |-> "none"], [numbers |-> <<2, 0, 1>>, suffix |-> "none"] >>
=============================================================================
