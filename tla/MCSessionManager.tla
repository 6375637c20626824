--------------------------- MODULE MCSessionManager ---------------------------
(* Model-checking instances of SessionManager.  The runs check liveness, so no *)
(* symmetry set is defined.                                                    *)
EXTENDS SessionManager
=============================================================================
