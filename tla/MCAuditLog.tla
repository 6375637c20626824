------------------------------ MODULE MCAuditLog ------------------------------
(* Instances of AuditLog. *)
EXTENDS AuditLog
=============================================================================
