------------------------------ MODULE MCAudit -------------------------------
(* Audit on small instances.                                               *)
EXTENDS Audit
=============================================================================
