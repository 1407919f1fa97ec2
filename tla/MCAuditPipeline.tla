-------------------------- MODULE MCAuditPipeline --------------------------
(* AuditPipeline on small instances.                                       *)
EXTENDS AuditPipeline
=============================================================================
