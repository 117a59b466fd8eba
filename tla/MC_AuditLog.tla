---------------------------- MODULE MC_AuditLog ----------------------------
(* AuditLog with a server, its successor and the command line tool. *)
EXTENDS AuditLog
=============================================================================
