----------------------------- MODULE MCAuditWal -----------------------------
(* Instance of AuditWal for TLC. *)
EXTENDS AuditWal

CONSTANTS e1, e2, u1, u2
=============================================================================
