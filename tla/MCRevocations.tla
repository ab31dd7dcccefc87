---------------------------- MODULE MCRevocations ----------------------------
(* Revocations of two tokens, for TLC. *)
EXTENDS Revocations

CONSTANTS t1, t2, s1, s2
=============================================================================
