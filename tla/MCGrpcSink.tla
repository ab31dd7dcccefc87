----------------------------- MODULE MCGrpcSink -----------------------------
(* Instance of GrpcSink for TLC. *)
EXTENDS GrpcSink

CONSTANTS e1, e2, e3, v
=============================================================================
