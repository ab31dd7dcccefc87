--------------------------- MODULE MCOrchestrator ---------------------------
(* One detached start, one foreground start and one stop of a stack of two. *)
EXTENDS Orchestrator

=============================================================================
