--------------------------- MODULE MCNativeLogin ---------------------------
(* The saved login of one machine, for TLC. *)
EXTENDS NativeLogin

CONSTANTS s1, s2, l1, l2, o1
=============================================================================
