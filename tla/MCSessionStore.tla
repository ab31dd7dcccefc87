--------------------------- MODULE MCSessionStore ---------------------------
(* Instance of SessionStore for TLC. *)
EXTENDS SessionStore

CONSTANTS s1, s2, s3

Symmetry == Permutations(Sessions)
=============================================================================
