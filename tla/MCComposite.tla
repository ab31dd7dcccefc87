---------------------------- MODULE MCComposite -----------------------------
(* Instance of Composite for TLC. *)
EXTENDS Composite, TLC

CONSTANTS t1, t2, b1, b2, c1, c2

\* The bit of t1 is one of those of t2.
MCHash == (t1 :> {b1}) @@ (t2 :> {b1, b2})

Symmetry == Permutations(Credentials)
=============================================================================
