-------------------------- MODULE MCAuthoritySync --------------------------
(* Instances of AuthoritySync for TLC.  The policy side and the revocation  *)
(* side meet only in run rejection and cancellation, so each is explored    *)
(* with a small instance of the other.                                      *)
EXTENDS AuthoritySync, TLC

CONSTANTS t1, t2, b1, b2, b3

\* Two tokens that share a bloom bit.
TwoTokenHash == (t1 :> {b1, b2}) @@ (t2 :> {b2, b3})
NoTokenHash == [t \in {} |-> {}]
=============================================================================
