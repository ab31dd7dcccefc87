----------------------------- MODULE MCPipeline -----------------------------
(* Instances of Pipeline for TLC: two calls of one session.                 *)
EXTENDS Pipeline, TLC

CONSTANTS r1, r2, t1, t2, b1, a1, a2

\* Two tokens of two agents that share their bloom bit; t2 outlives the clock.
MCHash == (t1 :> {b1}) @@ (t2 :> {b1})
MCExpiry == (t1 :> 1) @@ (t2 :> MaxTime + 1)
MCAgent == (t1 :> a1) @@ (t2 :> a2)

\* A generation that asks for a step-up is replaced by one that admits.
MCPolicyOf == (0 :> "Deny") @@ (1 :> "StepUp") @@ (2 :> "Modify")

Symmetry == Permutations({r1, r2})
=============================================================================
