------------------------- MODULE EnforcementState -------------------------
(***************************************************************************)
(* The state that the Sidecar's Authority client writes and its request    *)
(* path reads: the published enforcement snapshot (swappable_policy.rs),   *)
(* the readiness flags (readiness.rs) and the bloom filter of revoked      *)
(* tokens (revocation/bloom.rs), with the operations those types offer.    *)
(*                                                                         *)
(* Spec is the contract of that state: which changes a reader may see, in  *)
(* any order.  AuthoritySync implements it; Pipeline and Composite are     *)
(* readers that rely on nothing else.                                      *)
(*                                                                         *)
(* A generation is the number of snapshots published so far; generation 0  *)
(* is the deny-all snapshot of startup, which has no version.  Time is a   *)
(* counter of ticks of the monotonic clock.                                *)
(***************************************************************************)
EXTENDS Naturals

CONSTANTS
  Tokens,   \* capability tokens
  Bits,     \* bits of the bloom filter
  Hash,     \* Hash[t]: the bits that token t sets
  TTLs,     \* time to live of a bundle, in ticks
  MaxTime,  \* bound: last instant of the clock
  MaxGen    \* bound: number of snapshots published

ASSUME StateAssumption ==
  /\ Hash \in [Tokens -> SUBSET Bits]
  /\ TTLs \subseteq Nat \ {0}
  /\ MaxTime \in Nat
  /\ MaxGen \in Nat

VARIABLES
  now,        \* Instant::now()
  snapshot,   \* the snapshot behind the ArcSwap
  readiness,  \* the value of the readiness watch channel
  bloom,      \* bits set in the filter
  baseline    \* tokens revoked at the Authority when the stream that made
              \* revocation_ready true opened, less the ones purged by then
              \* (history of readiness)

stateVars == <<now, snapshot, readiness, bloom, baseline>>

Snapshot == [gen : Nat, deadline : Nat]

ReadinessState ==
  [policy_bundle_ready : BOOLEAN, policy_bundle_fresh : BOOLEAN,
   revocation_ready : BOOLEAN, run_rejected : BOOLEAN]

StateTypeOK ==
  /\ now \in Nat
  /\ snapshot \in Snapshot
  /\ readiness \in ReadinessState
  /\ bloom \in SUBSET Bits
  /\ baseline \in SUBSET Tokens

StateInit ==
  /\ now = 0
  /\ snapshot = [gen |-> 0, deadline |-> 0]
  /\ readiness = [policy_bundle_ready |-> FALSE, policy_bundle_fresh |-> FALSE,
                  revocation_ready |-> FALSE, run_rejected |-> FALSE]
  /\ bloom = {}
  /\ baseline = {}

-----------------------------------------------------------------------------
(* Reads *)

is_fresh(snap) == now < snap.deadline

fully_ready(r) ==
  ~r.run_rejected /\ r.policy_bundle_ready /\ r.revocation_ready

serving(r) == fully_ready(r) /\ r.policy_bundle_fresh

is_revoked(t) == Hash[t] \subseteq bloom

-----------------------------------------------------------------------------
(* Writes *)

Tick ==
  /\ now < MaxTime
  /\ now' = now + 1
  /\ UNCHANGED <<snapshot, readiness, bloom, baseline>>

swap_snapshot(ttl) ==
  /\ snapshot.gen < MaxGen
  /\ snapshot' = [gen |-> snapshot.gen + 1, deadline |-> now + ttl]
  /\ UNCHANGED <<now, readiness, bloom, baseline>>

\* Mutant: a swap that raced with the rejection of the run wins.
Bug_SwapAfterRejection ==
  /\ readiness' = [readiness EXCEPT !.policy_bundle_ready = TRUE,
                                    !.policy_bundle_fresh = TRUE]
  /\ UNCHANGED <<now, snapshot, bloom, baseline>>

mark_policy_bundle_swapped ==
  /\ readiness' = IF readiness.run_rejected THEN readiness
                  ELSE [readiness EXCEPT !.policy_bundle_ready = TRUE,
                                         !.policy_bundle_fresh = TRUE]
  /\ UNCHANGED <<now, snapshot, bloom, baseline>>

refresh_policy_bundle_freshness ==
  /\ readiness' = [readiness EXCEPT
       !.policy_bundle_fresh = ~readiness.run_rejected /\ is_fresh(snapshot)]
  /\ UNCHANGED <<now, snapshot, bloom, baseline>>

reject_run ==
  /\ readiness' = [readiness EXCEPT !.run_rejected = TRUE,
                                    !.policy_bundle_ready = FALSE,
                                    !.policy_bundle_fresh = FALSE]
  /\ UNCHANGED <<now, snapshot, bloom, baseline>>

set_revocation_ready(ready, base) ==
  /\ readiness' = [readiness EXCEPT !.revocation_ready = ready]
  /\ baseline' = base
  /\ UNCHANGED <<now, snapshot, bloom>>

\* One fetch_or of AtomicBloom::insert.
set_bit(b) ==
  /\ bloom' = bloom \cup {b}
  /\ UNCHANGED <<now, snapshot, readiness, baseline>>

-----------------------------------------------------------------------------
(* The contract: a bundle is marked only once one is published, and        *)
(* revocations become ready only when the filter holds a whole baseline.   *)
StateNext ==
  \/ Tick
  \/ \E ttl \in TTLs : swap_snapshot(ttl)
  \/ snapshot.gen > 0 /\ mark_policy_bundle_swapped
  \/ snapshot.gen > 0 /\ refresh_policy_bundle_freshness
  \/ reject_run
  \/ set_revocation_ready(FALSE, baseline)
  \/ \E base \in SUBSET Tokens :
       /\ \A t \in base : is_revoked(t)
       /\ set_revocation_ready(TRUE, base)
  \/ \E b \in Bits : set_bit(b)

StateSpec == StateInit /\ [][StateNext]_stateVars
=============================================================================
