----------------------------- MODULE AuditQueue -----------------------------
(***************************************************************************)
(* What the write-ahead audit sink promises (audit/sink/wal/mod.rs:1-5,    *)
(* audit/mod.rs:24-26): a queue from which an event leaves only once the   *)
(* collector has committed it or it is archived, in order, across crashes. *)
(* Events may be committed or archived more than once.                     *)
(***************************************************************************)
EXTENDS Naturals

CONSTANT Events

VARIABLES
  kept,       \* events in the queue
  before,     \* <<d, e>>: d is ahead of e in the queue
  accepted,   \* events that ever entered it
  collected,  \* events the collector has committed
  archived    \* events in the rejection archive

queueVars == <<kept, before, accepted, collected, archived>>

QueueInit ==
  /\ kept = {} /\ before = {}
  /\ accepted = {} /\ collected = {} /\ archived = {}

Settled == collected \cup archived

\* An event may be settled once the events ahead of it are.
Turn(e) ==
  /\ e \in kept
  /\ \A d \in kept : <<d, e>> \in before => d \in Settled

\* An event enters once, behind everything that is in the queue.
Accept(e) ==
  /\ e \notin accepted
  /\ kept' = kept \cup {e}
  /\ before' = before \cup (kept \X {e})
  /\ accepted' = accepted \cup {e}
  /\ UNCHANGED <<collected, archived>>

Collect(e) ==
  /\ Turn(e)
  /\ collected' = collected \cup {e}
  /\ UNCHANGED <<kept, before, accepted, archived>>

Archive(e) ==
  /\ Turn(e)
  /\ archived' = archived \cup {e}
  /\ UNCHANGED <<kept, before, accepted, collected>>

\* Settled events leave the queue from its front.
Reclaim(gone) ==
  /\ gone \subseteq Settled
  /\ \A d \in kept, e \in gone : <<d, e>> \in before => d \in gone
  /\ kept' = kept \ gone
  /\ before' = before \cap (kept' \X kept')
  /\ UNCHANGED <<accepted, collected, archived>>

QueueNext ==
  \/ \E e \in Events : Accept(e) \/ Collect(e) \/ Archive(e)
  \/ \E gone \in SUBSET kept : Reclaim(gone)

QueueSpec == QueueInit /\ [][QueueNext]_queueVars
=============================================================================
