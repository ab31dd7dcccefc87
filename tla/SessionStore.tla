---------------------------- MODULE SessionStore ----------------------------
(***************************************************************************)
(* The persistent session-state store (enforcement/session/): per-session  *)
(* counters, outcome history and provenance anchor in an LRU cache, and a  *)
(* log that every operation appends the whole record to and that a restart *)
(* replays.  Every operation runs under one mutex, its append included.    *)
(* The in-memory backend is the same cache without the log.                *)
(*                                                                         *)
(* Of the log only what a replay reads is kept: the last readable entry of *)
(* each session, with and without a last line that lacks its newline, and  *)
(* whether a line was cut inside a character, after which no replay reads  *)
(* anything.  An anchor is the sequence of actions it hashes.              *)
(***************************************************************************)
EXTENDS Naturals, Sequences, SequencesExt

CONSTANTS
  Sessions,
  None,         \* no log entry
  Capacity,     \* session_state_capacity
  HISTORY_CAP,
  MaxOps,       \* bound: operations
  MaxRestarts   \* bound: restarts

Outcomes == {"Allow", "Deny"}

SessionRecord ==
  [action_count : Nat, deny_count : Nat, history : Seq(Outcomes),
   last_provenance : Seq(Nat)]

ASSUME StoreAssumption ==
  /\ None \notin SessionRecord
  /\ Capacity \in Nat \ {0} /\ HISTORY_CAP \in Nat \ {0}
  /\ MaxOps \in Nat /\ MaxRestarts \in Nat

VARIABLES
  cache,     \* cached sessions, least recently used first
  record,    \* record[s]: the SessionRecord of a cached session
  last,      \* last[s]: last readable log entry of s
  torn,      \* the log's last line lacks its newline
  whole,     \* whole[s]: last readable entry of s before a torn line
  garbled,   \* a line of the log is not UTF-8
  full,      \* full[s]: everything ever recorded for s (history)
  used,      \* sessions that were ever used (history)
  reset,     \* sessions an operation found outside the cache though they had
             \* been used before (history)
  unlogged,  \* sessions whose last append failed or followed a torn line
             \* (history)
  lost,      \* sessions that were unlogged at a restart, or used when a
             \* restart could not read the log (history)
  restarts

log == <<last, torn, whole, garbled>>
storeVars == <<cache, record, log, full, used, reset, unlogged, lost, restarts>>

\* A record as the store keeps it.
Stored == {r \in SessionRecord : Len(r.history) <= HISTORY_CAP}

Fresh == [action_count |-> 0, deny_count |-> 0, history |-> <<>>,
          last_provenance |-> <<>>]

StoreTypeOK ==
  /\ cache \in Seq(Sessions)
  /\ Len(cache) <= Capacity /\ IsInjective(cache)
  /\ record \in [Sessions -> Stored]
  /\ last \in [Sessions -> Stored \cup {None}]
  /\ whole \in [Sessions -> Stored \cup {None}]
  /\ torn \in BOOLEAN /\ garbled \in BOOLEAN
  /\ full \in [Sessions -> SessionRecord]
  /\ used \in SUBSET Sessions
  /\ reset \in SUBSET Sessions
  /\ unlogged \in SUBSET Sessions
  /\ lost \in SUBSET Sessions
  /\ restarts \in Nat

StoreInit ==
  /\ cache = <<>>
  /\ record = [s \in Sessions |-> Fresh] /\ full = record
  /\ last = [s \in Sessions |-> None] /\ whole = last
  /\ torn = FALSE /\ garbled = FALSE
  /\ used = {} /\ reset = {} /\ unlogged = {} /\ lost = {}
  /\ restarts = 0

-----------------------------------------------------------------------------
(* The cache *)

LastOf(seq, n) ==
  IF Len(seq) <= n THEN seq ELSE SubSeq(seq, Len(seq) - n + 1, Len(seq))

\* s moves to the end of seq, where it is at most once.
Touch(seq, s) ==
  IF s \in ToSet(seq)
  THEN Append(RemoveAt(seq, CHOOSE i \in DOMAIN seq : seq[i] = s), s)
  ELSE Append(seq, s)

\* LruCache::get_or_insert_mut: s becomes the most recently used session and
\* the least recently used one is evicted.
get_or_insert(s) == LastOf(Touch(cache, s), Capacity)

\* The record an operation starts from: a session that is not cached is new.
Current(s) == IF s \in ToSet(cache) THEN record[s] ELSE Fresh

-----------------------------------------------------------------------------
(* SessionRecord::push_outcome *)

push_outcome(r, o) ==
  [action_count |-> r.action_count,
   deny_count |-> IF o = "Deny" THEN r.deny_count + 1 ELSE r.deny_count,
   history |-> Append(LastOf(r.history, HISTORY_CAP - 1), o),
   last_provenance |-> r.last_provenance]

-----------------------------------------------------------------------------
(* The operations *)

\* The line of r is written; after a torn line both make one unreadable line.
LogWritten(s, r) ==
  /\ last' = IF torn THEN whole ELSE [last EXCEPT ![s] = r]
  /\ whole' = last'
  /\ torn' = FALSE
  /\ UNCHANGED garbled
  /\ unlogged' = IF torn THEN unlogged \cup {s} ELSE unlogged \ {s}

\* The write fails before the line, after part of it, possibly inside a
\* character, or after all but its newline.
LogFailed(s, r) ==
  /\ \/ UNCHANGED log
     \/ /\ last' = IF torn THEN whole ELSE last
        /\ garbled' \in {garbled, TRUE}
        /\ torn' = TRUE
        /\ UNCHANGED whole
     \/ /\ last' = IF torn THEN whole ELSE [last EXCEPT ![s] = r]
        /\ torn' = TRUE
        /\ UNCHANGED <<whole, garbled>>
  /\ unlogged' = unlogged \cup {s}

\* Mutant: outcomes are not logged.
Bug_OutcomeNotLogged(s, o) ==
  /\ record' = [record EXCEPT ![s] = push_outcome(Current(s), o)]
  /\ cache' = get_or_insert(s)
  /\ full' = [full EXCEPT ![s] =
                [push_outcome(@, o) EXCEPT !.history = Append(full[s].history, o)]]
  /\ UNCHANGED <<log, unlogged>>

\* An operation replaces the record of s by r and logs it; a failed append is
\* reported to the operator and otherwise ignored.
Store(s, r) ==
  /\ record' = [record EXCEPT ![s] = r]
  /\ cache' = get_or_insert(s)
  /\ LogWritten(s, r) \/ LogFailed(s, r)

record_action(s) ==
  /\ Store(s, [Current(s) EXCEPT !.action_count = @ + 1])
  /\ full' = [full EXCEPT ![s].action_count = @ + 1]

record_outcome(s, o) ==
  /\ Store(s, push_outcome(Current(s), o))
  /\ full' = [full EXCEPT ![s] =
                [push_outcome(@, o) EXCEPT !.history = Append(full[s].history, o)]]

\* The anchor of action n of the session.
advance_provenance(s) ==
  LET n == full[s].action_count
  IN  /\ Store(s, [Current(s) EXCEPT !.last_provenance = Append(@, n)])
      /\ full' = [full EXCEPT ![s].last_provenance = Append(@, n)]

Ops(s) ==
  full[s].action_count + Len(full[s].history) + Len(full[s].last_provenance)

Operate(s) ==
  /\ MapThenSumSet(Ops, used) < MaxOps
  /\ \/ record_action(s)
     \/ \E o \in Outcomes : record_outcome(s, o)
     \/ advance_provenance(s)
  /\ used' = used \cup {s}
  /\ reset' = reset \cup ((used \ ToSet(cache)) \cap {s})
  /\ UNCHANGED <<lost, restarts>>

\* PersistentSessionStateStore::open: the replay inserts the sessions of the
\* log in the order of a HashMap, which is any order.
Logged == {s \in Sessions : last[s] # None}

Replayed == {LastOf(order, Capacity) : order \in SetToSeqs(Logged)}

Restart ==
  /\ restarts < MaxRestarts
  /\ ~garbled
  /\ restarts' = restarts + 1
  /\ cache' \in Replayed
  /\ record' = [s \in Sessions |-> IF s \in ToSet(cache') THEN last[s] ELSE Fresh]
  /\ lost' = lost \cup unlogged
  /\ UNCHANGED <<log, full, used, reset, unlogged>>

\* The replay fails at the line that is not UTF-8: the store starts empty and
\* goes on appending to the log.
RestartUnread ==
  /\ restarts < MaxRestarts
  /\ garbled
  /\ restarts' = restarts + 1
  /\ cache' = <<>>
  /\ record' = [s \in Sessions |-> Fresh]
  /\ lost' = lost \cup used
  /\ UNCHANGED <<log, full, used, reset, unlogged>>

StoreNext ==
  \/ Restart
  \/ RestartUnread
  \/ \E s \in Sessions : Operate(s)

StoreSpec == StoreInit /\ [][StoreNext]_storeVars

-----------------------------------------------------------------------------
(* Properties *)

\* A record with its history cut to the last HISTORY_CAP outcomes.
Cut(r) == [r EXCEPT !.history = LastOf(@, HISTORY_CAP)]

\* The store has everything recorded for s: in the cache, or, once s was
\* evicted, in the log, where a restart finds it.
Remembered(s) ==
  IF s \in ToSet(cache) THEN record[s] = Cut(full[s])
                        ELSE s \in unlogged \/ last[s] = Cut(full[s])

\* The store remembers every session across evictions and restarts, unless the
\* session was used again while it was not cached, its own last append before a
\* restart failed or was written behind a torn line, or a torn line had made
\* the log unreadable (persistent.rs:79-81): short of that, no failed append of
\* one session, and no append after it, costs another session anything.
StateKept == \A s \in used \ (lost \cup reset) : Remembered(s)
=============================================================================
