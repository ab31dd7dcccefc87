------------------------------ MODULE AuditWal ------------------------------
(***************************************************************************)
(* The write-ahead audit sink: WalAuditSink::run and replay (wal/mod.rs),  *)
(* its journal (wal/journal.rs) and the submission client (submission.rs), *)
(* over crashes, restarts for another run, torn writes and a collector     *)
(* whose answers may be lost.                                              *)
(***************************************************************************)
EXTENDS JsonLog

CONSTANTS
  Runs,         \* runs that use this journal, one after the other
  NoRun,        \* the journal has no scope yet
  MaxRecords,   \* capacity of the journal (max_bytes), in records
  REPLAY_LIMIT, \* records handled by one replay
  MaxCrashes    \* bound: crashes and failures

ASSUME WalAssumption ==
  /\ NoRun \notin Runs
  /\ MaxRecords \in Nat
  /\ REPLAY_LIMIT \in Nat \ {0}
  /\ MaxCrashes \in Nat

VARIABLES
  at,         \* control state of the sink; "down": no process
  mode,       \* the sink selects, drains after exit, or replays for the last time
  run,        \* the run of the process's credential
  exit,       \* the exit token is cancelled
  closed,     \* the signing adapter has dropped its sender
  channel,    \* events the signing adapter has sent
  cur,        \* the record being appended or archived
  file,       \* the journal file
  archive,    \* the .rejected.jsonl file
  scope,      \* the run named by the .scope file
  records,    \* Journal::records, the journal as the process holds it
  consumed,   \* records handled by the current replay
  receipts,   \* <<event, run>> committed by the collector
  sender,     \* sender[e]: the run that sent e (history)
  journaled,  \* events whose append returned (history)
  crashes

vars == <<at, mode, run, exit, closed, channel, cur, file, archive, scope, records, consumed,
          receipts, sender, journaled, crashes>>
ends == <<run, exit, closed, channel>>
proc == <<mode, ends, cur, records, consumed>>
store == <<file, archive, scope>>
world == <<receipts, sender, journaled, crashes>>

TypeOK ==
  /\ at \in {"down", "loop", "appending", "replaying", "archiving",
             "reclaiming", "failed", "returned"}
  /\ mode \in {"select", "drain", "last"}
  /\ run \in Runs \cup {NoRun}
  /\ exit \in BOOLEAN /\ closed \in BOOLEAN
  /\ channel \in Seq(Events)
  /\ cur \in Records
  /\ file \in Log /\ archive \in Log
  /\ scope \in Runs \cup {NoRun}
  /\ records \in Seq(Records)
  /\ consumed \in 0..Len(records)
  /\ receipts \in SUBSET (Events \X Runs)
  /\ sender \in [Events -> Runs \cup {NoRun}]
  /\ journaled \in SUBSET Events
  /\ crashes \in Nat

Init ==
  /\ at = "down" /\ mode = "select" /\ run = NoRun
  /\ exit = FALSE /\ closed = FALSE
  /\ channel = <<>> /\ cur = Garbage
  /\ file = EmptyLog /\ archive = EmptyLog /\ scope = NoRun
  /\ records = <<>> /\ consumed = 0
  /\ receipts = {} /\ sender = [e \in Events |-> NoRun]
  /\ journaled = {} /\ crashes = 0

-----------------------------------------------------------------------------
(* Files *)

\* Mutant: a torn record is left as it is.
Bug_TailNotRepaired(log) == log

repair_tail(log) == [log EXCEPT !.open = FALSE]

\* What an append that did not reach its sync may leave.
Partial(log, r) ==
  LET l == repair_tail(log)
  IN  {log, l, write_record(l, r)} \cup TornWrite(l, r)

Reclaimed == [recs |-> SubSeq(records, consumed + 1, Len(records)),
              open |-> FALSE]

-----------------------------------------------------------------------------
(* Journal::open *)

\* Mutant: the run of the stored scope is not compared.
Bug_ScopeWithoutRun(r) == TRUE

\* Whether the stored scope lets run r use the file.
ScopeAdmits(r) == scope = r \/ file.recs = <<>>

Open(r) ==
  /\ at = "down"
  /\ run' = r
  /\ mode' = "select" /\ exit' = FALSE /\ closed' = FALSE
  /\ channel' = <<>> /\ cur' = Garbage /\ consumed' = 0
  /\ IF ScopeAdmits(r)
     THEN /\ scope' = r
          /\ file' = repair_tail(file)
          /\ records' = file.recs
          /\ at' = IF Len(file.recs) > MaxRecords THEN "failed" ELSE "loop"
     ELSE /\ at' = "failed"
          /\ records' = <<>>
          /\ UNCHANGED <<file, scope>>
  /\ UNCHANGED <<archive, world>>

-----------------------------------------------------------------------------
(* WalAuditSink::run *)

Serving == at \notin {"down", "failed", "returned"}

\* The signing adapter sends until it drops its sender.
Send(e) ==
  /\ Serving
  /\ ~closed
  /\ sender[e] = NoRun
  /\ sender' = [sender EXCEPT ![e] = run]
  /\ channel' = Append(channel, e)
  /\ UNCHANGED <<at, mode, run, exit, closed, cur, records, consumed, store,
                 receipts, journaled, crashes>>

Close ==
  /\ Serving
  /\ ~closed
  /\ closed' = TRUE
  /\ UNCHANGED <<at, mode, run, exit, channel, cur, records, consumed, store,
                 world>>

Exit ==
  /\ Serving
  /\ ~exit
  /\ exit' = TRUE
  /\ UNCHANGED <<at, mode, run, closed, channel, cur, records, consumed, store,
                 world>>

\* The select saw the cancelled token: from now on the channel is drained
\* and nothing is replayed.
Drain ==
  /\ at = "loop"
  /\ mode = "select"
  /\ exit
  /\ mode' = "drain"
  /\ UNCHANGED <<at, ends, cur, records, consumed, store, world>>

\* An event of the channel, also while draining.
AppendBegin ==
  /\ at = "loop"
  /\ mode # "last"
  /\ channel # <<>>
  /\ cur' = Head(channel)
  /\ channel' = Tail(channel)
  /\ at' = IF Len(records) + 1 > MaxRecords THEN "failed" ELSE "appending"
  /\ UNCHANGED <<mode, run, exit, closed, records, consumed, store, world>>

AppendSynced ==
  /\ at = "appending"
  /\ file' = write_record(repair_tail(file), cur)
  /\ records' = Append(records, cur)
  /\ journaled' = journaled \cup {cur}
  /\ at' = "loop"
  /\ UNCHANGED <<mode, ends, cur, consumed, archive, scope, receipts,
                 sender, crashes>>

\* The channel is drained and closed, and the last replay made if one was due.
Returned ==
  /\ at = "loop"
  /\ mode # "select"
  /\ closed
  /\ channel = <<>>
  /\ at' = "returned"
  /\ UNCHANGED <<proc, store, world>>

-----------------------------------------------------------------------------
(* replay *)

\* The retry timer ticks.
ReplayBegin ==
  /\ at = "loop"
  /\ mode = "select"
  /\ at' = "replaying"
  /\ consumed' = 0
  /\ UNCHANGED <<mode, ends, cur, records, store, world>>

\* The channel is closed: one more replay.
ReplayLast ==
  /\ at = "loop"
  /\ mode = "select"
  /\ closed
  /\ channel = <<>>
  /\ mode' = "last"
  /\ at' = "replaying"
  /\ consumed' = 0
  /\ UNCHANGED <<ends, cur, records, store, world>>

\* The record the replay looks at, when it goes on.
Looking ==
  /\ at = "replaying"
  /\ ~exit
  /\ consumed < Len(records)
  /\ consumed < REPLAY_LIMIT

Record == records[consumed + 1]

ReplayEnd ==
  /\ at = "replaying"
  /\ ~Looking
  /\ at' = IF consumed = 0 THEN "loop" ELSE "reclaiming"
  /\ UNCHANGED <<proc, store, world>>

Malformed ==
  /\ Looking
  /\ Record = Garbage
  /\ cur' = Record
  /\ at' = "archiving"
  /\ UNCHANGED <<mode, ends, records, consumed, store, world>>

\* A matching receipt.
Persisted ==
  /\ Looking
  /\ Record \in Events
  /\ receipts' = receipts \cup {<<Record, run>>}
  /\ consumed' = consumed + 1
  /\ UNCHANGED <<at, mode, ends, cur, records, store, sender,
                 journaled, crashes>>

\* The collector answered invalid_argument.
Rejected ==
  /\ Looking
  /\ Record \in Events
  /\ cur' = Record
  /\ at' = "archiving"
  /\ UNCHANGED <<mode, ends, records, consumed, store, world>>

\* Mutant: an unacknowledged record counts as handled.
Bug_RetryConsumes(committed) ==
  /\ Looking
  /\ Record \in Events
  /\ receipts' = IF committed THEN receipts \cup {<<Record, run>>} ELSE receipts
  /\ consumed' = consumed + 1
  /\ at' = "reclaiming"
  /\ UNCHANGED <<mode, ends, cur, records, store, sender, journaled, crashes>>

\* No usable answer; the collector may have committed the event.
Retry(committed) ==
  /\ Looking
  /\ Record \in Events
  /\ receipts' = IF committed THEN receipts \cup {<<Record, run>>} ELSE receipts
  /\ at' = IF consumed = 0 THEN "loop" ELSE "reclaiming"
  /\ UNCHANGED <<proc, store, sender, journaled, crashes>>

\* The Authority rejected the run: the rejection cancels exit.
RunRejected ==
  /\ Looking
  /\ Record \in Events
  /\ exit' = TRUE
  /\ at' = IF consumed = 0 THEN "loop" ELSE "reclaiming"
  /\ UNCHANGED <<mode, run, closed, channel, cur, records, consumed, store,
                 world>>

\* Mutant: a rejected record is not archived and stays at the head of the queue.
Bug_RejectedBlocks ==
  /\ at = "archiving"
  /\ archive' = repair_tail(archive)
  /\ at' = IF consumed = 0 THEN "loop" ELSE "reclaiming"
  /\ UNCHANGED <<proc, file, scope, world>>

\* Journal::reject returned: the archive holds the record.
ArchiveSynced ==
  /\ at = "archiving"
  /\ archive' = write_record(repair_tail(archive), cur)
  /\ consumed' = consumed + 1
  /\ at' = "replaying"
  /\ UNCHANGED <<mode, ends, cur, records, file, scope, world>>

\* Mutant: the records stay in memory.
Bug_ReclaimKeepsRecords ==
  /\ at = "reclaiming"
  /\ file' = Reclaimed
  /\ consumed' = 0
  /\ at' = "loop"
  /\ UNCHANGED <<mode, ends, cur, records, archive, scope, world>>

\* Journal::reclaim returned.
ReclaimSynced ==
  /\ at = "reclaiming"
  /\ file' = Reclaimed
  /\ records' = Reclaimed.recs
  /\ consumed' = 0
  /\ at' = "loop"
  /\ UNCHANGED <<mode, ends, cur, archive, scope, world>>

-----------------------------------------------------------------------------
(* Faults *)

\* What an interrupted operation leaves on disk.
Interrupted ==
  /\ CASE at = "appending" -> file' \in Partial(file, cur) /\ UNCHANGED archive
       [] at = "archiving" -> archive' \in Partial(archive, cur) /\ UNCHANGED file
       [] at = "reclaiming" -> file' \in {file, Reclaimed} /\ UNCHANGED archive
       [] OTHER -> UNCHANGED <<file, archive>>
  /\ UNCHANGED scope

\* The file system returns an error and the sink ends with it.
IOError ==
  /\ at \in {"appending", "archiving", "reclaiming"}
  /\ crashes < MaxCrashes
  /\ crashes' = crashes + 1
  /\ Interrupted
  /\ at' = "failed"
  /\ UNCHANGED <<proc, receipts, sender, journaled>>

\* The process dies.
Crash ==
  /\ Serving
  /\ crashes < MaxCrashes
  /\ crashes' = crashes + 1
  /\ Interrupted
  /\ at' = "down"
  /\ UNCHANGED <<proc, receipts, sender, journaled>>

\* The process ends after the sink did.
ProcessEnd ==
  /\ at \in {"failed", "returned"}
  /\ at' = "down"
  /\ UNCHANGED <<proc, store, world>>

-----------------------------------------------------------------------------
Sink ==
  \/ Drain
  \/ AppendBegin
  \/ AppendSynced
  \/ Returned
  \/ ReplayBegin
  \/ ReplayLast
  \/ ReplayEnd
  \/ Malformed
  \/ Persisted
  \/ Rejected
  \/ \E committed \in BOOLEAN : Retry(committed)
  \/ RunRejected
  \/ ArchiveSynced
  \/ ReclaimSynced

Next ==
  \/ \E r \in Runs : Open(r)
  \/ \E e \in Events : Send(e)
  \/ Close
  \/ Exit
  \/ Sink
  \/ IOError
  \/ Crash
  \/ ProcessEnd

Spec == Init /\ [][Next]_vars

\* The sink's task keeps running; its select polls the channel and the timer
\* in random order; the collector does not stay without an answer forever.
FairSpec ==
  /\ Spec
  /\ WF_vars(Sink)
  /\ SF_vars(AppendBegin)
  /\ SF_vars(ReplayBegin)
  /\ SF_vars(Persisted \/ Rejected)

-----------------------------------------------------------------------------
(* Properties *)

\* Which events of the journal are ahead of which.
Ahead(recs) ==
  {p \in Events \X Events :
     \E i, j \in DOMAIN recs : i < j /\ recs[i] = p[1] /\ recs[j] = p[2]}

Collected == {e \in Events : \E r \in Runs : <<e, r>> \in receipts}

\* Events that entered the journal: the ones still in it, and the ones that
\* left it or were sent on from it.
Accepted == journaled \cup InLog(file) \cup InLog(archive) \cup Collected

Queue == INSTANCE AuditQueue WITH
  kept <- InLog(file), before <- Ahead(file.recs), accepted <- Accepted,
  collected <- Collected, archived <- InLog(archive)

\* The sink, its crashes and failures included, implements the queue that
\* audit/mod.rs:24-26 promises: an event leaves it only when it is settled.
ImplementsQueue == Queue!QueueSpec

\* Whatever crashes and torn writes happened since, an event whose append
\* returned is in the journal, in the archive or with the collector.
JournaledNeverLost == journaled \subseteq InLog(file) \cup InLog(archive) \cup Collected

\* "a journal left by another run must not go out under this one"
\* (journal.rs:19-20): events are delivered under the run that sent them.
DeliveredUnderItsRun == \A p \in receipts : sender[p[1]] = p[2]

\* "an invalid event cannot prevent delivery of the next" (wal/mod.rs:3-5):
\* while the sink keeps serving, an event that is sent, or was left in the
\* journal, is settled whatever torn or rejected records are before it.
PendingIsSettled ==
  \A e \in Events :
    e \in ToSet(channel) \cup InLog(file) ~>
      e \in Collected \cup InLog(archive) \/ exit \/ closed \/ ~Serving

\* The queue the process holds is the one on disk whenever it is used to
\* deliver or to reclaim (journal.rs:118-182).
MemoryMatchesDisk ==
  at \in {"loop", "appending", "replaying", "archiving", "reclaiming"} =>
    records = file.recs /\ scope = run
=============================================================================
