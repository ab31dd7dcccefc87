--------------------------- MODULE AuditWalProofs ---------------------------
(***************************************************************************)
(* The write-ahead sink keeps what it journaled, delivers it under the run *)
(* that sent it and implements the queue of AuditQueue, for every number   *)
(* of events, runs, crashes and every capacity of the journal.             *)
(***************************************************************************)
EXTENDS AuditWal, SequenceTheorems, TLAPS

\* While it serves, the sink holds a repaired file that belongs to its run.
ServingInv ==
  Serving => run # NoRun /\ ~file.open

\* The records a replay has handled are settled, and the one being archived
\* is the next of the queue.
HandledInv ==
  /\ at \in {"replaying", "archiving", "reclaiming"} =>
       \A i \in 1..consumed :
         records[i] \in Events => records[i] \in Collected \cup InLog(archive)
  /\ at = "archiving" => consumed < Len(records) /\ cur = records[consumed + 1]

\* Events are with the run that sent them at every stage of their way.
OwnedInv ==
  /\ \A e \in InLog(file) : sender[e] = scope /\ scope # NoRun
  /\ Serving => \A e \in ToSet(channel) : sender[e] = run
  /\ at = "appending" => cur \in Events /\ sender[cur] = run

WalInv ==
  /\ TypeOK
  /\ MemoryMatchesDisk
  /\ ServingInv
  /\ HandledInv
  /\ OwnedInv
  /\ JournaledNeverLost
  /\ DeliveredUnderItsRun

-----------------------------------------------------------------------------
(* The files *)

LEMMA AppendSet ==
  ASSUME NEW S, NEW s \in Seq(S), NEW r \in S
  PROVE  /\ Append(s, r) \in Seq(S)
         /\ ToSet(Append(s, r)) = ToSet(s) \cup {r}
BY AppendProperties DEF ToSet

LEMMA InLogOfAppend ==
  ASSUME NEW s \in Seq(Records), NEW r \in Records, NEW b \in BOOLEAN
  PROVE  /\ [recs |-> Append(s, r), open |-> b] \in Log
         /\ InLog([recs |-> Append(s, r), open |-> b])
              = (ToSet(s) \cap Events) \cup ({r} \cap Events)
<1>1. Append(s, r) \in Seq(Records) /\ ToSet(Append(s, r)) = ToSet(s) \cup {r}
  BY AppendSet
<1>2. QED
  BY <1>1 DEF Log, InLog

\* A record is appended after a record boundary: nothing in the file is lost.
LEMMA WriteKeeps ==
  ASSUME NEW log \in Log, NEW r \in Records
  PROVE  /\ write_record(repair_tail(log), r)
              = [recs |-> Append(log.recs, r), open |-> FALSE]
         /\ write_record(repair_tail(log), r) \in Log
         /\ InLog(write_record(repair_tail(log), r))
              = InLog(log) \cup ({r} \cap Events)
<1>1. log.recs \in Seq(Records)
  BY DEF Log
<1>2. /\ repair_tail(log).open = FALSE
      /\ repair_tail(log).recs = log.recs
  BY DEF Log, repair_tail
<1>3. write_record(repair_tail(log), r)
        = [recs |-> Append(log.recs, r), open |-> FALSE]
  BY <1>2 DEF write_record
<1>4. QED
  BY <1>1, <1>3, InLogOfAppend DEF InLog

\* So does an append that was interrupted.
LEMMA PartialKeeps ==
  ASSUME NEW log \in Log, NEW r \in Records, NEW l \in Partial(log, r)
  PROVE  /\ l \in Log
         /\ InLog(log) \subseteq InLog(l)
         /\ InLog(l) \subseteq InLog(log) \cup ({r} \cap Events)
<1> DEFINE m == repair_tail(log)
<1>1. m \in Log /\ m.recs = log.recs
  BY DEF Log, repair_tail
<1>1a. ~m.open
  BY DEF Log, repair_tail
<1>2. InLog(m) = InLog(log)
  BY <1>1 DEF InLog
<1>3. Garbage \in Records /\ {Garbage} \cap Events = {}
  BY LogAssumption, WalAssumption DEF Records
<1>4. /\ write_record(m, r) \in Log
      /\ InLog(write_record(m, r)) = InLog(log) \cup ({r} \cap Events)
  BY WriteKeeps
<1>5. /\ [recs |-> Append(m.recs, r), open |-> TRUE] \in Log
      /\ InLog([recs |-> Append(m.recs, r), open |-> TRUE])
           = InLog(log) \cup ({r} \cap Events)
  BY <1>1, InLogOfAppend DEF Log, InLog
<1>6. /\ [recs |-> Append(m.recs, Garbage), open |-> TRUE] \in Log
      /\ InLog([recs |-> Append(m.recs, Garbage), open |-> TRUE]) = InLog(log)
  BY <1>1, <1>3, InLogOfAppend DEF Log, InLog
<1>7. l \in {log, m, write_record(m, r),
             [recs |-> Append(m.recs, r), open |-> TRUE],
             [recs |-> Append(m.recs, Garbage), open |-> TRUE]}
  BY <1>1a DEF Partial, TornWrite
<1>8. QED
  BY <1>1, <1>2, <1>4, <1>5, <1>6, <1>7

\* Reclaiming keeps exactly the records after the handled ones.
LEMMA ReclaimedKeeps ==
  ASSUME records \in Seq(Records), consumed \in 0..Len(records)
  PROVE  /\ Reclaimed \in Log
         /\ ToSet(Reclaimed.recs) \subseteq ToSet(records)
         /\ \A i \in (consumed + 1)..Len(records) :
              records[i] \in ToSet(Reclaimed.recs)
<1> DEFINE t == SubSeq(records, consumed + 1, Len(records))
<1>1. consumed \in Nat /\ Len(records) \in Nat /\ consumed <= Len(records)
  BY LenProperties
<1>2. /\ t \in Seq(Records)
      /\ Len(t) = Len(records) - consumed
      /\ \A i \in 1..Len(t) : t[i] = records[consumed + i]
  BY <1>1
<1>3. ToSet(t) \subseteq ToSet(records)
  BY <1>1, <1>2, LenProperties DEF ToSet
<1>4. ASSUME NEW i \in (consumed + 1)..Len(records)
      PROVE  records[i] \in ToSet(t)
  <2>1. i - consumed \in 1..Len(t) /\ t[i - consumed] = records[i]
    BY <1>1, <1>2
  <2>2. QED
    BY <1>2, <2>1, LenProperties DEF ToSet
<1>5. Reclaimed.recs = t /\ Reclaimed \in Log
  BY <1>2 DEF Reclaimed, Log
<1>6. QED
  BY <1>3, <1>4, <1>5

-----------------------------------------------------------------------------
(* The invariant *)

LEMMA WalInit == Init => WalInv
<1> SUFFICES ASSUME Init PROVE WalInv
  OBVIOUS
<1> USE WalAssumption DEF Init
<1>1. EmptyLog \in Log /\ InLog(EmptyLog) = {}
  BY DEF EmptyLog, Log, InLog, ToSet
<1>2. TypeOK
  <2>1. exit \in BOOLEAN /\ closed \in BOOLEAN
    BY Zenon
  <2>2. Len(records) = 0 /\ records \in Seq(Records) /\ channel \in Seq(Events)
    OBVIOUS
  <2>3. QED
    BY <1>1, <2>1, <2>2 DEF TypeOK, Records
<1>3. Collected = {}
  BY DEF Collected
<1>4. QED
  BY <1>1, <1>2, <1>3 DEF WalInv, MemoryMatchesDisk, ServingInv, Serving,
     HandledInv, OwnedInv, JournaledNeverLost, DeliveredUnderItsRun

\* The parts of the invariant that speak of state the step leaves alone.
LEMMA FilesUnchanged ==
  ASSUME file' = file, archive' = archive
  PROVE  InLog(file)' = InLog(file) /\ InLog(archive)' = InLog(archive)
BY DEF InLog

LEMMA ReceiptsUnchanged ==
  ASSUME receipts' = receipts
  PROVE  Collected' = Collected
BY DEF Collected

\* Steps of the sink that only move its control, and the replay's count.
LEMMA ControlStep ==
  ASSUME WalInv,
         \/ Drain \/ Returned \/ ReplayBegin \/ ReplayLast \/ ReplayEnd
         \/ Malformed \/ Rejected \/ RunRejected \/ Close \/ Exit \/ ProcessEnd
  PROVE  WalInv'
<1> USE DEF WalInv
<1>1. UNCHANGED <<run, channel, records, file, archive, scope, world>>
  BY DEF Drain, Returned, ReplayBegin, ReplayLast, ReplayEnd, Malformed,
     Rejected, RunRejected, Close, Exit, ProcessEnd, proc, ends, store
<1> USE DEF world
<1>2. InLog(file)' = InLog(file) /\ InLog(archive)' = InLog(archive) /\ Collected' = Collected
  BY <1>1, FilesUnchanged, ReceiptsUnchanged
<1>3. consumed' = consumed \/ consumed' = 0
  BY DEF Drain, Returned, ReplayBegin, ReplayLast, ReplayEnd, Malformed,
     Rejected, RunRejected, Close, Exit, ProcessEnd, proc, ends, store
<1>4. TypeOK'
  <2>1. Len(records) \in Nat
    BY DEF TypeOK
  <2>2. Looking => Record \in Records
    BY <2>1 DEF TypeOK, Looking, Record
  <2>3. exit' \in BOOLEAN /\ closed' \in BOOLEAN
    BY Zenon DEF TypeOK, Drain, Returned, ReplayBegin, ReplayLast, ReplayEnd,
       Malformed, Rejected, RunRejected, Close, Exit, ProcessEnd, proc, ends
  <2>4. cur' \in Records
    BY <2>2 DEF TypeOK, Drain, Returned, ReplayBegin, ReplayLast, ReplayEnd,
       Malformed, Rejected, RunRejected, Close, Exit, ProcessEnd, proc, ends
  <2>5. /\ at' \in {"down", "loop", "appending", "replaying", "archiving",
                     "reclaiming", "failed", "returned"}
        /\ mode' \in {"select", "drain", "last"}
    BY DEF TypeOK, Drain, Returned, ReplayBegin, ReplayLast, ReplayEnd,
       Malformed, Rejected, RunRejected, Close, Exit, ProcessEnd, proc, ends
  <2>6. consumed' \in 0..Len(records')
    BY <1>1, <1>3, <2>1 DEF TypeOK
  <2>7. QED
    BY <1>1, <2>3, <2>4, <2>5, <2>6 DEF TypeOK
<1>5. at' \notin {"down", "failed", "returned"} => Serving
  BY DEF Serving, Drain, Returned, ReplayBegin, ReplayLast, ReplayEnd,
     Malformed, Rejected, RunRejected, Close, Exit, ProcessEnd, Looking
<1>6. MemoryMatchesDisk' /\ ServingInv'
  BY <1>1, <1>5 DEF MemoryMatchesDisk, ServingInv, Serving, TypeOK
<1>7. HandledInv'
  BY <1>1, <1>2, <1>3 DEF HandledInv, TypeOK, Drain, Returned, ReplayBegin,
     ReplayLast, ReplayEnd, Malformed, Rejected, RunRejected, Close, Exit,
     ProcessEnd, Looking, Record, proc, ends
<1>8. OwnedInv'
  <2>1. at' = "appending" => at = "appending" /\ cur' = cur
    BY DEF Drain, Returned, ReplayBegin, ReplayLast, ReplayEnd, Malformed,
       Rejected, RunRejected, Close, Exit, ProcessEnd, Looking, proc, ends
  <2>2. QED
    BY <1>1, <1>2, <1>5, <2>1 DEF OwnedInv, Serving
<1>9. JournaledNeverLost' /\ DeliveredUnderItsRun'
  BY <1>1, <1>2 DEF JournaledNeverLost, DeliveredUnderItsRun
<1>10. QED
  BY <1>4, <1>6, <1>7, <1>8, <1>9

LEMMA OpenStep ==
  ASSUME WalInv, NEW r \in Runs, Open(r)
  PROVE  WalInv'
<1> USE DEF WalInv
<1>1. UNCHANGED <<archive, receipts, sender, journaled, crashes>>
  BY DEF Open, world
<1>2. InLog(archive)' = InLog(archive) /\ Collected' = Collected
  BY <1>1, ReceiptsUnchanged DEF InLog
<1>3. file' \in Log /\ file'.recs = file.recs
  BY DEF Open, repair_tail, TypeOK, Log
<1>4. InLog(file)' = InLog(file)
  BY <1>3 DEF InLog
<1>5. r # NoRun /\ Garbage \in Records
  BY LogAssumption, WalAssumption DEF Records
<1>6. TypeOK'
  <2>1. exit' \in BOOLEAN /\ closed' \in BOOLEAN
    BY Zenon DEF Open
  <2>2. records' \in Seq(Records) /\ 0 \in 0..Len(records')
    <3>1. records' \in {file.recs, <<>>}
      BY DEF Open
    <3>2. file.recs \in Seq(Records) /\ <<>> \in Seq(Records)
      BY DEF TypeOK, Log
    <3>3. records' \in Seq(Records)
      BY <3>1, <3>2, Zenon
    <3>4. Len(records') \in Nat
      BY <3>3, LenProperties
    <3>5. QED
      BY <3>3, <3>4
  <2>3. /\ at' \in {"loop", "failed"} /\ mode' = "select" /\ run' = r
        /\ scope' \in {r, scope} /\ channel' = <<>> /\ cur' = Garbage
        /\ consumed' = 0
    BY DEF Open
  <2>4. <<>> \in Seq(Events)
    OBVIOUS
  <2>5. QED
    BY <1>1, <1>3, <1>5, <2>1, <2>2, <2>3, <2>4 DEF TypeOK
<1>7. MemoryMatchesDisk' /\ ServingInv'
  BY <1>3, <1>5 DEF Open, MemoryMatchesDisk, ServingInv, Serving, repair_tail,
     TypeOK, Log
<1>8. HandledInv'
  BY DEF Open, HandledInv
<1>9. OwnedInv'
  <2>1. ScopeAdmits(r) => scope = r \/ InLog(file) = {}
    BY DEF ScopeAdmits, InLog, ToSet
  <2>2. \A e \in InLog(file)' : sender'[e] = scope' /\ scope' # NoRun
    BY <1>1, <1>4, <1>5, <2>1 DEF Open, OwnedInv
  <2>3. ToSet(channel') = {} /\ at' # "appending"
    BY DEF Open, ToSet
  <2>4. QED
    BY <2>2, <2>3 DEF OwnedInv
<1>10. JournaledNeverLost' /\ DeliveredUnderItsRun'
  BY <1>1, <1>2, <1>4 DEF JournaledNeverLost, DeliveredUnderItsRun
<1>11. QED
  BY <1>6, <1>7, <1>8, <1>9, <1>10

LEMMA SendStep ==
  ASSUME WalInv, NEW e \in Events, Send(e)
  PROVE  WalInv'
<1> USE DEF WalInv
<1>1. /\ UNCHANGED <<at, mode, run, exit, closed, cur, records, consumed, file,
                     archive, scope, receipts, journaled, crashes>>
      /\ sender' = [sender EXCEPT ![e] = run]
      /\ sender[e] = NoRun
      /\ channel' = Append(channel, e)
      /\ Serving
      /\ run # NoRun
  BY DEF Send, store, ServingInv
<1>2. InLog(file)' = InLog(file) /\ InLog(archive)' = InLog(archive)
      /\ Collected' = Collected
  BY <1>1, FilesUnchanged, ReceiptsUnchanged
<1>3. channel' \in Seq(Events) /\ ToSet(channel') = ToSet(channel) \cup {e}
  BY <1>1, AppendSet DEF TypeOK
<1>4. TypeOK'
  BY <1>1, <1>3 DEF TypeOK
<1>5. MemoryMatchesDisk' /\ ServingInv'
  BY <1>1 DEF MemoryMatchesDisk, ServingInv, Serving
<1>6. HandledInv'
  BY <1>1, <1>2 DEF HandledInv
<1>7. OwnedInv'
  <2>1. /\ sender'[e] = run
        /\ \A f \in Events : f # e => sender'[f] = sender[f]
    BY <1>1 DEF TypeOK
  <2>2. InLog(file) \subseteq Events /\ ToSet(channel) \subseteq Events
    BY DEF InLog, ToSet, TypeOK
  <2>3. QED
    BY <1>1, <1>2, <1>3, <2>1, <2>2 DEF OwnedInv, Serving
<1>8. DeliveredUnderItsRun'
  BY <1>1, WalAssumption DEF DeliveredUnderItsRun, TypeOK
<1>9. JournaledNeverLost'
  BY <1>1, <1>2 DEF JournaledNeverLost
<1>10. QED
  BY <1>4, <1>5, <1>6, <1>7, <1>8, <1>9

LEMMA AppendBeginStep ==
  ASSUME WalInv, AppendBegin
  PROVE  WalInv'
<1> USE DEF WalInv
<1>1. UNCHANGED <<mode, run, exit, closed, records, consumed, file, archive,
                  scope, receipts, sender, journaled, crashes>>
  BY DEF AppendBegin, store, world
<1>2. InLog(file)' = InLog(file) /\ InLog(archive)' = InLog(archive)
      /\ Collected' = Collected
  BY <1>1, FilesUnchanged, ReceiptsUnchanged
<1>3. /\ channel' \in Seq(Events)
      /\ cur' \in Events /\ cur' \in ToSet(channel)
      /\ ToSet(channel') \subseteq ToSet(channel)
  <2>1. channel \in Seq(Events) /\ channel # <<>>
    BY DEF AppendBegin, TypeOK
  <2>2. /\ Head(channel) = channel[1] /\ 1 \in DOMAIN channel
        /\ Tail(channel) \in Seq(Events)
        /\ \A i \in DOMAIN Tail(channel) :
             Tail(channel)[i] = channel[i + 1] /\ i + 1 \in DOMAIN channel
    BY <2>1
  <2>3. QED
    BY <2>1, <2>2 DEF AppendBegin, ToSet
<1>4. at = "loop" /\ at' \in {"failed", "appending"}
  BY DEF AppendBegin
<1>5. TypeOK'
  BY <1>1, <1>3, <1>4 DEF TypeOK, Records
<1>6. MemoryMatchesDisk' /\ ServingInv' /\ HandledInv'
  BY <1>1, <1>4 DEF MemoryMatchesDisk, ServingInv, Serving, HandledInv
<1>7. OwnedInv'
  BY <1>1, <1>2, <1>3, <1>4 DEF OwnedInv, Serving
<1>8. JournaledNeverLost' /\ DeliveredUnderItsRun'
  BY <1>1, <1>2 DEF JournaledNeverLost, DeliveredUnderItsRun
<1>9. QED
  BY <1>5, <1>6, <1>7, <1>8

LEMMA AppendSyncedStep ==
  ASSUME WalInv, AppendSynced
  PROVE  WalInv'
<1> USE DEF WalInv
<1>1. /\ UNCHANGED <<mode, run, exit, closed, channel, cur, consumed, archive,
                     scope, receipts, sender, crashes>>
      /\ at = "appending" /\ at' = "loop"
      /\ records' = Append(records, cur)
      /\ journaled' = journaled \cup {cur}
  BY DEF AppendSynced, ends
<1>2. cur \in Events /\ cur \in Records /\ sender[cur] = run
  BY <1>1 DEF OwnedInv, Records
<1>3. /\ file' = [recs |-> Append(file.recs, cur), open |-> FALSE]
      /\ file' \in Log
      /\ InLog(file)' = InLog(file) \cup {cur}
  BY <1>2, WriteKeeps, SMTT(30) DEF AppendSynced, TypeOK, InLog
<1>4. InLog(archive)' = InLog(archive) /\ Collected' = Collected
  BY <1>1, ReceiptsUnchanged DEF InLog
<1>5. TypeOK'
  <2>1. records' \in Seq(Records) /\ Len(records') = Len(records) + 1
    BY <1>1, <1>2 DEF TypeOK
  <2>2. consumed' \in 0..Len(records')
    BY <1>1, <2>1 DEF TypeOK
  <2>3. QED
    BY <1>1, <1>2, <1>3, <2>1, <2>2 DEF TypeOK
<1>6. MemoryMatchesDisk' /\ ServingInv' /\ HandledInv'
  BY <1>1, <1>3 DEF MemoryMatchesDisk, ServingInv, Serving, HandledInv
<1>7. OwnedInv'
  BY <1>1, <1>2, <1>3 DEF OwnedInv, Serving, ServingInv, MemoryMatchesDisk
<1>8. JournaledNeverLost' /\ DeliveredUnderItsRun'
  BY <1>1, <1>3, <1>4 DEF JournaledNeverLost, DeliveredUnderItsRun
<1>9. QED
  BY <1>5, <1>6, <1>7, <1>8

\* The collector has the record, or may have it.
LEMMA AnswerStep ==
  ASSUME WalInv, Persisted \/ \E committed \in BOOLEAN : Retry(committed)
  PROVE  WalInv'
<1> USE DEF WalInv
<1>1. /\ UNCHANGED <<mode, run, exit, closed, channel, cur, records, file,
                     archive, scope, sender, journaled, crashes>>
      /\ Looking /\ Record \in Events
      /\ receipts' \in {receipts, receipts \cup {<<Record, run>>}}
      /\ at' \in {"replaying", "loop", "reclaiming"}
  BY DEF Persisted, Retry, proc, ends, store, Looking
<1>2. \/ consumed' = consumed
      \/ consumed' = consumed + 1 /\ receipts' = receipts \cup {<<Record, run>>}
  BY DEF Persisted, Retry, proc
<1>3. /\ Len(records) \in Nat /\ consumed \in Nat /\ consumed < Len(records)
      /\ Record = records[consumed + 1] /\ at = "replaying"
  BY <1>1 DEF TypeOK, Looking, Record
<1>4. run \in Runs /\ sender[Record] = run
  <2>1. Record \in InLog(file)
    BY <1>1, <1>3 DEF MemoryMatchesDisk, InLog, ToSet, TypeOK
  <2>2. QED
    BY <1>3, <2>1 DEF OwnedInv, MemoryMatchesDisk, ServingInv, Serving, TypeOK
<1>5. InLog(file)' = InLog(file) /\ InLog(archive)' = InLog(archive)
  BY <1>1, FilesUnchanged
<1>6. Collected \subseteq Collected'
      /\ (receipts' = receipts \cup {<<Record, run>>} => Record \in Collected')
  BY <1>1, <1>4 DEF Collected
<1>7. TypeOK'
  <2>1. consumed' \in 0..Len(records')
    BY <1>1, <1>2, <1>3
  <2>2. receipts' \in SUBSET (Events \X Runs)
    BY <1>1, <1>4 DEF TypeOK
  <2>3. QED
    BY <1>1, <2>1, <2>2 DEF TypeOK
<1>8. MemoryMatchesDisk' /\ ServingInv'
  BY <1>1, <1>3 DEF MemoryMatchesDisk, ServingInv, Serving
<1>9. HandledInv'
  <2>1. \A i \in 1..consumed :
          records[i] \in Events => records[i] \in Collected \cup InLog(archive)
    BY <1>3 DEF HandledInv
  <2>2. \A i \in 1..consumed' :
          records[i] \in Events => records[i] \in Collected' \cup InLog(archive)
    BY <1>2, <1>3, <1>6, <2>1
  <2>3. QED
    BY <1>1, <1>5, <2>2 DEF HandledInv
<1>10. OwnedInv'
  BY <1>1, <1>3, <1>5 DEF OwnedInv, Serving
<1>11. JournaledNeverLost'
  BY <1>1, <1>5, <1>6 DEF JournaledNeverLost
<1>12. DeliveredUnderItsRun'
  BY <1>1, <1>4 DEF DeliveredUnderItsRun
<1>13. QED
  BY <1>7, <1>8, <1>9, <1>10, <1>11, <1>12

LEMMA ArchiveSyncedStep ==
  ASSUME WalInv, ArchiveSynced
  PROVE  WalInv'
<1> USE DEF WalInv
<1>1. /\ UNCHANGED <<mode, run, exit, closed, channel, cur, records, file, scope,
                     receipts, sender, journaled, crashes>>
      /\ at = "archiving" /\ at' = "replaying"
      /\ consumed' = consumed + 1
  BY DEF ArchiveSynced, ends, world
<1>2. archive' \in Log /\ InLog(archive)' = InLog(archive) \cup ({cur} \cap Events)
  BY WriteKeeps DEF ArchiveSynced, TypeOK, InLog
<1>3. InLog(file)' = InLog(file) /\ Collected' = Collected
  BY <1>1, ReceiptsUnchanged DEF InLog
<1>4. /\ Len(records) \in Nat /\ consumed \in Nat
      /\ consumed < Len(records) /\ cur = records[consumed + 1]
  BY <1>1 DEF TypeOK, HandledInv
<1>5. TypeOK'
  BY <1>1, <1>2, <1>4 DEF TypeOK
<1>6. MemoryMatchesDisk' /\ ServingInv'
  BY <1>1 DEF MemoryMatchesDisk, ServingInv, Serving
<1>7. HandledInv'
  BY <1>1, <1>2, <1>3, <1>4 DEF HandledInv
<1>8. OwnedInv'
  BY <1>1, <1>3 DEF OwnedInv, Serving
<1>9. JournaledNeverLost' /\ DeliveredUnderItsRun'
  BY <1>1, <1>2, <1>3 DEF JournaledNeverLost, DeliveredUnderItsRun
<1>10. QED
  BY <1>5, <1>6, <1>7, <1>8, <1>9

\* What is reclaimed is settled, so that the journal may forget it, whether
\* the replacement of the file is seen by this process or by the next one.
LEMMA ReclaimKeeps ==
  ASSUME WalInv, at = "reclaiming", receipts' = receipts, archive' = archive,
         sender' = sender, scope' = scope, journaled' = journaled,
         file' = Reclaimed
  PROVE  /\ file' \in Log /\ ~file'.open
         /\ \A e \in InLog(file)' : sender'[e] = scope' /\ scope' # NoRun
         /\ JournaledNeverLost'
<1> USE DEF WalInv
<1>1. /\ Reclaimed \in Log
      /\ ToSet(Reclaimed.recs) \subseteq ToSet(records)
      /\ \A i \in (consumed + 1)..Len(records) :
           records[i] \in ToSet(Reclaimed.recs)
  BY ReclaimedKeeps DEF TypeOK
<1>2. InLog(file) = ToSet(records) \cap Events
  BY DEF MemoryMatchesDisk, InLog
<1>3. ~file'.open
  BY DEF Reclaimed
<1>4. InLog(file)' \subseteq InLog(file)
  BY <1>1, <1>2 DEF InLog
<1>5. \A e \in InLog(file) : e \in InLog(file)' \cup Collected \cup InLog(archive)
  <2>1. SUFFICES ASSUME NEW i \in DOMAIN records, records[i] \in Events
                 PROVE  records[i] \in InLog(file)' \cup Collected \cup InLog(archive)
    BY <1>2 DEF ToSet
  <2>2. i \in 1..Len(records) /\ consumed \in Nat /\ Len(records) \in Nat
    BY DEF TypeOK
  <2>3. CASE i <= consumed
    BY <2>1, <2>2, <2>3 DEF HandledInv
  <2>4. CASE i > consumed
    BY <1>1, <2>1, <2>2, <2>4 DEF InLog
  <2>5. QED
    BY <2>2, <2>3, <2>4
<1>6. Collected' = Collected /\ InLog(archive)' = InLog(archive)
  BY ReceiptsUnchanged DEF InLog
<1>7. QED
  BY <1>1, <1>3, <1>4, <1>5, <1>6 DEF JournaledNeverLost, OwnedInv

LEMMA ReclaimSyncedStep ==
  ASSUME WalInv, ReclaimSynced
  PROVE  WalInv'
<1> USE DEF WalInv
<1>1. /\ UNCHANGED <<mode, run, exit, closed, channel, cur, archive, scope,
                     receipts, sender, journaled, crashes>>
      /\ at = "reclaiming" /\ at' = "loop"
      /\ file' = Reclaimed /\ records' = file'.recs /\ consumed' = 0
  BY DEF ReclaimSynced, ends, world
<1>2. /\ file' \in Log /\ ~file'.open
      /\ \A e \in InLog(file)' : sender'[e] = scope' /\ scope' # NoRun
      /\ JournaledNeverLost'
  BY <1>1, ReclaimKeeps
<1>3. TypeOK'
  <2>1. records' \in Seq(Records) /\ Len(records') \in Nat
    BY <1>1, <1>2 DEF Log
  <2>2. QED
    BY <1>1, <1>2, <2>1 DEF TypeOK
<1>4. MemoryMatchesDisk' /\ ServingInv' /\ HandledInv'
  BY <1>1, <1>2 DEF MemoryMatchesDisk, ServingInv, Serving, HandledInv
<1>5. OwnedInv' /\ DeliveredUnderItsRun'
  BY <1>1, <1>2 DEF OwnedInv, Serving, DeliveredUnderItsRun
<1>6. QED
  BY <1>2, <1>3, <1>4, <1>5

\* A crash or an error may leave a torn record, and never costs a whole one.
LEMMA FaultStep ==
  ASSUME WalInv, IOError \/ Crash
  PROVE  WalInv'
<1> USE DEF WalInv
<1>1. /\ UNCHANGED <<mode, run, exit, closed, channel, cur, records, consumed,
                     scope, receipts, sender, journaled>>
      /\ at' \in {"failed", "down"}
      /\ crashes' = crashes + 1
      /\ Interrupted
      /\ Serving
  BY DEF IOError, Crash, proc, ends, Interrupted, Serving
<1>2. Collected' = Collected
  BY <1>1, ReceiptsUnchanged
<1>3. /\ file' \in Log /\ archive' \in Log
      /\ \A e \in InLog(file)' : sender'[e] = scope' /\ scope' # NoRun
      /\ JournaledNeverLost'
  <2>1. CASE at = "appending"
    <3>1. file' \in Partial(file, cur) /\ archive' = archive
      BY <1>1, <2>1 DEF Interrupted
    <3>2. cur \in Events /\ sender[cur] = run /\ scope = run /\ run # NoRun
      BY <1>1, <2>1 DEF OwnedInv, MemoryMatchesDisk, ServingInv
    <3>3. /\ file' \in Log
          /\ InLog(file) \subseteq InLog(file')
          /\ InLog(file') \subseteq InLog(file) \cup {cur}
      BY <3>1, <3>2, PartialKeeps DEF TypeOK, Records
    <3>4. InLog(file') = InLog(file)' /\ InLog(archive)' = InLog(archive)
      BY <3>1 DEF InLog
    <3>5. QED
      BY <1>1, <1>2, <3>1, <3>2, <3>3, <3>4 DEF TypeOK, OwnedInv,
         JournaledNeverLost
  <2>2. CASE at = "archiving"
    <3>1. archive' \in Partial(archive, cur) /\ file' = file
      BY <1>1, <2>2 DEF Interrupted
    <3>2. archive' \in Log /\ InLog(archive) \subseteq InLog(archive')
      BY <3>1, PartialKeeps DEF TypeOK
    <3>3. InLog(archive') = InLog(archive)' /\ InLog(file)' = InLog(file)
      BY <3>1 DEF InLog
    <3>4. QED
      BY <1>1, <1>2, <3>1, <3>2, <3>3 DEF TypeOK, OwnedInv, JournaledNeverLost
  <2>3. CASE at = "reclaiming" /\ file' = Reclaimed
    <3>1. archive' = archive
      BY <1>1, <2>3 DEF Interrupted
    <3>2. QED
      BY <1>1, <2>3, <3>1, ReclaimKeeps DEF TypeOK
  <2>4. CASE UNCHANGED <<file, archive>>
    BY <1>1, <1>2, <2>4, FilesUnchanged DEF TypeOK, OwnedInv, JournaledNeverLost
  <2>5. QED
    BY <1>1, <2>1, <2>2, <2>3, <2>4 DEF Interrupted
<1>4. TypeOK'
  BY <1>1, <1>3 DEF TypeOK
<1>5. MemoryMatchesDisk' /\ ServingInv' /\ HandledInv'
  BY <1>1 DEF MemoryMatchesDisk, ServingInv, Serving, HandledInv
<1>6. OwnedInv' /\ DeliveredUnderItsRun'
  BY <1>1, <1>3 DEF OwnedInv, Serving, DeliveredUnderItsRun
<1>7. QED
  BY <1>3, <1>4, <1>5, <1>6

LEMMA StutterStep ==
  ASSUME WalInv, UNCHANGED vars
  PROVE  WalInv'
<1> USE DEF vars
<1>1. InLog(file)' = InLog(file) /\ InLog(archive)' = InLog(archive)
      /\ Collected' = Collected
  BY FilesUnchanged, ReceiptsUnchanged
<1>2. TypeOK'
  BY DEF WalInv, TypeOK
<1>3. QED
  BY <1>1, <1>2 DEF WalInv, MemoryMatchesDisk, ServingInv, Serving, HandledInv,
     OwnedInv, JournaledNeverLost, DeliveredUnderItsRun

LEMMA WalStep == WalInv /\ [Next]_vars => WalInv'
<1> SUFFICES ASSUME WalInv, [Next]_vars PROVE WalInv'
  OBVIOUS
<1>1. CASE \E r \in Runs : Open(r)
  BY <1>1, OpenStep
<1>2. CASE \E e \in Events : Send(e)
  BY <1>2, SendStep
<1>3. CASE Close \/ Exit \/ ProcessEnd
  BY <1>3, ControlStep
<1>4. CASE IOError \/ Crash
  BY <1>4, FaultStep
<1>5. CASE Sink
  BY <1>5, ControlStep, AppendBeginStep, AppendSyncedStep, AnswerStep,
     ArchiveSyncedStep, ReclaimSyncedStep DEF Sink
<1>6. CASE UNCHANGED vars
  BY <1>6, StutterStep
<1>7. QED
  BY <1>1, <1>2, <1>3, <1>4, <1>5, <1>6 DEF Next

\* The sink's state keeps its type over every crash, restart and torn write
\* (wal/mod.rs, wal/journal.rs).
THEOREM WalTyped == Spec => []TypeOK
<1>1. WalInv => TypeOK
  BY DEF WalInv
<1>2. QED
  BY WalInit, WalStep, <1>1, PTL DEF Spec

\* Journal::append returned, so the event is in the journal, in the archive or
\* with the collector from then on: repair_tail restores a record boundary
\* before every write, and reclaim runs on settled records only.
THEOREM JournalKeeps == Spec => []JournaledNeverLost
<1>1. WalInv => JournaledNeverLost
  BY DEF WalInv
<1>2. QED
  BY WalInit, WalStep, <1>1, PTL DEF Spec

\* A journal left by another run does not go out under this one (Scope,
\* journal.rs:19-20): every committed event carries the run that sent it.
THEOREM RunsStayApart == Spec => []DeliveredUnderItsRun
<1>1. WalInv => DeliveredUnderItsRun
  BY DEF WalInv
<1>2. QED
  BY WalInit, WalStep, <1>1, PTL DEF Spec

\* Journal::records is the file whenever the sink works from it.
THEOREM MemoryIsDisk == Spec => []MemoryMatchesDisk
<1>1. WalInv => MemoryMatchesDisk
  BY DEF WalInv
<1>2. QED
  BY WalInit, WalStep, <1>1, PTL DEF Spec

-----------------------------------------------------------------------------
(* The journal as a queue *)

\* No event is in the file twice.
Distinct(recs) ==
  \A i, j \in DOMAIN recs : i < j /\ recs[i] = recs[j] => recs[i] \notin Events

\* An event enters the journal once: what was accepted was sent, and what is
\* still on its way was not accepted yet.
OnceInv ==
  /\ Distinct(file.recs)
  /\ \A e \in Accepted : sender[e] # NoRun
  /\ Serving => /\ \A i, j \in DOMAIN channel : channel[i] = channel[j] => i = j
                /\ ToSet(channel) \cap Accepted = {}
  /\ at = "appending" => cur \notin Accepted \cup ToSet(channel)

\* A record written at the end is behind all the others.
LEMMA AheadOfAppend ==
  ASSUME NEW s \in Seq(Records), NEW r \in Records
  PROVE  Ahead(Append(s, r))
           = Ahead(s) \cup ((ToSet(s) \cap Events) \X ({r} \cap Events))
<1> DEFINE t == Append(s, r)
<1>1. /\ Len(s) \in Nat /\ DOMAIN s = 1..Len(s)
      /\ DOMAIN t = 1..(Len(s) + 1)
      /\ t[Len(s) + 1] = r
      /\ \A i \in 1..Len(s) : t[i] = s[i]
  OBVIOUS
<1> HIDE DEF t
<1>2. ASSUME NEW d \in Events, NEW e \in Events, <<d, e>> \in Ahead(t)
      PROVE  <<d, e>> \in Ahead(s) \cup ((ToSet(s) \cap Events) \X ({r} \cap Events))
  <2>1. PICK i \in DOMAIN t, j \in DOMAIN t : i < j /\ t[i] = d /\ t[j] = e
    BY <1>2 DEF Ahead
  <2>2. i \in 1..Len(s) /\ s[i] = d /\ d \in ToSet(s)
    BY <1>1, <2>1 DEF ToSet
  <2>3. CASE j = Len(s) + 1
    BY <1>1, <2>1, <2>2, <2>3
  <2>4. CASE j # Len(s) + 1
    <3>1. j \in 1..Len(s) /\ s[j] = e
      BY <1>1, <2>1, <2>4
    <3>2. QED
      BY <1>1, <2>1, <2>2, <3>1 DEF Ahead
  <2>5. QED
    BY <2>3, <2>4
<1>3. ASSUME NEW d \in Events, NEW e \in Events, <<d, e>> \in Ahead(s)
      PROVE  <<d, e>> \in Ahead(t)
  <2>1. PICK i \in DOMAIN s, j \in DOMAIN s : i < j /\ s[i] = d /\ s[j] = e
    BY <1>3 DEF Ahead
  <2>2. i \in DOMAIN t /\ j \in DOMAIN t /\ t[i] = d /\ t[j] = e
    BY <1>1, <2>1
  <2>3. QED
    BY <2>1, <2>2 DEF Ahead
<1>4. ASSUME NEW d \in ToSet(s) \cap Events, NEW e \in {r} \cap Events
      PROVE  <<d, e>> \in Ahead(t)
  <2>1. PICK i \in DOMAIN s : s[i] = d
    BY DEF ToSet
  <2>2. i \in DOMAIN t /\ t[i] = d /\ Len(s) + 1 \in DOMAIN t /\ i < Len(s) + 1
    BY <1>1, <2>1
  <2>3. QED
    BY <1>1, <2>2 DEF Ahead
<1>5. Ahead(t) \subseteq Events \X Events /\ Ahead(s) \subseteq Events \X Events
  BY DEF Ahead
<1>6. Ahead(t) = Ahead(s) \cup ((ToSet(s) \cap Events) \X ({r} \cap Events))
  BY <1>2, <1>3, <1>4, <1>5
<1>7. QED
  BY <1>6 DEF t

LEMMA DistinctAppend ==
  ASSUME NEW s \in Seq(Records), NEW r \in Records, Distinct(s),
         r \notin ToSet(s) \cap Events
  PROVE  Distinct(Append(s, r))
<1> DEFINE t == Append(s, r)
<1>1. /\ Len(s) \in Nat /\ DOMAIN s = 1..Len(s)
      /\ DOMAIN t = 1..(Len(s) + 1)
      /\ t[Len(s) + 1] = r
      /\ \A i \in 1..Len(s) : t[i] = s[i]
  OBVIOUS
<1> HIDE DEF t
<1>2. ASSUME NEW i \in DOMAIN t, NEW j \in DOMAIN t, i < j, t[i] = t[j]
      PROVE  t[i] \notin Events
  <2>1. i \in 1..Len(s) /\ t[i] = s[i] /\ s[i] \in ToSet(s)
    BY <1>1, <1>2 DEF ToSet
  <2>2. CASE j = Len(s) + 1
    BY <1>1, <1>2, <2>1, <2>2
  <2>3. CASE j # Len(s) + 1
    <3>1. j \in 1..Len(s) /\ t[j] = s[j]
      BY <1>1, <2>3
    <3>2. QED
      BY <1>1, <1>2, <2>1, <3>1 DEF Distinct
  <2>4. QED
    BY <2>2, <2>3
<1>3. Distinct(t)
  BY <1>2 DEF Distinct
<1>4. QED
  BY <1>3 DEF t

\* The events of the first n records, and the records after them.
FirstEvents(s, n) == {e \in Events : \E i \in 1..n : s[i] = e}
Rest(s, n) == SubSeq(s, n + 1, Len(s))

\* Dropping the first n records takes their events, and only them, out of the
\* queue and leaves the order of the others.
LEMMA AheadOfRest ==
  ASSUME NEW s \in Seq(Records), NEW n \in 0..Len(s), Distinct(s)
  PROVE  LET t == Rest(s, n)
             gone == FirstEvents(s, n)
         IN  /\ Distinct(t)
             /\ gone \subseteq ToSet(s) \cap Events
             /\ ToSet(t) \cap Events = (ToSet(s) \cap Events) \ gone
             /\ Ahead(t) = Ahead(s) \cap
                  ((ToSet(t) \cap Events) \X (ToSet(t) \cap Events))
             /\ \A d \in ToSet(s) \cap Events, e \in gone :
                  <<d, e>> \in Ahead(s) => d \in gone
<1> DEFINE t == Rest(s, n)
           gone == FirstEvents(s, n)
<1>0. gone = {e \in Events : \E i \in 1..n : s[i] = e}
  BY DEF FirstEvents
<1>1. /\ Len(s) \in Nat /\ n \in Nat /\ n <= Len(s)
      /\ DOMAIN s = 1..Len(s)
      /\ DOMAIN t = 1..(Len(s) - n)
      /\ \A i \in 1..(Len(s) - n) : t[i] = s[n + i] /\ n + i \in 1..Len(s)
  BY DEF Rest
<1> HIDE DEF t, gone
<1>2. Distinct(t)
  <2>1. ASSUME NEW i \in DOMAIN t, NEW j \in DOMAIN t, i < j, t[i] = t[j]
        PROVE  t[i] \notin Events
    <3>1. n + i \in DOMAIN s /\ n + j \in DOMAIN s /\ n + i < n + j
      BY <1>1, <2>1
    <3>2. QED
      BY <1>1, <2>1, <3>1 DEF Distinct
  <2>2. QED
    BY <2>1 DEF Distinct
<1>3. gone \subseteq ToSet(s) \cap Events
  BY <1>0, <1>1 DEF ToSet
<1>4. ASSUME NEW i \in 1..Len(s), NEW k \in 1..n, s[i] = s[k], s[k] \in Events
      PROVE  i = k
  <2>1. i \in DOMAIN s /\ k \in DOMAIN s /\ i \in Nat /\ k \in Nat
    BY <1>1
  <2>2. QED
    BY <1>4, <2>1 DEF Distinct
<1>5. ToSet(t) \cap Events = (ToSet(s) \cap Events) \ gone
  <2>1. ASSUME NEW e \in ToSet(t) \cap Events
        PROVE  e \in (ToSet(s) \cap Events) \ gone
    <3>1. PICK i \in DOMAIN t : t[i] = e
      BY DEF ToSet
    <3>2. n + i \in 1..Len(s) /\ s[n + i] = e /\ n + i > n
      BY <1>1, <3>1
    <3>3. e \in ToSet(s)
      BY <1>1, <3>2 DEF ToSet
    <3>4. e \notin gone
      BY <1>0, <1>1, <1>4, <3>2
    <3>5. QED
      BY <3>3, <3>4
  <2>2. ASSUME NEW e \in (ToSet(s) \cap Events) \ gone
        PROVE  e \in ToSet(t)
    <3>1. PICK i \in DOMAIN s : s[i] = e
      BY DEF ToSet
    <3>2. i \in 1..Len(s) /\ i \notin 1..n
      BY <1>0, <1>1, <3>1
    <3>3. i - n \in DOMAIN t /\ t[i - n] = s[i]
      BY <1>1, <3>2
    <3>4. QED
      BY <3>1, <3>3 DEF ToSet
  <2>3. QED
    BY <2>1, <2>2
<1>6. ASSUME NEW d \in Events, NEW e \in Events
      PROVE  <<d, e>> \in Ahead(t)
               <=> <<d, e>> \in Ahead(s) /\ d \in ToSet(t) /\ e \in ToSet(t)
  <2>1. ASSUME <<d, e>> \in Ahead(t)
        PROVE  <<d, e>> \in Ahead(s) /\ d \in ToSet(t) /\ e \in ToSet(t)
    <3>1. PICK i \in DOMAIN t, j \in DOMAIN t : i < j /\ t[i] = d /\ t[j] = e
      BY <2>1 DEF Ahead
    <3>2. \E k, m \in DOMAIN s : k < m /\ s[k] = d /\ s[m] = e
      <4>0. i \in 1..(Len(s) - n) /\ j \in 1..(Len(s) - n)
        BY <1>1
      <4>1. /\ n + i \in DOMAIN s /\ n + j \in DOMAIN s /\ n + i < n + j
            /\ s[n + i] = d /\ s[n + j] = e
        <5>1. n + i \in 1..Len(s) /\ t[i] = s[n + i]
          BY <1>1, <4>0
        <5>2. n + j \in 1..Len(s) /\ t[j] = s[n + j]
          BY <1>1, <4>0
        <5>3. n + i < n + j
          BY <1>1, <3>1, <4>0
        <5>4. QED
          BY <1>1, <3>1, <5>1, <5>2, <5>3, Zenon
      <4>2. QED
        BY <4>1, Zenon
    <3>3. <<d, e>> \in Ahead(s)
      BY <3>2 DEF Ahead
    <3>4. QED
      BY <3>1, <3>3 DEF ToSet
  <2>2. ASSUME <<d, e>> \in Ahead(s), d \in ToSet(t), e \in ToSet(t)
        PROVE  <<d, e>> \in Ahead(t)
    <3>1. PICK i \in DOMAIN s, j \in DOMAIN s : i < j /\ s[i] = d /\ s[j] = e
      BY <2>2 DEF Ahead
    <3>2. d \notin gone /\ e \notin gone
      BY <1>5, <2>2
    <3>3. i \notin 1..n /\ j \notin 1..n
      BY <1>0, <3>1, <3>2
    <3>4. \E k, m \in DOMAIN t : k < m /\ t[k] = d /\ t[m] = e
      <4>0. /\ i \in 1..Len(s) /\ j \in 1..Len(s)
            /\ i - n \in 1..(Len(s) - n) /\ j - n \in 1..(Len(s) - n)
        BY <1>1, <3>3
      <4>1. /\ i - n \in DOMAIN t /\ j - n \in DOMAIN t /\ i - n < j - n
            /\ t[i - n] = d /\ t[j - n] = e
        <5>1. t[i - n] = s[i]
          BY <1>1, <4>0
        <5>2. t[j - n] = s[j]
          BY <1>1, <4>0
        <5>3. i - n < j - n
          BY <1>1, <3>1, <4>0
        <5>4. QED
          BY <1>1, <3>1, <4>0, <5>1, <5>2, <5>3, Zenon
      <4>2. QED
        BY <4>1, Zenon
    <3>5. QED
      BY <3>4 DEF Ahead
  <2>3. QED
    BY <2>1, <2>2
<1>7. Ahead(t) = Ahead(s) \cap ((ToSet(t) \cap Events) \X (ToSet(t) \cap Events))
  <2>1. Ahead(t) \subseteq Events \X Events /\ Ahead(s) \subseteq Events \X Events
    BY DEF Ahead
  <2>2. QED
    BY <1>6, <2>1
<1>8. ASSUME NEW d \in ToSet(s) \cap Events, NEW e \in gone, <<d, e>> \in Ahead(s)
      PROVE  d \in gone
  <2>1. PICK i \in DOMAIN s, j \in DOMAIN s : i < j /\ s[i] = d /\ s[j] = e
    BY <1>8 DEF Ahead
  <2>2. PICK k \in 1..n : s[k] = e /\ e \in Events
    BY <1>0
  <2>3. j = k
    BY <1>1, <1>4, <2>1, <2>2
  <2>4. i \in 1..n
    BY <1>1, <2>1, <2>3
  <2>5. QED
    BY <1>0, <2>1, <2>4
<1>9. QED
  BY <1>2, <1>3, <1>5, <1>7, <1>8 DEF t, gone

\* What an interrupted append leaves: the file, the record at its end, or a
\* line that is not an event.
LEMMA PartialForms ==
  ASSUME NEW log \in Log, NEW r \in Records, NEW l \in Partial(log, r)
  PROVE  l.recs \in {log.recs, Append(log.recs, r), Append(log.recs, Garbage)}
<1>1. repair_tail(log).recs = log.recs /\ ~repair_tail(log).open
  BY DEF Log, repair_tail
<1>2. QED
  BY <1>1 DEF Partial, TornWrite, write_record

-----------------------------------------------------------------------------
(* Every step of the sink is a step of the queue, or none *)

QueueStep == [Queue!QueueNext]_(Queue!queueVars)

LEMMA QueueStart == Init => Queue!QueueInit /\ OnceInv
<1> SUFFICES ASSUME Init PROVE Queue!QueueInit /\ OnceInv
  OBVIOUS
<1> USE DEF Init
<1>1. InLog(EmptyLog) = {} /\ Ahead(EmptyLog.recs) = {} /\ Distinct(EmptyLog.recs)
  BY DEF EmptyLog, InLog, ToSet, Ahead, Distinct
<1>2. Collected = {}
  BY DEF Collected
<1>3. Accepted = {}
  BY <1>1, <1>2 DEF Accepted
<1>4. QED
  BY <1>1, <1>2, <1>3 DEF Queue!QueueInit, OnceInv, Serving

\* Steps that leave the queue as it is.
LEMMA QueueUnchanged ==
  ASSUME file'.recs = file.recs, InLog(archive)' = InLog(archive),
         Collected' = Collected, journaled' = journaled
  PROVE  /\ QueueStep
         /\ Accepted' = Accepted
<1>1. InLog(file)' = InLog(file) /\ Ahead(file.recs)' = Ahead(file.recs)
  BY DEF InLog, Ahead
<1>2. Accepted' = Accepted
  BY <1>1 DEF Accepted
<1>3. QED
  BY <1>1, <1>2 DEF QueueStep, Queue!queueVars

\* Control steps move neither the files nor the events on their way.
LEMMA QueueControl ==
  ASSUME WalInv, OnceInv,
         \/ Drain \/ Returned \/ ReplayBegin \/ ReplayLast \/ ReplayEnd
         \/ Malformed \/ Rejected \/ RunRejected \/ Close \/ Exit \/ ProcessEnd
         \/ UNCHANGED vars
  PROVE  QueueStep /\ OnceInv'
<1>1. UNCHANGED <<run, channel, file, archive, receipts, sender, journaled>>
  BY DEF Drain, Returned, ReplayBegin, ReplayLast, ReplayEnd, Malformed,
     Rejected, RunRejected, Close, Exit, ProcessEnd, proc, ends, store, world, vars
<1>2. at' = "appending" => at = "appending" /\ cur' = cur
  BY DEF Drain, Returned, ReplayBegin, ReplayLast, ReplayEnd, Malformed,
     Rejected, RunRejected, Close, Exit, ProcessEnd, Looking, proc, ends, vars
<1>3. Serving' => Serving
  BY DEF Serving, Drain, Returned, ReplayBegin, ReplayLast, ReplayEnd,
     Malformed, Rejected, RunRejected, Close, Exit, ProcessEnd, Looking, vars
<1>4. InLog(archive)' = InLog(archive) /\ Collected' = Collected
  BY <1>1, FilesUnchanged, ReceiptsUnchanged
<1>5. QueueStep /\ Accepted' = Accepted
  BY <1>1, <1>4, QueueUnchanged
<1>6. QED
  BY <1>1, <1>2, <1>3, <1>5 DEF OnceInv

LEMMA QueueOpen ==
  ASSUME WalInv, OnceInv, NEW r \in Runs, Open(r)
  PROVE  QueueStep /\ OnceInv'
<1>1. UNCHANGED <<archive, receipts, sender, journaled>>
  BY DEF Open, world
<1>2. file'.recs = file.recs
  BY DEF Open, repair_tail, WalInv, TypeOK, Log
<1>3. InLog(archive)' = InLog(archive) /\ Collected' = Collected
  BY <1>1, ReceiptsUnchanged DEF InLog
<1>4. QueueStep /\ Accepted' = Accepted
  BY <1>1, <1>2, <1>3, QueueUnchanged
<1>5. channel' = <<>> /\ at' # "appending"
  BY DEF Open
<1>6. DOMAIN channel' = {} /\ ToSet(channel') = {}
  BY <1>5 DEF ToSet
<1>7. QED
  BY <1>1, <1>2, <1>4, <1>5, <1>6 DEF OnceInv

LEMMA QueueSend ==
  ASSUME WalInv, OnceInv, NEW e \in Events, Send(e)
  PROVE  QueueStep /\ OnceInv'
<1> USE DEF WalInv
<1>1. /\ UNCHANGED <<at, run, cur, file, archive, receipts, journaled>>
      /\ sender' = [sender EXCEPT ![e] = run]
      /\ sender[e] = NoRun
      /\ channel' = Append(channel, e)
      /\ Serving
      /\ run # NoRun
  BY DEF Send, store, ServingInv
<1>2. InLog(archive)' = InLog(archive) /\ Collected' = Collected
  BY <1>1, ReceiptsUnchanged DEF InLog
<1>3. QueueStep /\ Accepted' = Accepted
  BY <1>1, <1>2, QueueUnchanged
<1>4. channel \in Seq(Events) /\ ToSet(channel') = ToSet(channel) \cup {e}
  BY <1>1, AppendSet DEF TypeOK
<1>5. e \notin Accepted /\ e \notin ToSet(channel)
  BY <1>1 DEF OnceInv, OwnedInv
<1>6. at = "appending" => cur # e
  BY <1>1 DEF OwnedInv
<1>7. \A f \in Accepted : sender'[f] # NoRun
  <2>1. Accepted \subseteq Events
    BY DEF Accepted, InLog, Collected, TypeOK
  <2>2. QED
    BY <1>1, <1>5, <2>1 DEF OnceInv, TypeOK
<1>8. \A i, j \in DOMAIN channel' : channel'[i] = channel'[j] => i = j
  <2>1. /\ Len(channel) \in Nat /\ DOMAIN channel = 1..Len(channel)
        /\ DOMAIN channel' = 1..(Len(channel) + 1)
        /\ channel'[Len(channel) + 1] = e
        /\ \A i \in 1..Len(channel) : channel'[i] = channel[i]
    BY <1>1, <1>4
  <2>2. \A i \in 1..Len(channel) : channel[i] # e
    BY <1>5, <2>1 DEF ToSet
  <2>3. \A i, j \in 1..Len(channel) : channel[i] = channel[j] => i = j
    BY <1>1, <2>1 DEF OnceInv
  <2>4. QED
    BY <2>1, <2>2, <2>3
<1>9. Distinct(file'.recs) /\ Serving'
  BY <1>1 DEF OnceInv, Serving
<1>10. ToSet(channel') \cap Accepted' = {}
  BY <1>1, <1>3, <1>4, <1>5 DEF OnceInv
<1>11. at' = "appending" => cur' \notin Accepted' \cup ToSet(channel')
  BY <1>1, <1>3, <1>4, <1>6 DEF OnceInv
<1>12. QED
  BY <1>3, <1>7, <1>8, <1>9, <1>10, <1>11 DEF OnceInv

LEMMA QueueAppendBegin ==
  ASSUME WalInv, OnceInv, AppendBegin
  PROVE  QueueStep /\ OnceInv'
<1> USE DEF WalInv
<1>1. /\ UNCHANGED <<file, archive, receipts, sender, journaled>>
      /\ channel # <<>> /\ cur' = Head(channel) /\ channel' = Tail(channel)
      /\ Serving
  BY DEF AppendBegin, store, world, Serving
<1>2. InLog(archive)' = InLog(archive) /\ Collected' = Collected
  BY <1>1, ReceiptsUnchanged DEF InLog
<1>3. QueueStep /\ Accepted' = Accepted
  BY <1>1, <1>2, QueueUnchanged
<1>4. /\ channel \in Seq(Events) /\ Len(channel) \in Nat
      /\ 1 \in DOMAIN channel /\ cur' = channel[1]
      /\ DOMAIN channel = 1..Len(channel)
      /\ DOMAIN channel' = 1..(Len(channel) - 1)
      /\ \A i \in 1..(Len(channel) - 1) : channel'[i] = channel[i + 1]
  BY <1>1 DEF TypeOK
<1>5. \A i, j \in DOMAIN channel : channel[i] = channel[j] => i = j
  BY <1>1 DEF OnceInv
<1>6. ASSUME NEW i \in DOMAIN channel', NEW j \in DOMAIN channel',
             channel'[i] = channel'[j]
      PROVE  i = j
  <2>1. i + 1 \in DOMAIN channel /\ j + 1 \in DOMAIN channel
    BY <1>4
  <2>2. i + 1 = j + 1
    BY <1>4, <1>5, <1>6, <2>1
  <2>3. QED
    BY <1>4, <2>2
<1>7. cur' \notin ToSet(channel')
  <2>1. ASSUME NEW i \in DOMAIN channel', channel'[i] = channel[1]
        PROVE  FALSE
    <3>1. i + 1 \in DOMAIN channel /\ channel[i + 1] = channel[1]
      BY <1>4, <2>1
    <3>2. i + 1 = 1
      BY <1>4, <1>5, <3>1
    <3>3. QED
      BY <1>4, <3>2
  <2>2. QED
    BY <1>4, <2>1 DEF ToSet
<1>8. ToSet(channel') \subseteq ToSet(channel) /\ cur' \in ToSet(channel)
  BY <1>4 DEF ToSet
<1>9. ToSet(channel) \cap Accepted = {}
  BY <1>1 DEF OnceInv
<1>10. Distinct(file'.recs) /\ \A e \in Accepted' : sender'[e] # NoRun
  BY <1>1, <1>3 DEF OnceInv
<1>11. QED
  BY <1>3, <1>6, <1>7, <1>8, <1>9, <1>10 DEF OnceInv

\* The record that an append writes, synced or not, enters the queue.
LEMMA QueueAccept ==
  ASSUME WalInv, OnceInv, at = "appending",
         file'.recs = Append(file.recs, cur), archive' = archive,
         receipts' = receipts, sender' = sender, channel' = channel,
         journaled' \in {journaled, journaled \cup {cur}}, at' # "appending"
  PROVE  QueueStep /\ OnceInv'
<1> USE DEF WalInv
<1>1. /\ cur \in Events /\ cur \in Records
      /\ sender[cur] # NoRun
      /\ cur \notin Accepted /\ cur \notin ToSet(channel)
  BY DEF OwnedInv, OnceInv, Records, ServingInv, Serving
<1>2. file.recs \in Seq(Records)
  BY DEF TypeOK, Log
<1>3. InLog(file)' = InLog(file) \cup {cur}
  BY <1>1, <1>2, AppendSet DEF InLog
<1>4. Ahead(file.recs)' = Ahead(file.recs) \cup (InLog(file) \X {cur})
  <2>1. Ahead(file.recs)' = Ahead(file'.recs)
    BY DEF Ahead
  <2>2. {cur} \cap Events = {cur}
    BY <1>1
  <2>3. QED
    BY <1>1, <1>2, <2>1, <2>2, AheadOfAppend DEF InLog
<1>5. InLog(archive)' = InLog(archive) /\ Collected' = Collected
  BY ReceiptsUnchanged DEF InLog
<1>6. Accepted' = Accepted \cup {cur}
  BY <1>3, <1>5 DEF Accepted
<1>7. Queue!Accept(cur)
  BY <1>1, <1>3, <1>4, <1>5, <1>6 DEF Queue!Accept
<1>8. QueueStep
  BY <1>1, <1>7 DEF QueueStep, Queue!QueueNext
<1>9. Distinct(file.recs)'
  <2>1. cur \notin ToSet(file.recs) \cap Events /\ Distinct(file.recs)
    BY <1>1 DEF Accepted, InLog, OnceInv
  <2>2. QED
    BY <1>1, <1>2, <2>1, DistinctAppend DEF Distinct
<1>10. Serving
  BY DEF Serving
<1>11. QED
  BY <1>1, <1>6, <1>8, <1>9, <1>10 DEF OnceInv

\* The record a replay has come to is next: the ones ahead of it are settled.
LEMMA QueueTurn ==
  ASSUME WalInv, OnceInv, at \in {"replaying", "archiving"},
         consumed < Len(records), NEW e \in Events, records[consumed + 1] = e
  PROVE  Queue!Turn(e)
<1> USE DEF WalInv
<1>1. /\ records = file.recs /\ consumed \in Nat /\ Len(records) \in Nat
      /\ DOMAIN records = 1..Len(records)
  BY DEF MemoryMatchesDisk, TypeOK
<1>2. consumed + 1 \in DOMAIN records
  BY <1>1
<1>3. e \in InLog(file)
  BY <1>1, <1>2 DEF InLog, ToSet
<1>4. ASSUME NEW d \in InLog(file), <<d, e>> \in Ahead(file.recs)
      PROVE  d \in Collected \cup InLog(archive)
  <2>1. PICK i \in DOMAIN records, j \in DOMAIN records :
          i < j /\ records[i] = d /\ records[j] = e
    BY <1>1, <1>4 DEF Ahead
  <2>2. j = consumed + 1
    <3>1. j \in Nat
      BY <1>1
    <3>2. ~(j < consumed + 1) /\ ~(consumed + 1 < j)
      BY <1>1, <1>2, <2>1 DEF OnceInv, Distinct
    <3>3. QED
      BY <1>1, <3>1, <3>2
  <2>3. i \in 1..consumed
    BY <1>1, <2>1, <2>2
  <2>4. d \in Events
    BY DEF InLog
  <2>5. QED
    BY <2>1, <2>3, <2>4 DEF HandledInv
<1>5. QED
  BY <1>3, <1>4 DEF Queue!Turn, Queue!Settled

\* Steps after which the sink is not appending, and that add nothing to the
\* queue, keep what is said of the events on their way.
LEMMA OnceKept ==
  ASSUME OnceInv, Distinct(file.recs)', Accepted' = Accepted, sender' = sender,
         channel' = channel, at' # "appending", Serving
  PROVE  OnceInv'
BY DEF OnceInv

LEMMA QueueAnswer ==
  ASSUME WalInv, OnceInv, Persisted \/ \E committed \in BOOLEAN : Retry(committed)
  PROVE  QueueStep /\ OnceInv'
<1> USE DEF WalInv
<1>1. /\ UNCHANGED <<run, channel, file, archive, sender, journaled>>
      /\ Looking /\ Record \in Events
      /\ receipts' \in {receipts, receipts \cup {<<Record, run>>}}
      /\ at' # "appending"
      /\ at = "replaying" /\ Serving
  BY DEF Persisted, Retry, proc, ends, store, Looking, Serving
<1>2. run \in Runs
  BY <1>1 DEF ServingInv, TypeOK
<1>3. consumed < Len(records) /\ records[consumed + 1] = Record
  BY <1>1 DEF Looking, Record
<1> DEFINE e == Record
<1>4. e \in Events /\ Queue!Turn(e)
  BY <1>1, <1>3, QueueTurn
<1> HIDE DEF e
<1>5. Collected' \in {Collected, Collected \cup {e}}
  <2>1. CASE receipts' = receipts
    BY <2>1, ReceiptsUnchanged
  <2>2. CASE receipts' = receipts \cup {<<e, run>>}
    BY <1>2, <1>4, <2>2 DEF Collected
  <2>3. QED
    BY <1>1, <2>1, <2>2 DEF e
<1>6. /\ InLog(file)' = InLog(file) /\ InLog(archive)' = InLog(archive)
      /\ Ahead(file.recs)' = Ahead(file.recs)
      /\ Distinct(file.recs)'
  BY <1>1 DEF InLog, Ahead, Distinct, OnceInv
<1>7. Accepted' = Accepted
  <2>1. e \in InLog(file)
    BY <1>4 DEF Queue!Turn
  <2>2. QED
    BY <1>1, <1>5, <1>6, <2>1 DEF Accepted
<1>8. QueueStep
  <2>1. CASE Collected' = Collected
    BY <1>6, <1>7, <2>1 DEF QueueStep, Queue!queueVars
  <2>2. CASE Collected' = Collected \cup {e}
    <3>1. Queue!Collect(e)
      BY <1>4, <1>6, <1>7, <2>2 DEF Queue!Collect
    <3>2. QED
      BY <1>4, <3>1 DEF QueueStep, Queue!QueueNext
  <2>3. QED
    BY <1>5, <2>1, <2>2
<1>9. QED
  BY <1>1, <1>6, <1>7, <1>8, OnceKept

\* The record is written to the archive, synced or not.
LEMMA QueueArchive ==
  ASSUME WalInv, OnceInv, at = "archiving", at' # "appending",
         UNCHANGED <<channel, file, sender, receipts, journaled>>,
         InLog(archive)' \in {InLog(archive), InLog(archive) \cup ({cur} \cap Events)}
  PROVE  QueueStep /\ OnceInv'
<1> USE DEF WalInv
<1>1. consumed < Len(records) /\ records[consumed + 1] = cur /\ Serving
  BY DEF HandledInv, Serving
<1>2. Collected' = Collected
  BY ReceiptsUnchanged
<1>3. /\ InLog(file)' = InLog(file)
      /\ Ahead(file.recs)' = Ahead(file.recs)
      /\ Distinct(file.recs)'
  BY DEF InLog, Ahead, Distinct, OnceInv
<1>4. CASE InLog(archive)' = InLog(archive)
  <2>1. QueueStep /\ Accepted' = Accepted
    BY <1>2, <1>4, QueueUnchanged
  <2>2. QED
    BY <1>1, <1>3, <2>1, OnceKept
<1>5. CASE cur \in Events /\ InLog(archive)' = InLog(archive) \cup {cur}
  <2>1. Queue!Turn(cur)
    BY <1>1, <1>5, QueueTurn
  <2>2. Accepted' = Accepted
    BY <1>2, <1>3, <1>5, <2>1 DEF Accepted, Queue!Turn
  <2>3. Queue!Archive(cur)
    BY <1>2, <1>3, <1>5, <2>1, <2>2 DEF Queue!Archive
  <2>4. QueueStep
    BY <1>5, <2>3 DEF QueueStep, Queue!QueueNext
  <2>5. QED
    BY <1>1, <1>3, <2>2, <2>4, OnceKept
<1>6. cur \notin Events => {cur} \cap Events = {}
  OBVIOUS
<1>7. cur \in Events => {cur} \cap Events = {cur}
  OBVIOUS
<1>8. QED
  BY <1>4, <1>5, <1>6, <1>7

\* The replaced file lacks the handled records, and they are settled.
LEMMA QueueReclaim ==
  ASSUME WalInv, OnceInv, at = "reclaiming", at' # "appending", file' = Reclaimed,
         UNCHANGED <<channel, archive, sender, receipts, journaled>>
  PROVE  QueueStep /\ OnceInv'
<1> USE DEF WalInv
<1> DEFINE gone == FirstEvents(records, consumed)
           rest == Rest(records, consumed)
<1>1. /\ records = file.recs /\ records \in Seq(Records)
      /\ consumed \in 0..Len(records) /\ Serving
  BY DEF MemoryMatchesDisk, TypeOK, Serving
<1>2. file'.recs = rest
  BY DEF Reclaimed, Rest
<1>3. Distinct(records)
  BY <1>1 DEF OnceInv
<1> HIDE DEF gone, rest
<1>4. /\ Distinct(rest)
      /\ gone \subseteq ToSet(records) \cap Events
      /\ ToSet(rest) \cap Events = (ToSet(records) \cap Events) \ gone
      /\ Ahead(rest) = Ahead(records) \cap ((ToSet(rest) \cap Events) \X (ToSet(rest) \cap Events))
      /\ \A d \in ToSet(records) \cap Events, e \in gone :
           <<d, e>> \in Ahead(records) => d \in gone
  BY <1>1, <1>3, AheadOfRest DEF gone, rest
<1>5. InLog(file) = ToSet(records) \cap Events
  BY <1>1 DEF InLog
<1>6. /\ InLog(file)' = ToSet(rest) \cap Events
      /\ Ahead(file.recs)' = Ahead(rest)
      /\ Distinct(file.recs)'
  BY <1>2, <1>4 DEF InLog, Ahead, Distinct
<1>7. Collected' = Collected /\ InLog(archive)' = InLog(archive)
  BY ReceiptsUnchanged DEF InLog
<1>8. gone \subseteq Collected \cup InLog(archive)
  BY DEF gone, FirstEvents, HandledInv
<1>9. Accepted' = Accepted
  BY <1>4, <1>5, <1>6, <1>7, <1>8 DEF Accepted
<1>10. Queue!Reclaim(gone)
  BY <1>1, <1>4, <1>5, <1>6, <1>7, <1>8, <1>9 DEF Queue!Reclaim, Queue!Settled
<1>11. QueueStep
  BY <1>4, <1>5, <1>10 DEF QueueStep, Queue!QueueNext
<1>12. QED
  BY <1>1, <1>6, <1>9, <1>11, OnceKept

\* What a crash or an error leaves is the queue before the interrupted step or
\* the queue after it.
LEMMA QueueFault ==
  ASSUME WalInv, OnceInv, IOError \/ Crash
  PROVE  QueueStep /\ OnceInv'
<1> USE DEF WalInv
<1>1. /\ UNCHANGED <<channel, cur, receipts, sender, journaled>>
      /\ at' # "appending" /\ Interrupted /\ Serving
  BY DEF IOError, Crash, proc, ends, Interrupted, Serving
<1>2. Collected' = Collected
  BY <1>1, ReceiptsUnchanged
<1>3. CASE at = "appending"
  <2>1. file' \in Partial(file, cur) /\ archive' = archive
    BY <1>1, <1>3 DEF Interrupted
  <2>2. file'.recs \in {file.recs, Append(file.recs, cur), Append(file.recs, Garbage)}
    BY <2>1, PartialForms DEF TypeOK
  <2>3. CASE file'.recs = Append(file.recs, cur)
    BY <1>1, <1>3, <2>1, <2>3, QueueAccept
  <2>4. CASE file'.recs = file.recs
    <3>1. QueueStep /\ Accepted' = Accepted
      BY <1>1, <1>2, <2>1, <2>4, QueueUnchanged DEF InLog
    <3>2. Distinct(file.recs)'
      BY <2>4 DEF OnceInv, Distinct
    <3>3. QED
      BY <1>1, <3>1, <3>2, OnceKept
  <2>5. CASE file'.recs = Append(file.recs, Garbage)
    <3>1. Garbage \in Records /\ {Garbage} \cap Events = {} /\ Garbage \notin Events
      BY LogAssumption DEF Records
    <3>2. file.recs \in Seq(Records)
      BY DEF TypeOK, Log
    <3>3. InLog(file)' = InLog(file)
      BY <2>5, <3>1, <3>2, AppendSet DEF InLog
    <3>4. Ahead(file.recs)' = Ahead(file.recs)
      <4>1. Ahead(file.recs)' = Ahead(file'.recs)
        BY DEF Ahead
      <4>2. Ahead(file'.recs)
              = Ahead(file.recs) \cup ((ToSet(file.recs) \cap Events) \X {})
        BY <2>5, <3>1, <3>2, AheadOfAppend
      <4>3. QED
        BY <4>1, <4>2
    <3>5. Distinct(file.recs)'
      <4>1. Distinct(file.recs)
        BY DEF OnceInv
      <4>2. QED
        BY <2>5, <3>1, <3>2, <4>1, DistinctAppend DEF Distinct
    <3>6. InLog(archive)' = InLog(archive)
      BY <2>1 DEF InLog
    <3>7. Accepted' = Accepted
      BY <1>1, <1>2, <3>3, <3>6 DEF Accepted
    <3>8. QueueStep
      BY <1>2, <3>3, <3>4, <3>6, <3>7 DEF QueueStep, Queue!queueVars
    <3>9. QED
      BY <1>1, <3>5, <3>7, <3>8, OnceKept
  <2>6. QED
    BY <2>2, <2>3, <2>4, <2>5
<1>4. CASE at = "archiving"
  <2>1. archive' \in Partial(archive, cur) /\ file' = file
    BY <1>1, <1>4 DEF Interrupted
  <2>2. /\ InLog(archive) \subseteq InLog(archive')
        /\ InLog(archive') \subseteq InLog(archive) \cup ({cur} \cap Events)
    BY <2>1, PartialKeeps DEF TypeOK
  <2>3. InLog(archive)' \in {InLog(archive), InLog(archive) \cup ({cur} \cap Events)}
    <3>1. InLog(archive') = InLog(archive)'
      BY DEF InLog
    <3>2. {cur} \cap Events \in {{}, {cur}}
      OBVIOUS
    <3>3. QED
      BY <2>2, <3>1, <3>2
  <2>4. QED
    BY <1>1, <1>4, <2>1, <2>3, QueueArchive
<1>5. CASE at = "reclaiming" /\ file' = Reclaimed
  <2>1. archive' = archive
    BY <1>1, <1>5 DEF Interrupted
  <2>2. QED
    BY <1>1, <1>5, <2>1, QueueReclaim
<1>6. CASE UNCHANGED <<file, archive>>
  <2>1. QueueStep /\ Accepted' = Accepted
    BY <1>1, <1>2, <1>6, QueueUnchanged DEF InLog
  <2>2. Distinct(file.recs)'
    BY <1>6 DEF OnceInv, Distinct
  <2>3. QED
    BY <1>1, <2>1, <2>2, OnceKept
<1>7. QED
  BY <1>1, <1>3, <1>4, <1>5, <1>6 DEF Interrupted

LEMMA QueueNextStep == WalInv /\ OnceInv /\ [Next]_vars => QueueStep /\ OnceInv'
<1> SUFFICES ASSUME WalInv, OnceInv, [Next]_vars PROVE QueueStep /\ OnceInv'
  OBVIOUS
<1>1. CASE \E r \in Runs : Open(r)
  BY <1>1, QueueOpen
<1>2. CASE \E e \in Events : Send(e)
  BY <1>2, QueueSend
<1>3. CASE IOError \/ Crash
  BY <1>3, QueueFault
<1>4. CASE AppendSynced
  <2>1. /\ UNCHANGED <<channel, cur, archive, receipts, sender>>
        /\ at = "appending" /\ at' = "loop"
        /\ file' = write_record(repair_tail(file), cur)
        /\ journaled' = journaled \cup {cur}
    BY <1>4 DEF AppendSynced, ends
  <2>2. file'.recs = Append(file.recs, cur)
    BY <2>1, WriteKeeps DEF WalInv, TypeOK
  <2>3. QED
    BY <2>1, <2>2, QueueAccept
<1>5. CASE ArchiveSynced
  <2>1. /\ UNCHANGED <<channel, file, receipts, sender, journaled>>
        /\ at = "archiving" /\ at' = "replaying"
    BY <1>5 DEF ArchiveSynced, ends, world
  <2>2. InLog(archive)' = InLog(archive) \cup ({cur} \cap Events)
    BY <1>5, WriteKeeps DEF ArchiveSynced, WalInv, TypeOK, InLog
  <2>3. QED
    BY <2>1, <2>2, QueueArchive
<1>6. CASE ReclaimSynced
  <2>1. /\ UNCHANGED <<channel, archive, receipts, sender, journaled>>
        /\ at = "reclaiming" /\ at' = "loop" /\ file' = Reclaimed
    BY <1>6 DEF ReclaimSynced, ends, world
  <2>2. QED
    BY <2>1, QueueReclaim
<1>7. CASE Persisted \/ \E committed \in BOOLEAN : Retry(committed)
  BY <1>7, QueueAnswer
<1>8. CASE AppendBegin
  BY <1>8, QueueAppendBegin
<1>9. CASE \/ Drain \/ Returned \/ ReplayBegin \/ ReplayLast \/ ReplayEnd
           \/ Malformed \/ Rejected \/ RunRejected \/ Close \/ Exit \/ ProcessEnd
           \/ UNCHANGED vars
  BY <1>9, QueueControl
<1>10. QED
  BY <1>1, <1>2, <1>3, <1>4, <1>5, <1>6, <1>7, <1>8, <1>9 DEF Next, Sink

\* The sink implements the queue that audit/mod.rs:24-26 promises: over every
\* crash, restart, torn write, lost answer and rejected event, an event enters
\* behind the ones already journaled, is settled only when its turn has come,
\* and leaves from the front when it is settled.
THEOREM WalImplementsQueue == Spec => ImplementsQueue
<1>1. Init => Queue!QueueInit
  BY QueueStart
<1>2. Spec => [](WalInv /\ OnceInv)
  BY WalInit, WalStep, QueueStart, QueueNextStep, PTL DEF Spec
<1>3. WalInv /\ OnceInv /\ [Next]_vars => [Queue!QueueNext]_(Queue!queueVars)
  BY QueueNextStep DEF QueueStep
<1>4. QED
  BY <1>1, <1>2, <1>3, PTL DEF Spec, ImplementsQueue, Queue!QueueSpec
=============================================================================
