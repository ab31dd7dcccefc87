--------------------------- MODULE GrpcSinkProofs ---------------------------
(***************************************************************************)
(* The streaming sink keeps what it buffered, opens a stream only over an  *)
(* empty buffer and hands over every event before it returns, for every    *)
(* set of events, every bound of the buffer and of the stream's channel,   *)
(* every fault and any number of crashes.                                  *)
(***************************************************************************)
EXTENDS GrpcSink, SequenceTheorems, FiniteSetTheorems, TLAPS

\* The labels of a sink that is putting one event into the buffer.
Appending == {"appending", "compacting", "writing"}

\* The buffer is only written while no stream is open.
ControlInv ==
  /\ at \in Appending \cup {"down", "replaying", "opening"} => stream = "none"
  /\ at \in Appending => cur \in Events
  /\ at \in {"compacting", "opening"} => file = EmptyLog

\* buffer_size counts the lines of the file, or one too many after an append
\* to a torn line.
SizeInv ==
  Running /\ at # "compacting" =>
    /\ Len(file.recs) <= size /\ size <= Len(file.recs) + 1
    /\ file.open => size = Len(file.recs)

\* Without a fault the file has no torn line, the lines in memory are those of
\* a compaction, and a replay has read the whole buffer.
FaultFreeInv ==
  /\ file.open => file.recs # <<>>
  /\ ~harmed => ~file.open
  /\ ~harmed /\ at # "compacting" => kept = <<>>
  /\ ~harmed /\ at = "replaying" => InLog(file) \subseteq batch
  /\ IsFiniteSet(batch)

\* Every event of this process is handed over, waits in the channel, or is
\* the one being appended.
HandedInv ==
  Running =>
    \A e \in sent \ before :
      e \in streamed \cup buffered \cup ToSet(channel) \/ (at \in Appending /\ e = cur)

Inv ==
  /\ TypeOK /\ ControlInv /\ SizeInv /\ FaultFreeInv /\ HandedInv
  /\ LiveAfterReplay /\ BufferedStaysUnharmed /\ DrainedIsHandled

-----------------------------------------------------------------------------
(* Sequences and the file *)

LEMMA AppendSet ==
  ASSUME NEW S, NEW s \in Seq(S), NEW r \in S
  PROVE  /\ Append(s, r) \in Seq(S)
         /\ Len(Append(s, r)) = Len(s) + 1
         /\ ToSet(Append(s, r)) = ToSet(s) \cup {r}
BY AppendProperties DEF ToSet

LEMMA HeadTailSet ==
  ASSUME NEW S, NEW s \in Seq(S), s # <<>>
  PROVE  /\ Head(s) \in S /\ Tail(s) \in Seq(S)
         /\ Len(Tail(s)) = Len(s) - 1
         /\ ToSet(s) = {Head(s)} \cup ToSet(Tail(s))
<1>1. /\ Head(s) = s[1] /\ Tail(s) \in Seq(S) /\ Len(Tail(s)) = Len(s) - 1
      /\ Len(s) \in Nat /\ Len(s) > 0 /\ \A i \in 1..Len(s) : s[i] \in S
      /\ \A i \in 1..Len(Tail(s)) : Tail(s)[i] = s[i + 1]
  BY HeadTailProperties, EmptySeq, LenProperties, ElementOfSeq
<1>2. ASSUME NEW i \in 1..Len(s)
      PROVE  s[i] = Head(s) \/ \E j \in 1..Len(Tail(s)) : Tail(s)[j] = s[i]
  <2>1. CASE i = 1 BY <1>1, <2>1
  <2>2. CASE i # 1
    <3>1. i - 1 \in 1..Len(Tail(s)) /\ Tail(s)[i - 1] = s[(i - 1) + 1] /\ (i - 1) + 1 = i
      BY <1>1, <2>2
    <3> QED BY <3>1
  <2> QED BY <2>1, <2>2
<1>3. \A i \in 1..Len(Tail(s)) : i + 1 \in 1..Len(s)
  BY <1>1
<1>4. DOMAIN s = 1..Len(s) /\ DOMAIN Tail(s) = 1..Len(Tail(s)) /\ 1 \in 1..Len(s)
  BY <1>1, LenProperties
<1>5. ToSet(s) \subseteq {Head(s)} \cup ToSet(Tail(s)) BY <1>2, <1>4 DEF ToSet
<1>6. ToSet(Tail(s)) \subseteq ToSet(s) BY <1>1, <1>3, <1>4 DEF ToSet
<1>7. Head(s) \in ToSet(s) /\ Head(s) \in S BY <1>1, <1>4 DEF ToSet
<1> QED BY <1>1, <1>5, <1>6, <1>7

\* A part of a sequence holds elements of it.
LEMMA PartSet ==
  ASSUME NEW S, NEW s \in Seq(S), NEW m \in Nat \ {0}, NEW n \in 0..Len(s)
  PROVE  SubSeq(s, m, n) \in Seq(S) /\ ToSet(SubSeq(s, m, n)) \subseteq S
<1>1. \A i \in m..n : s[i] \in S BY LenProperties, ElementOfSeq
<1>2. SubSeq(s, m, n) \in Seq(S) BY <1>1, SubSeqProperties
<1>3. SubSeq(s, m, n) \in [1..Len(SubSeq(s, m, n)) -> S] BY <1>2, LenProperties
<1> QED BY <1>2, <1>3 DEF ToSet

LEMMA FrontFacts ==
  ASSUME NEW S, NEW s \in Seq(S), s # <<>>
  PROVE  Front(s) \in Seq(S) /\ Len(Front(s)) = Len(s) - 1
<1>1. Len(s) \in Nat /\ Len(s) > 0 /\ \A i \in 1..(Len(s) - 1) : s[i] \in S
  BY LenProperties, EmptySeq, ElementOfSeq
<1>2. 1 \in Int /\ Len(s) - 1 \in Int BY <1>1
<1> DEFINE t == SubSeq(s, 1, Len(s) - 1)
<1>3. /\ t \in Seq(S)
      /\ Len(t) = IF 1 <= Len(s) - 1 THEN Len(s) - 1 - 1 + 1 ELSE 0
  BY <1>1, <1>2, SubSeqProperties
<1>4. Front(s) = t BY DEF Front
<1> HIDE DEF t
<1> QED BY <1>1, <1>3, <1>4

LEMMA EmptyFacts == /\ EmptyLog \in Log /\ EmptyLog.recs = <<>> /\ EmptyLog.open = FALSE
                    /\ InLog(EmptyLog) = {} /\ ToSet(<<>>) = {}
BY DEF EmptyLog, Log, InLog, ToSet

\* The events of a file are finitely many.
LEMMA FileFinite ==
  ASSUME NEW log \in Log
  PROVE  IsFiniteSet(InLog(log)) /\ InLog(log) \subseteq Events
<1> DEFINE s == log.recs
<1>1. s \in Seq(Records) /\ Len(s) \in Nat BY LenProperties DEF Log
<1>2. IsFiniteSet(1..Len(s)) BY <1>1, FS_Interval
<1>3. s \in Surjection(1..Len(s), ToSet(s)) BY <1>1, LenProperties DEF Surjection, ToSet
<1>4. IsFiniteSet(ToSet(s)) /\ InLog(log) \subseteq ToSet(s) BY <1>2, <1>3, FS_Surjection DEF InLog
<1> QED BY <1>4, FS_Subset DEF InLog

\* A line written to a file without a torn line keeps what is there.
LEMMA WriteFacts ==
  ASSUME NEW log \in Log, NEW r \in Records, log.open => log.recs # <<>>
  PROVE  /\ write_record(log, r) \in Log
         /\ ~write_record(log, r).open
         /\ Len(write_record(log, r).recs)
              = IF log.open THEN Len(log.recs) ELSE Len(log.recs) + 1
         /\ ~log.open => InLog(write_record(log, r)) = InLog(log) \cup ({r} \cap Events)
<1>1. log.recs \in Seq(Records) /\ Garbage \in Records BY DEF Log, Records
<1>2. CASE log.open
  <2>1. Front(log.recs) \in Seq(Records) /\ Len(Front(log.recs)) = Len(log.recs) - 1
    BY <1>1, <1>2, FrontFacts
  <2>2. /\ Append(Front(log.recs), Garbage) \in Seq(Records)
        /\ Len(Append(Front(log.recs), Garbage)) = Len(log.recs)
    BY <1>1, <2>1, AppendSet, LenProperties
  <2> QED BY <1>2, <2>2 DEF write_record, Log
<1>3. CASE ~log.open
  <2>1. /\ Append(log.recs, r) \in Seq(Records)
        /\ Len(Append(log.recs, r)) = Len(log.recs) + 1
        /\ ToSet(Append(log.recs, r)) = ToSet(log.recs) \cup {r}
    BY <1>1, AppendSet
  <2> QED BY <1>3, <2>1 DEF write_record, Log, InLog
<1> QED BY <1>2, <1>3

LEMMA TornFacts ==
  ASSUME NEW log \in Log, NEW r \in Records, log.open => log.recs # <<>>,
         NEW l \in TornWrite(log, r)
  PROVE  l \in Log /\ l.recs # <<>>
<1>1. log.recs \in Seq(Records) /\ Garbage \in Records BY DEF Log, Records
<1>2. CASE log.open
  <2>1. Front(log.recs) \in Seq(Records)
    BY <1>1, <1>2, FrontFacts
  <2>2. /\ Append(Front(log.recs), Garbage) \in Seq(Records)
        /\ Append(Front(log.recs), Garbage) # <<>>
    BY <1>1, <2>1, AppendProperties
  <2>3. l = [recs |-> Append(Front(log.recs), Garbage), open |-> TRUE] BY <1>2 DEF TornWrite
  <2> QED BY <2>2, <2>3 DEF Log
<1>3. CASE ~log.open
  <2>1. \A q \in Records : Append(log.recs, q) \in Seq(Records) /\ Append(log.recs, q) # <<>>
    BY <1>1, AppendProperties
  <2>2. PICK q \in Records : l = [recs |-> Append(log.recs, q), open |-> TRUE]
    BY <1>1, <1>3 DEF TornWrite
  <2> QED BY <2>1, <2>2 DEF Log
<1> QED BY <1>2, <1>3

-----------------------------------------------------------------------------
(* The invariant *)

LEMMA InitInv == Init => Inv
<1> SUFFICES ASSUME Init PROVE Inv
  OBVIOUS
<1> USE SinkAssumption, EmptyFacts DEF Init
<1>1. /\ file \in Log /\ file.open = FALSE
      /\ InLog(file) \subseteq Events
  <2>1. ASSUME NEW e \in Evidence PROVE [recs |-> <<e>>, open |-> FALSE] \in Log
    BY DEF Log, Records
  <2> QED BY <2>1, FileFinite
<1>2. TypeOK
  <2>1. draining \in BOOLEAN /\ exit \in BOOLEAN /\ closed \in BOOLEAN /\ harmed \in BOOLEAN
    BY Zenon
  <2>2. /\ channel \in Seq(Events) /\ queue \in Seq(Events) /\ Len(queue) = 0
        /\ kept \in Seq(Records)
    OBVIOUS
  <2> QED BY <1>1, <2>1, <2>2 DEF TypeOK
<1>3. IsFiniteSet(batch) BY FS_EmptySet
<1> QED
  BY <1>1, <1>2, <1>3
  DEF Inv, ControlInv, Appending, SizeInv, Running, FaultFreeInv, HandedInv, LiveAfterReplay,
      BufferedStaysUnharmed, BufferedStays, DrainedIsHandled

\* A step that leaves the buffer alone loses nothing from it.
LEMMA BufferFrame ==
  ASSUME Inv, UNCHANGED buffer, collected \subseteq collected'
  PROVE  /\ InLog(file)' = InLog(file) /\ ToSet(kept)' = ToSet(kept)
         /\ BufferedStaysUnharmed'
BY DEF Inv, buffer, BufferedStaysUnharmed, BufferedStays, Held, InLog

\* The channel and the exit token.
LEMMA InputStep ==
  ASSUME Inv, Drain \/ Close \/ Exit \/ \E e \in Events : Send(e)
  PROVE  Inv'
<1>1. UNCHANGED <<at, before, cur, live, batch, buffer, collected, crashes>>
  BY DEF Drain, Close, Exit, Send, input
<1>2. BufferedStaysUnharmed' /\ InLog(file)' = InLog(file) BY <1>1, BufferFrame
<1>3. TypeOK BY DEF Inv
<1>4. \/ sent' = sent /\ channel' = channel
      \/ \E e \in Events : Running /\ sent' = sent \cup {e} /\ channel' = Append(channel, e)
  BY DEF Drain, Close, Exit, Send, input
<1>5. /\ channel' \in Seq(Events) /\ sent' \subseteq Events
      /\ \A e \in sent' : e \in sent \/ e \in ToSet(channel')
      /\ ToSet(channel) \subseteq ToSet(channel')
  <2>1. CASE sent' = sent /\ channel' = channel BY <1>3, <2>1 DEF TypeOK
  <2>2. ASSUME NEW e \in Events, sent' = sent \cup {e}, channel' = Append(channel, e)
        PROVE  /\ channel' \in Seq(Events) /\ sent' \subseteq Events
               /\ \A d \in sent' : d \in sent \/ d \in ToSet(channel')
               /\ ToSet(channel) \subseteq ToSet(channel')
    <3>1. channel' \in Seq(Events) /\ ToSet(channel') = ToSet(channel) \cup {e}
      BY <1>3, <2>2, AppendSet DEF TypeOK
    <3> QED BY <1>3, <2>2, <3>1 DEF TypeOK
  <2> QED BY <1>4, <2>1, <2>2
<1>6. draining' \in BOOLEAN /\ exit' \in BOOLEAN /\ closed' \in BOOLEAN
  BY <1>3, Zenon DEF Drain, Close, Exit, Send, input, TypeOK
<1>7. TypeOK' BY <1>1, <1>3, <1>5, <1>6 DEF TypeOK, live, buffer
<1>8. ControlInv' /\ SizeInv' /\ FaultFreeInv'
  BY <1>1, <1>2 DEF Inv, ControlInv, SizeInv, FaultFreeInv, live, buffer, Running
<1>9. HandedInv'
  <2>1. UNCHANGED <<at, before, cur, streamed, buffered>> BY <1>1 DEF live, buffer
  <2> SUFFICES ASSUME Running, NEW e \in sent' \ before
               PROVE  e \in streamed \cup buffered \cup ToSet(channel') \/ (at \in Appending /\ e = cur)
    BY <2>1 DEF HandedInv, Running
  <2> QED BY <1>5 DEF Inv, HandedInv
<1>10. LiveAfterReplay' BY <1>1, <1>2 DEF Inv, LiveAfterReplay, live
<1>11. DrainedIsHandled'
  BY <1>1, <1>4 DEF Inv, DrainedIsHandled, live, buffer, Running
<1> QED BY <1>2, <1>7, <1>8, <1>9, <1>10, <1>11 DEF Inv

\* What the collector may read of a stream that is given up.
LEMMA LeaveFacts ==
  ASSUME TypeOK, LeaveStream
  PROVE  /\ collected \subseteq collected' /\ collected' \subseteq Events
         /\ stream' = "none" /\ queue' = <<>>
<1>1. PICK n \in 0..Len(queue) : collected' = collected \cup ToSet(SubSeq(queue, 1, n))
  BY DEF LeaveStream
<1>2. ToSet(SubSeq(queue, 1, n)) \subseteq Events BY PartSet DEF TypeOK
<1> QED BY <1>1, <1>2 DEF LeaveStream, TypeOK

\* The event at the head of the channel leaves it.
LEMMA ReceiveFacts ==
  ASSUME TypeOK, NEW e, Receives(e)
  PROVE  /\ at = "loop" /\ e \in Events /\ channel' \in Seq(Events)
         /\ ToSet(channel) = {e} \cup ToSet(channel')
         /\ UNCHANGED <<draining, exit, closed, sent, before>>
BY HeadTailSet DEF TypeOK, Receives

\* Events leave the channel, and the stream is used or given up.
LEMMA StreamStep ==
  ASSUME Inv, \/ Returned \/ RefuseEvidence
              \/ \E e \in Events \ Evidence : StreamSend(e) \/ AppendBegin(e)
              \/ CollectorReads \/ StreamBreaks
  PROVE  Inv'
<1>0. TypeOK BY DEF Inv
<1>1. CASE Returned
  <2>1. LeaveStream /\ at = "loop" /\ at' = "returned" /\ channel = <<>>
        /\ UNCHANGED <<draining, input, cur, streamed, batch, buffer, crashes>>
    BY <1>1 DEF Returned
  <2>2. /\ collected \subseteq collected' /\ collected' \subseteq Events
        /\ stream' = "none" /\ queue' = <<>>
    BY <1>0, <2>1, LeaveFacts
  <2>3. BufferedStaysUnharmed' /\ InLog(file)' = InLog(file) BY <2>1, <2>2, BufferFrame
  <2>4. TypeOK' BY <1>0, <2>1, <2>2, SinkAssumption DEF TypeOK, input, buffer
  <2>5. DrainedIsHandled'
    BY <2>1, EmptyFacts DEF Inv, HandedInv, DrainedIsHandled, Running, Appending, input, buffer
  <2> QED
    BY <2>1, <2>2, <2>3, <2>4, <2>5
    DEF Inv, ControlInv, SizeInv, FaultFreeInv, HandedInv, LiveAfterReplay, Running, Appending,
        buffer
<1>2. CASE RefuseEvidence
  <2>1. PICK e \in Evidence : Receives(e) BY <1>2 DEF RefuseEvidence
  <2>2. at' = "failed" /\ UNCHANGED <<cur, live, batch, buffer, collected, crashes>>
    BY <1>2 DEF RefuseEvidence
  <2>3. /\ at = "loop" /\ channel' \in Seq(Events)
        /\ UNCHANGED <<draining, exit, closed, sent, before>>
    BY <1>0, <2>1, ReceiveFacts
  <2>4. BufferedStaysUnharmed' /\ InLog(file)' = InLog(file) BY <2>2, BufferFrame
  <2>5. TypeOK' BY <1>0, <2>2, <2>3 DEF TypeOK, live, buffer
  <2> QED
    BY <2>2, <2>3, <2>4, <2>5
    DEF Inv, ControlInv, SizeInv, FaultFreeInv, HandedInv, LiveAfterReplay, DrainedIsHandled,
        Running, Appending, live, buffer
<1>3. ASSUME NEW e \in Events \ Evidence, StreamSend(e)
      PROVE  Inv'
  <2>1. Receives(e) /\ queue' = Append(queue, e) /\ streamed' = streamed \cup {e}
        /\ Len(queue) < QueueCapacity
        /\ UNCHANGED <<at, cur, stream, batch, buffer, collected, crashes>>
    BY <1>3 DEF StreamSend
  <2>2. /\ at = "loop" /\ channel' \in Seq(Events) /\ ToSet(channel) = {e} \cup ToSet(channel')
        /\ UNCHANGED <<draining, exit, closed, sent, before>>
    BY <1>0, <2>1, ReceiveFacts
  <2>3. BufferedStaysUnharmed' /\ InLog(file)' = InLog(file) BY <2>1, BufferFrame
  <2>4. queue' \in Seq(Events) /\ Len(queue') = Len(queue) + 1 /\ Len(queue) \in Nat
    BY <1>0, <2>1, AppendSet, LenProperties DEF TypeOK
  <2>5. TypeOK' BY <1>0, <2>1, <2>2, <2>4, SinkAssumption DEF TypeOK, buffer
  <2>6. HandedInv' BY <2>1, <2>2 DEF Inv, HandedInv, Running, Appending, buffer
  <2> QED
    BY <2>1, <2>2, <2>3, <2>5, <2>6
    DEF Inv, ControlInv, SizeInv, FaultFreeInv, LiveAfterReplay, DrainedIsHandled,
        Running, Appending, buffer
<1>4. ASSUME NEW e \in Events \ Evidence, AppendBegin(e)
      PROVE  Inv'
  <2>1. Receives(e) /\ LeaveStream /\ cur' = e /\ at' = "appending"
        /\ UNCHANGED <<streamed, batch, buffer, crashes>>
    BY <1>4 DEF AppendBegin
  <2>2. /\ at = "loop" /\ channel' \in Seq(Events) /\ ToSet(channel) = {e} \cup ToSet(channel')
        /\ UNCHANGED <<draining, exit, closed, sent, before>>
    BY <1>0, <2>1, ReceiveFacts
  <2>3. /\ collected \subseteq collected' /\ collected' \subseteq Events
        /\ stream' = "none" /\ queue' = <<>>
    BY <1>0, <2>1, LeaveFacts
  <2>4. BufferedStaysUnharmed' /\ InLog(file)' = InLog(file) BY <2>1, <2>3, BufferFrame
  <2>5. TypeOK' BY <1>0, <2>1, <2>2, <2>3, SinkAssumption DEF TypeOK, buffer
  <2>6. HandedInv' BY <2>1, <2>2 DEF Inv, HandedInv, Running, Appending, buffer
  <2> QED
    BY <2>1, <2>2, <2>3, <2>4, <2>5, <2>6
    DEF Inv, ControlInv, SizeInv, FaultFreeInv, LiveAfterReplay, DrainedIsHandled,
        Running, Appending, buffer
<1>5. CASE CollectorReads \/ StreamBreaks
  <2>1. /\ UNCHANGED <<at, draining, input, cur, streamed, batch, buffer, crashes>>
        /\ stream = "open" /\ stream' \in {"open", "broken"}
    BY <1>5 DEF CollectorReads, StreamBreaks
  <2>2. \/ queue' = <<>> /\ collected' = collected
        \/ queue # <<>> /\ queue' = Tail(queue) /\ collected' = collected \cup {Head(queue)}
    BY <1>5 DEF CollectorReads, StreamBreaks
  <2>3. /\ queue' \in Seq(Events) /\ Len(queue') <= QueueCapacity
        /\ collected \subseteq collected' /\ collected' \subseteq Events
    <3>1. queue \in Seq(Events) /\ Len(queue) \in Nat /\ Len(queue) <= QueueCapacity
          /\ collected \subseteq Events /\ QueueCapacity \in Nat
      BY <1>0, LenProperties, SinkAssumption DEF TypeOK
    <3>2. CASE queue' = <<>> /\ collected' = collected BY <3>1, <3>2
    <3>3. CASE queue # <<>> /\ queue' = Tail(queue) /\ collected' = collected \cup {Head(queue)}
      <4>1. Head(queue) \in Events /\ queue' \in Seq(Events) /\ Len(queue') = Len(queue) - 1
        BY <3>1, <3>3, HeadTailSet
      <4> QED BY <3>1, <3>3, <4>1
    <3> QED BY <2>2, <3>2, <3>3
  <2>4. BufferedStaysUnharmed' /\ InLog(file)' = InLog(file) BY <2>1, <2>3, BufferFrame
  <2>5. TypeOK' BY <1>0, <2>1, <2>3 DEF TypeOK, input, buffer
  <2> QED
    BY <2>1, <2>4, <2>5
    DEF Inv, ControlInv, SizeInv, FaultFreeInv, HandedInv, LiveAfterReplay, DrainedIsHandled,
        Running, Appending, input, buffer
<1> QED BY <1>1, <1>2, <1>3, <1>4, <1>5

\* The lines a compaction keeps are lines of the file, however many there are.
LEMMA NewestFacts ==
  ASSUME NEW lines \in Seq(Records), NEW n \in Nat
  PROVE  Newest(lines, n) \in Seq(Records)
<1>1. Len(lines) \in Nat BY LenProperties
<1> DEFINE first == Len(lines) - (IF n > 0 THEN n ELSE 1) + 1
           m == IF first > 0 THEN first ELSE 1
<1>2. m \in Nat \ {0} BY <1>1
<1>3. Len(lines) \in 0..Len(lines) BY <1>1
<1>4. SubSeq(lines, m, Len(lines)) \in Seq(Records) BY <1>2, <1>3, PartSet
<1> QED BY <1>4 DEF Newest

\* One event goes into the buffer.
LEMMA AppendStep ==
  ASSUME Inv, AppendFits \/ Compact \/ CompactWrite \/ AppendWrite \/ AppendFails
  PROVE  Inv'
<1>0. /\ TypeOK /\ stream = "none" /\ cur \in Events /\ at \in Appending
      /\ file \in Log /\ file.recs \in Seq(Records) /\ Len(file.recs) \in Nat
  BY LenProperties
  DEF Inv, TypeOK, ControlInv, Appending, AppendFits, Compact, CompactWrite, AppendWrite,
      AppendFails, Log
<1>1. UNCHANGED <<draining, input, live, batch, collected, crashes>>
  BY DEF AppendFits, Compact, CompactWrite, AppendWrite, AppendFails
<1>2. LiveAfterReplay' BY <1>0, <1>1 DEF LiveAfterReplay, live
<1>3. at' # "returned" /\ at' # "replaying" /\ at' # "opening"
  BY DEF AppendFits, Compact, CompactWrite, AppendWrite, AppendFails
<1>4. DrainedIsHandled' BY <1>3 DEF DrainedIsHandled
<1>5. CASE AppendFits
  <2>1. at = "appending" /\ at' = "writing" /\ UNCHANGED <<cur, buffer>> BY <1>5 DEF AppendFits
  <2>2. BufferedStaysUnharmed' /\ InLog(file)' = InLog(file) BY <1>1, <2>1, BufferFrame
  <2>3. TypeOK' BY <1>0, <1>1, <2>1 DEF TypeOK, input, live, buffer
  <2> QED
    BY <1>0, <1>1, <1>2, <1>4, <2>1, <2>2, <2>3
    DEF Inv, ControlInv, SizeInv, FaultFreeInv, HandedInv, Running, Appending, input, live, buffer
<1>6. CASE Compact
  <2>1. /\ at = "appending" /\ at' = "compacting"
        /\ kept' = Newest(file.recs, cap \div 2)
        /\ evicted' = evicted \cup (InLog(file) \ ToSet(kept'))
        /\ file' = EmptyLog
        /\ UNCHANGED <<cur, cap, size, buffered, harmed>>
    BY <1>6 DEF Compact
  <2>3. cap \div 2 \in Nat
    BY <1>0 DEF TypeOK
  <2>4. kept' \in Seq(Records) BY <1>0, <2>1, <2>3, NewestFacts
  <2>5. InLog(file) \subseteq Events BY <1>0, FileFinite
  <2>6. TypeOK' BY <1>0, <1>1, <2>1, <2>4, <2>5, EmptyFacts DEF TypeOK, input, live
  <2>7. BufferedStaysUnharmed'
    BY <1>1, <2>1, EmptyFacts
    DEF Inv, BufferedStaysUnharmed, BufferedStays, Held, FaultFreeInv
  <2> QED
    BY <1>0, <1>1, <1>2, <1>4, <2>1, <2>6, <2>7, EmptyFacts
    DEF Inv, ControlInv, SizeInv, FaultFreeInv, HandedInv, Running, Appending, input, live
<1>7. CASE CompactWrite
  <2>1. /\ at = "compacting" /\ at' = "writing" /\ kept' = <<>> /\ size' = Len(kept)
        /\ file' = [recs |-> kept, open |-> FALSE]
        /\ UNCHANGED <<cur, cap, buffered, evicted, harmed>>
    BY <1>7 DEF CompactWrite
  <2>2. /\ file = EmptyLog /\ kept \in Seq(Records) /\ Len(kept) \in Nat
        /\ file' \in Log /\ file'.recs = kept /\ file'.open = FALSE
    BY <1>0, <2>1, LenProperties DEF Inv, ControlInv, TypeOK, Log
  <2>3. TypeOK' BY <1>0, <1>1, <2>1, <2>2, EmptyFacts DEF TypeOK, input, live
  <2>4. InLog(file)' = ToSet(kept) \cap Events BY <2>2 DEF InLog
  <2>5. BufferedStaysUnharmed'
    BY <1>0, <1>1, <2>1, <2>2, <2>4, EmptyFacts
    DEF Inv, BufferedStaysUnharmed, BufferedStays, Held, TypeOK
  <2> QED
    BY <1>0, <1>1, <1>2, <1>4, <2>1, <2>2, <2>3, <2>5
    DEF Inv, ControlInv, SizeInv, FaultFreeInv, HandedInv, Running, Appending, input, live
<1>8. CASE AppendWrite
  <2>1. /\ at = "writing" /\ at' = "loop" /\ file' = write_record(file, cur) /\ size' = size + 1
        /\ buffered' = buffered \cup {cur} /\ cur' = NoEvent
        /\ UNCHANGED <<kept, cap, evicted, harmed>>
    BY <1>8 DEF AppendWrite
  <2>2. /\ file' \in Log /\ ~file'.open
        /\ Len(file'.recs) = IF file.open THEN Len(file.recs) ELSE Len(file.recs) + 1
        /\ ~file.open => InLog(file)' = InLog(file) \cup {cur}
    <3>1. (file.open => file.recs # <<>>) /\ cur \in Records /\ {cur} \cap Events = {cur}
      BY <1>0 DEF Inv, FaultFreeInv, Records
    <3>2. InLog(file)' = InLog(file') BY DEF InLog
    <3> QED BY <1>0, <2>1, <3>1, <3>2, WriteFacts
  <2>3. TypeOK' BY <1>0, <1>1, <2>1, <2>2 DEF TypeOK, input, live
  <2>4. SizeInv'
    BY <1>0, <2>1, <2>2 DEF Inv, SizeInv, Running, TypeOK
  <2>5. BufferedStaysUnharmed'
    BY <1>1, <2>1, <2>2
    DEF Inv, BufferedStaysUnharmed, BufferedStays, Held, FaultFreeInv
  <2>6. HandedInv'
    BY <1>1, <2>1 DEF Inv, HandedInv, Running, Appending, input, live
  <2> QED
    BY <1>0, <1>1, <1>2, <1>4, <2>1, <2>2, <2>3, <2>4, <2>5, <2>6
    DEF Inv, ControlInv, FaultFreeInv, Appending, input, live
<1>9. CASE AppendFails
  <2>1. /\ at = "writing" /\ at' = "failed" /\ file' \in {file} \cup TornWrite(file, cur)
        /\ harmed' = (harmed \/ file' # file)
        /\ UNCHANGED <<cur, kept, cap, size, buffered, evicted>>
    BY <1>9 DEF AppendFails
  <2>2. file' \in Log /\ (file'.open => file'.recs # <<>>)
    <3>1. (file.open => file.recs # <<>>) /\ cur \in Records
      BY <1>0 DEF Inv, FaultFreeInv, Records
    <3> QED BY <1>0, <2>1, <3>1, TornFacts
  <2>3. harmed' \in BOOLEAN BY <2>1, Zenon
  <2>4. ~harmed' => ~harmed /\ file' = file BY <2>1, Zenon
  <2>5. TypeOK' BY <1>0, <1>1, <2>1, <2>2, <2>3 DEF TypeOK, input, live
  <2>6. BufferedStaysUnharmed'
    BY <1>1, <2>1, <2>4
    DEF Inv, BufferedStaysUnharmed, BufferedStays, Held, InLog
  <2> QED
    BY <1>0, <1>1, <1>2, <1>4, <2>1, <2>2, <2>4, <2>5, <2>6
    DEF Inv, ControlInv, SizeInv, FaultFreeInv, HandedInv, Running, Appending, input, live
<1> QED BY <1>5, <1>6, <1>7, <1>8, <1>9

\* The buffer is read, replayed and cleared, and the stream opens.
LEMMA ReplayStep ==
  ASSUME Inv, \/ ReplayBegin \/ ReplayAbandoned
              \/ \E got \in SUBSET batch : ReplayAnswered(got)
              \/ OpenStream \/ OpenFails
  PROVE  Inv'
<1>0. /\ TypeOK /\ file \in Log /\ file.recs \in Seq(Records)
      /\ IsFiniteSet(InLog(file)) /\ InLog(file) \subseteq Events
      /\ IsFiniteSet({})
  BY FileFinite, FS_EmptySet DEF Inv, TypeOK, Log
<1>1. CASE ReplayBegin
  <2>1. /\ at = "loop" /\ stream = "none" /\ at' = "replaying"
        /\ UNCHANGED <<draining, input, cur, live, kept, cap, size, file, buffered, evicted,
                       collected, crashes>>
    BY <1>1 DEF ReplayBegin, Reconnecting
  <2>2. \/ batch' = InLog(file) /\ harmed' = harmed
        \/ batch' = {} /\ harmed' = TRUE
    BY <1>1 DEF ReplayBegin
  <2>3. harmed' \in BOOLEAN /\ (~harmed' => ~harmed /\ batch' = InLog(file))
    BY <1>0, <2>2 DEF TypeOK
  <2>4. batch' \subseteq Events /\ IsFiniteSet(batch') BY <1>0, <2>2
  <2>5. TypeOK' BY <1>0, <2>1, <2>3, <2>4 DEF TypeOK, input, live
  <2>6. InLog(file)' = InLog(file) /\ ToSet(kept)' = ToSet(kept) BY <2>1 DEF InLog
  <2>7. BufferedStaysUnharmed'
    BY <2>1, <2>3, <2>6 DEF Inv, BufferedStaysUnharmed, BufferedStays, Held
  <2>8. HandedInv' /\ DrainedIsHandled' /\ LiveAfterReplay'
    BY <2>1, <2>6 DEF Inv, HandedInv, DrainedIsHandled, LiveAfterReplay, Running, Appending, input, live
  <2>9. ControlInv' /\ SizeInv'
    BY <2>1 DEF Inv, ControlInv, SizeInv, Running, Appending, live
  <2>10. FaultFreeInv' BY <2>1, <2>3, <2>4, <2>6 DEF Inv, FaultFreeInv
  <2> QED BY <2>5, <2>7, <2>8, <2>9, <2>10 DEF Inv
<1>2. CASE ReplayAbandoned
  <2>1. PICK got \in SUBSET batch : collected' = collected \cup got BY <1>2 DEF ReplayAbandoned
  <2>2. /\ at = "replaying" /\ at' = "loop" /\ batch' = {}
        /\ UNCHANGED <<draining, input, cur, live, buffer, crashes>>
    BY <1>2 DEF ReplayAbandoned
  <2>3. BufferedStaysUnharmed' /\ InLog(file)' = InLog(file) BY <2>1, <2>2, BufferFrame
  <2>4. TypeOK' BY <1>0, <2>1, <2>2 DEF TypeOK, input, live, buffer
  <2> QED
    BY <1>0, <2>2, <2>3, <2>4
    DEF Inv, ControlInv, SizeInv, FaultFreeInv, HandedInv, LiveAfterReplay, DrainedIsHandled,
        Running, Appending, input, live, buffer
<1>3. ASSUME NEW got \in SUBSET batch, ReplayAnswered(got)
      PROVE  Inv'
  <2>1. /\ at = "replaying" /\ collected' = collected \cup got /\ batch' = {}
        /\ UNCHANGED <<draining, input, cur, live, kept, cap, buffered, evicted, harmed, crashes>>
    BY <1>3 DEF ReplayAnswered
  <2>2. stream = "none" /\ stream' = "none" /\ collected' \subseteq Events
    BY <1>0, <2>1 DEF Inv, ControlInv, TypeOK, live
  <2>3. CASE replay_is_complete(Cardinality(got))
    <3>1. file' = EmptyLog /\ size' = 0 /\ at' = "opening" BY <1>3, <2>3 DEF ReplayAnswered
    \* A full count names every event of the batch.
    <3>2. got = batch
      <4>1. IsFiniteSet(batch) BY DEF Inv, FaultFreeInv
      <4>2. IsFiniteSet(got) /\ Cardinality(got) <= Cardinality(batch)
            /\ (Cardinality(batch) = Cardinality(got) => batch = got)
        BY <4>1, FS_Subset
      <4>3. Cardinality(got) \in Nat /\ Cardinality(batch) \in Nat
        BY <4>1, <4>2, FS_CardinalityType
      <4>4. Cardinality(got) >= Cardinality(batch) BY <2>3 DEF replay_is_complete
      <4> QED BY <4>2, <4>3, <4>4
    <3>3. TypeOK' BY <1>0, <2>1, <2>2, <3>1, EmptyFacts DEF TypeOK, input, live
    <3>4. BufferedStaysUnharmed'
      BY <2>1, <3>1, <3>2
      DEF Inv, BufferedStaysUnharmed, BufferedStays, Held, FaultFreeInv
    <3>5. HandedInv' /\ DrainedIsHandled' /\ LiveAfterReplay'
      BY <2>1, <2>2, <3>1
      DEF Inv, HandedInv, DrainedIsHandled, LiveAfterReplay, Running, Appending, input, live
    <3>6. ControlInv' /\ SizeInv'
      BY <2>1, <2>2, <3>1, EmptyFacts DEF Inv, ControlInv, SizeInv, Running, Appending
    <3>7. FaultFreeInv' BY <1>0, <2>1, <3>1, EmptyFacts DEF Inv, FaultFreeInv
    <3> QED BY <3>3, <3>4, <3>5, <3>6, <3>7 DEF Inv
  <2>4. CASE ~replay_is_complete(Cardinality(got))
    <3>1. UNCHANGED buffer /\ at' = "loop" BY <1>3, <2>1, <2>4 DEF ReplayAnswered, buffer
    <3>2. BufferedStaysUnharmed' /\ InLog(file)' = InLog(file) BY <2>1, <3>1, BufferFrame
    <3>3. TypeOK' BY <1>0, <2>1, <2>2, <3>1 DEF TypeOK, input, live, buffer
    <3> QED
      BY <1>0, <2>1, <2>2, <3>1, <3>2, <3>3
      DEF Inv, ControlInv, SizeInv, FaultFreeInv, HandedInv, LiveAfterReplay, DrainedIsHandled,
          Running, Appending, input, live, buffer
  <2> QED BY <2>3, <2>4
<1>4. CASE OpenStream \/ OpenFails
  <2>1. /\ at \in {"opening", "loop"} /\ at' = "loop" /\ stream' \in {stream, "open"}
        /\ UNCHANGED <<draining, input, cur, queue, streamed, batch, buffer, collected, crashes>>
    BY <1>4 DEF OpenStream, OpenFails, Reconnecting, live
  <2>2. BufferedStaysUnharmed' /\ InLog(file)' = InLog(file) BY <2>1, BufferFrame
  <2>3. TypeOK' BY <1>0, <2>1 DEF TypeOK, input, buffer
  <2>4. LiveAfterReplay'
    <3>1. CASE at = "opening"
      BY <2>2, <3>1, EmptyFacts DEF Inv, ControlInv, LiveAfterReplay
    <3>2. CASE OpenStream /\ at = "loop"
      <4>1. size = 0 BY <3>2 DEF OpenStream
      <4>2. Len(file.recs) = 0
        BY <1>0, <3>2, <4>1, LenProperties DEF Inv, SizeInv, Running
      <4>3. file.recs = <<>> BY <1>0, <4>2, EmptySeq
      <4> QED BY <2>2, <4>3, EmptyFacts DEF LiveAfterReplay, InLog
    <3> QED BY <1>4, <2>1, <3>1, <3>2 DEF OpenFails
  <2>5. ControlInv' /\ SizeInv' /\ FaultFreeInv'
    BY <2>1, <2>2, EmptyFacts
    DEF Inv, ControlInv, SizeInv, FaultFreeInv, Running, Appending, buffer
  <2>6. HandedInv' /\ DrainedIsHandled'
    BY <2>1 DEF Inv, HandedInv, DrainedIsHandled, Running, Appending, input, buffer
  <2> QED BY <2>2, <2>3, <2>4, <2>5, <2>6 DEF Inv
<1> QED BY <1>1, <1>2, <1>3, <1>4

\* The process starts and ends.
LEMMA ProcessStep ==
  ASSUME Inv, Start \/ Crash \/ ProcessEnd \/ UNCHANGED vars
  PROVE  Inv'
<1>0. TypeOK /\ file \in Log /\ file.recs \in Seq(Records) /\ Len(file.recs) \in Nat
  BY LenProperties DEF Inv, TypeOK, Log
<1>1. CASE Start
  <2>1. /\ at = "down" /\ at' \in {"loop", "failed"}
        /\ cap' \in Nat /\ size' = Len(file.recs) /\ before' = sent
        /\ UNCHANGED <<draining, exit, closed, channel, sent, cur, live, batch, kept, file,
                       collected, buffered, evicted, harmed, crashes>>
    BY <1>1, SinkAssumption DEF Start
  <2>2. stream = "none" BY <2>1 DEF Inv, ControlInv
  <2>3. InLog(file)' = InLog(file) /\ ToSet(kept)' = ToSet(kept) BY <2>1 DEF InLog
  <2>4. TypeOK' BY <1>0, <2>1 DEF TypeOK, live
  <2>5. BufferedStaysUnharmed'
    BY <2>1, <2>3 DEF Inv, BufferedStaysUnharmed, BufferedStays, Held
  <2>6. HandedInv' /\ DrainedIsHandled' /\ LiveAfterReplay'
    BY <2>1, <2>2 DEF HandedInv, DrainedIsHandled, LiveAfterReplay, live
  <2>7. ControlInv' /\ SizeInv'
    BY <1>0, <2>1, <2>2 DEF ControlInv, SizeInv, Appending, live
  <2>8. FaultFreeInv' BY <2>1 DEF Inv, FaultFreeInv
  <2> QED BY <2>4, <2>5, <2>6, <2>7, <2>8 DEF Inv
<1>2. CASE Crash \/ ProcessEnd
  <2>1. /\ Gone /\ at' = "down" /\ stream' = "none" /\ batch' = {} /\ kept' = <<>>
        /\ UNCHANGED <<file, sent, buffered, evicted>>
    BY <1>2 DEF Crash, ProcessEnd, Gone, LeaveStream
  <2>2. harmed' \in BOOLEAN BY <1>0, <1>2, Zenon DEF Crash, ProcessEnd, TypeOK
  <2>3. ~harmed' => ~harmed /\ kept = <<>>
    <3>1. ~harmed' => ~harmed /\ at # "compacting"
      BY <1>2, Zenon DEF Crash, ProcessEnd
    <3> QED BY <3>1 DEF Inv, FaultFreeInv
  <2>4. InLog(file)' = InLog(file) BY <2>1 DEF InLog
  <2>5. collected \subseteq collected' /\ collected' \subseteq Events
    <3>1. PICK n \in 0..Len(queue) : collected' = collected \cup ToSet(SubSeq(queue, 1, n))
      BY <2>1 DEF Gone, LeaveStream
    <3>2. ToSet(SubSeq(queue, 1, n)) \subseteq Events BY <1>0, PartSet DEF TypeOK
    <3> QED BY <1>0, <3>1, <3>2 DEF TypeOK
  <2>6. TypeOK'
    <3>1. draining' \in BOOLEAN /\ exit' \in BOOLEAN /\ closed' \in BOOLEAN
      BY <2>1, Zenon DEF Gone
    <3>2. /\ channel' = <<>> /\ queue' = <<>> /\ cur' = NoEvent
          /\ before' = {} /\ streamed' = {} /\ cap' = 0 /\ size' = 0 /\ crashes' = crashes + 1
      BY <2>1 DEF Gone, LeaveStream
    <3>3. /\ channel' \in Seq(Events) /\ kept' \in Seq(Records)
          /\ queue' \in Seq(Events) /\ Len(queue') <= QueueCapacity
      BY <2>1, <3>2, SinkAssumption, EmptySeq
    <3> QED BY <1>0, <2>1, <2>2, <2>5, <3>1, <3>2, <3>3 DEF TypeOK
  <2>7. BufferedStaysUnharmed'
    BY <2>1, <2>3, <2>4, <2>5, EmptyFacts
    DEF Inv, BufferedStaysUnharmed, BufferedStays, Held
  <2>8. FaultFreeInv' BY <2>1, <2>3, FS_EmptySet DEF Inv, FaultFreeInv
  <2> QED
    BY <2>1, <2>6, <2>7, <2>8
    DEF Inv, ControlInv, SizeInv, HandedInv, LiveAfterReplay, DrainedIsHandled, Running, Appending
<1>3. CASE UNCHANGED vars
  BY <1>3
  DEF vars, Inv, TypeOK, ControlInv, SizeInv, FaultFreeInv, HandedInv, LiveAfterReplay,
      BufferedStaysUnharmed, BufferedStays, Held, DrainedIsHandled, Running, InLog
<1> QED BY <1>1, <1>2, <1>3

LEMMA SinkInv == Spec => []Inv
<1>1. Inv /\ [Next]_vars => Inv'
  BY InputStep, StreamStep, AppendStep, ReplayStep, ProcessStep DEF Next, Sink
<1> QED BY InitInv, <1>1, PTL DEF Spec

\* The state of the sink keeps its types: what a compaction keeps is a part of
\* the file (Newest never reads before its first line) and buffer_size is a
\* number of lines.
THEOREM SinkTyped == Spec => []TypeOK
<1>1. Inv => TypeOK BY DEF Inv
<1> QED BY <1>1, SinkInv, PTL

\* An event whose append returned is in the buffer, with the collector or
\* evicted, unless the file system harmed the buffer: no order of appends,
\* compactions, partial answers, lost answers, broken streams and crashes
\* loses one (buffer_append, buffer_compact, replay_buffer).
THEOREM BufferKeeps == Spec => []BufferedStaysUnharmed
<1>1. Inv => BufferedStaysUnharmed BY DEF Inv
<1> QED BY <1>1, SinkInv, PTL

\* A live stream is open only while no event waits in the buffer
\* (attempt_reconnect, handle_event).
THEOREM LiveFollowsReplay == Spec => []LiveAfterReplay
<1>1. Inv => LiveAfterReplay BY DEF Inv
<1> QED BY <1>1, SinkInv, PTL

\* When the sink returns, every event its process was sent was handed to a
\* stream or is in the buffer (drain_events).
THEOREM DrainHandlesAll == Spec => []DrainedIsHandled
<1>1. Inv => DrainedIsHandled BY DEF Inv
<1> QED BY <1>1, SinkInv, PTL
=============================================================================
