------------------------------ MODULE GrpcSink ------------------------------
(***************************************************************************)
(* The streaming audit sink (audit/sink/grpc.rs): a live stream while the  *)
(* collector is reachable, a bounded buffer file while it is not, and a    *)
(* replay of the buffer before live traffic is accepted again.             *)
(*                                                                         *)
(* Lines have length one.  Faults names the failures of the file system    *)
(* that may happen: "write" an append stops half way, "read" the buffer    *)
(* cannot be read, "compact" the process dies while it rewrites the buffer.*)
(***************************************************************************)
EXTENDS JsonLog

CONSTANTS
  Evidence,       \* events with run evidence, which this sink refuses
  Caps,           \* values of buffer_max_bytes, in lines; 0: less than a line
  QueueCapacity,  \* capacity of a stream's channel
  Faults,         \* failures of the file system that may happen
  MaxCrashes      \* bound: crashes

ASSUME SinkAssumption ==
  /\ Evidence \subseteq Events
  /\ Caps \subseteq Nat
  /\ QueueCapacity \in Nat \ {0}
  /\ Faults \subseteq {"write", "read", "compact"}
  /\ MaxCrashes \in Nat

VARIABLES
  at,         \* control state of the sink; "down": no process
  draining,   \* drain_events has begun
  exit,       \* the exit token is cancelled
  closed,     \* the signing adapter has dropped its sender
  channel,    \* events the signing adapter has sent
  cur,        \* the event being appended
  stream,     \* "none", "open", or "broken": the RPC has ended unnoticed
  queue,      \* events in the stream's channel
  batch,      \* events of the replay in progress
  kept,       \* lines a compaction is about to write back
  cap,        \* buffer_max_bytes of this process
  size,       \* RunCtx::buffer_size
  file,       \* the buffer file
  sent,       \* events sent (history)
  before,     \* events sent before this process started (history)
  collected,  \* events the collector holds (history)
  streamed,   \* events this process handed to a live stream (history)
  buffered,   \* events whose append to the buffer returned (history)
  evicted,    \* events compacted away (history)
  harmed,     \* a fault tore, hid or truncated the buffer file (history)
  crashes

vars == <<at, draining, exit, closed, channel, cur, stream, queue, batch, kept,
          cap, size, file, sent, before, collected, streamed, buffered, evicted,
          harmed, crashes>>
input == <<exit, closed, channel, sent, before>>
live == <<stream, queue, streamed>>
buffer == <<kept, cap, size, file, buffered, evicted, harmed>>

NoEvent == Garbage

TypeOK ==
  /\ at \in {"down", "loop", "appending", "compacting", "writing", "replaying",
             "opening", "failed", "returned"}
  /\ draining \in BOOLEAN /\ exit \in BOOLEAN /\ closed \in BOOLEAN /\ harmed \in BOOLEAN
  /\ channel \in Seq(Events)
  /\ cur \in Events \cup {NoEvent}
  /\ stream \in {"none", "open", "broken"}
  /\ queue \in Seq(Events) /\ Len(queue) <= QueueCapacity
  /\ batch \subseteq Events
  /\ kept \in Seq(Records)
  /\ cap \in Nat /\ size \in Nat
  /\ file \in Log
  /\ sent \subseteq Events /\ before \subseteq Events
  /\ collected \subseteq Events /\ streamed \subseteq Events
  /\ buffered \subseteq Events /\ evicted \subseteq Events
  /\ crashes \in Nat

\* The buffer may hold an event that an earlier version of the sink left.
Init ==
  /\ at = "down" /\ draining = FALSE /\ exit = FALSE /\ closed = FALSE
  /\ channel = <<>> /\ cur = NoEvent
  /\ stream = "none" /\ queue = <<>> /\ batch = {}
  /\ kept = <<>> /\ cap = 0 /\ size = 0
  /\ file \in {EmptyLog} \cup {[recs |-> <<e>>, open |-> FALSE] : e \in Evidence}
  /\ sent = InLog(file) /\ before = {} /\ collected = {} /\ streamed = {} /\ buffered = {}
  /\ evicted = {} /\ harmed = FALSE /\ crashes = 0

-----------------------------------------------------------------------------
(* init_ctx *)

Running == at \notin {"down", "failed", "returned"}

Start ==
  /\ at = "down"
  /\ at' = IF InLog(file) \cap Evidence = {} THEN "loop" ELSE "failed"
  /\ cap' \in Caps /\ size' = Len(file.recs)
  /\ before' = sent
  /\ UNCHANGED <<draining, exit, closed, channel, sent, cur, live, batch, kept, file,
                 collected, buffered, evicted, harmed, crashes>>

-----------------------------------------------------------------------------
(* The signing adapter and the exit token *)

Send(e) ==
  /\ Running
  /\ ~closed
  /\ e \notin sent
  /\ sent' = sent \cup {e}
  /\ channel' = Append(channel, e)
  /\ UNCHANGED <<at, draining, exit, closed, before, cur, live, batch, buffer, collected,
                 crashes>>

\* The adapter shares the exit token and drops its sender after it.
Close ==
  /\ Running
  /\ exit
  /\ ~closed
  /\ closed' = TRUE
  /\ UNCHANGED <<at, draining, exit, channel, sent, before, cur, live, batch, buffer,
                 collected, crashes>>

Exit ==
  /\ Running
  /\ ~exit
  /\ exit' = TRUE
  /\ UNCHANGED <<at, draining, closed, channel, sent, before, cur, live, batch,
                 buffer, collected, crashes>>

Drain ==
  /\ at = "loop"
  /\ exit
  /\ ~draining
  /\ draining' = TRUE
  /\ UNCHANGED <<at, input, cur, live, batch, buffer, collected, crashes>>

\* A stream is given up or half-closed: the collector may still read some of
\* what its channel holds.
LeaveStream ==
  /\ \E n \in 0..Len(queue) :
       collected' = collected \cup ToSet(SubSeq(queue, 1, n))
  /\ stream' = "none"
  /\ queue' = <<>>

\* close_stream, when the channel is closed and drained.
Returned ==
  /\ at = "loop"
  /\ draining
  /\ closed
  /\ channel = <<>>
  /\ LeaveStream
  /\ at' = "returned"
  /\ UNCHANGED <<draining, input, cur, streamed, batch, buffer, crashes>>

-----------------------------------------------------------------------------
(* handle_event and drain_events *)

\* The sink looks at an event it may handle.
Receives(e) ==
  /\ at = "loop"
  /\ channel # <<>>
  /\ Head(channel) = e
  /\ channel' = Tail(channel)
  /\ UNCHANGED <<draining, exit, closed, sent, before>>

\* require_legacy_event
RefuseEvidence ==
  /\ \E e \in Evidence : Receives(e)
  /\ at' = "failed"
  /\ UNCHANGED <<cur, live, batch, buffer, collected, crashes>>

\* try_stream_send: the stream takes the event.
StreamSend(e) ==
  /\ Receives(e)
  /\ stream = "open"
  /\ Len(queue) < QueueCapacity
  /\ queue' = Append(queue, e)
  /\ streamed' = streamed \cup {e}
  /\ UNCHANGED <<at, cur, stream, batch, buffer, collected, crashes>>

\* Mutant: a drained event is dropped when there is no stream.
Bug_DrainDrops(e) ==
  /\ Receives(e)
  /\ stream # "open" \/ Len(queue) = QueueCapacity
  /\ LeaveStream
  /\ cur' = e
  /\ at' = IF draining THEN "loop" ELSE "appending"
  /\ UNCHANGED <<streamed, batch, buffer, crashes>>

\* Mutant: the stream is kept when it is full.
Bug_FullStreamKept(e) ==
  /\ Receives(e)
  /\ stream # "open" \/ Len(queue) = QueueCapacity
  /\ cur' = e
  /\ at' = "appending"
  /\ UNCHANGED <<live, batch, buffer, collected, crashes>>

\* There is no stream, or it is broken or full and given up: the event goes
\* to the buffer.
AppendBegin(e) ==
  /\ Receives(e)
  /\ stream # "open" \/ Len(queue) = QueueCapacity
  /\ LeaveStream
  /\ cur' = e
  /\ at' = "appending"
  /\ UNCHANGED <<streamed, batch, buffer, crashes>>

\* The newest lines that fit in n lines, and at least one if there is one.
Newest(lines, n) ==
  LET first == Len(lines) - (IF n > 0 THEN n ELSE 1) + 1
  IN  SubSeq(lines, IF first > 0 THEN first ELSE 1, Len(lines))

\* buffer_append: the line fits, or the buffer is compacted first
\* (buffer_compact, up to the truncation of the file).
AppendFits ==
  /\ at = "appending"
  /\ size + 1 <= cap
  /\ at' = "writing"
  /\ UNCHANGED <<draining, input, cur, live, batch, buffer, collected, crashes>>

Compact ==
  /\ at = "appending"
  /\ size + 1 > cap
  /\ kept' = Newest(file.recs, cap \div 2)
  /\ evicted' = evicted \cup (InLog(file) \ ToSet(kept'))
  /\ file' = EmptyLog
  /\ at' = "compacting"
  /\ UNCHANGED <<draining, input, cur, live, batch, cap, size, buffered, harmed,
                 collected, crashes>>

CompactWrite ==
  /\ at = "compacting"
  /\ file' = [recs |-> kept, open |-> FALSE]
  /\ size' = Len(kept)
  /\ kept' = <<>>
  /\ at' = "writing"
  /\ UNCHANGED <<draining, input, cur, live, batch, cap, buffered, evicted, harmed,
                 collected, crashes>>

AppendWrite ==
  /\ at = "writing"
  /\ file' = write_record(file, cur)
  /\ size' = size + 1
  /\ buffered' = buffered \cup {cur}
  /\ cur' = NoEvent
  /\ at' = "loop"
  /\ UNCHANGED <<draining, input, live, batch, kept, cap, evicted, harmed, collected,
                 crashes>>

\* The disk is full: part of the line is written and the sink ends.
AppendFails ==
  /\ "write" \in Faults
  /\ at = "writing"
  /\ file' \in {file} \cup TornWrite(file, cur)
  /\ harmed' = (harmed \/ file' # file)
  /\ at' = "failed"
  /\ UNCHANGED <<draining, input, cur, live, batch, kept, cap, size, buffered, evicted,
                 collected, crashes>>

-----------------------------------------------------------------------------
(* attempt_reconnect *)

\* Failed attempts leave everything as it is and are not steps; until_cancelled
\* makes every attempt fail once the sink is told to exit.
Reconnecting ==
  /\ at = "loop"
  /\ ~exit
  /\ stream = "none"

\* Mutant: the last line of the buffer is not replayed on its own.
Bug_ReplayNeedsTwo ==
  /\ Reconnecting
  /\ size > 1
  /\ batch' = InLog(file)
  /\ at' = "replaying"
  /\ UNCHANGED <<draining, input, cur, live, buffer, collected, crashes>>

\* A connected replay reads the buffer; lines that do not parse are skipped.
ReplayBegin ==
  /\ Reconnecting
  /\ size > 0
  /\ \/ /\ batch' = InLog(file)
        /\ UNCHANGED harmed
     \/ /\ "read" \in Faults
        /\ batch' = {}
        /\ harmed' = TRUE
  /\ at' = "replaying"
  /\ UNCHANGED <<draining, input, cur, live, kept, cap, size, file, buffered, evicted,
                 collected, crashes>>

\* Some events of the batch reach the collector and the replay ends without an
\* answer, with an error, or because the sink is cancelled.
ReplayAbandoned ==
  /\ at = "replaying"
  /\ \E got \in SUBSET batch : collected' = collected \cup got
  /\ batch' = {}
  /\ at' = "loop"
  /\ UNCHANGED <<draining, input, cur, live, buffer, crashes>>

\* Mutant: a success status is taken for the whole batch.
Bug_StatusOnly(received) == TRUE

\* The collector's summary counts the events it persisted.
replay_is_complete(received) == received >= Cardinality(batch)

\* The collector persisted the events of got and says how many they are; a
\* complete answer clears the buffer.
ReplayAnswered(got) ==
  /\ at = "replaying"
  /\ ~exit
  /\ collected' = collected \cup got
  /\ batch' = {}
  /\ IF replay_is_complete(Cardinality(got))
     THEN /\ file' = EmptyLog
          /\ size' = 0
          /\ at' = "opening"
     ELSE /\ at' = "loop"
          /\ UNCHANGED <<file, size>>
  /\ UNCHANGED <<draining, input, cur, live, kept, cap, buffered, evicted, harmed,
                 crashes>>

\* The live stream opens, after the replay or at once when there is none.
OpenStream ==
  /\ ~exit
  /\ at = "opening" \/ (Reconnecting /\ size = 0)
  /\ stream' = "open"
  /\ at' = "loop"
  /\ UNCHANGED <<draining, input, cur, queue, streamed, batch, buffer, collected,
                 crashes>>

\* The replay succeeded and the connect that follows does not.
OpenFails ==
  /\ at = "opening"
  /\ at' = "loop"
  /\ UNCHANGED <<draining, input, cur, live, batch, buffer, collected, crashes>>

-----------------------------------------------------------------------------
(* The collector and faults *)

CollectorReads ==
  /\ stream = "open"
  /\ queue # <<>>
  /\ collected' = collected \cup {Head(queue)}
  /\ queue' = Tail(queue)
  /\ UNCHANGED <<at, draining, input, cur, stream, streamed, batch, buffer, crashes>>

\* The RPC ends; the sink learns of it when it next sends.
StreamBreaks ==
  /\ stream = "open"
  /\ stream' = "broken"
  /\ queue' = <<>>
  /\ UNCHANGED <<at, draining, input, cur, streamed, batch, buffer, collected,
                 crashes>>

\* The process is gone and its memory with it.
Gone ==
  /\ crashes < MaxCrashes
  /\ crashes' = crashes + 1
  /\ at' = "down"
  /\ draining' = FALSE /\ exit' = FALSE /\ closed' = FALSE /\ channel' = <<>>
  /\ cur' = NoEvent /\ batch' = {} /\ kept' = <<>> /\ cap' = 0 /\ size' = 0
  /\ before' = {} /\ streamed' = {}
  /\ LeaveStream
  /\ UNCHANGED <<file, sent, buffered, evicted>>

\* The process dies.  A line that is being written is one write.
Crash ==
  /\ Running
  /\ at = "compacting" => "compact" \in Faults
  /\ harmed' = (harmed \/ at = "compacting")
  /\ Gone

ProcessEnd ==
  /\ at \in {"failed", "returned"}
  /\ Gone
  /\ UNCHANGED harmed

-----------------------------------------------------------------------------
Sink ==
  \/ Drain
  \/ Returned
  \/ RefuseEvidence
  \/ \E e \in Events \ Evidence : StreamSend(e) \/ AppendBegin(e)
  \/ AppendFits
  \/ Compact
  \/ CompactWrite
  \/ AppendWrite
  \/ AppendFails
  \/ ReplayAbandoned
  \/ \E got \in SUBSET batch : ReplayAnswered(got)
  \/ OpenFails

Next ==
  \/ Start
  \/ \E e \in Events : Send(e)
  \/ Close
  \/ Exit
  \/ Sink
  \/ ReplayBegin
  \/ OpenStream
  \/ CollectorReads
  \/ StreamBreaks
  \/ Crash
  \/ ProcessEnd

Spec == Init /\ [][Next]_vars

\* The sink's task runs and redials; the collector does not refuse to answer
\* a whole replay forever.
FairSpec ==
  /\ Spec
  /\ WF_vars(Sink)
  /\ WF_vars(ReplayBegin)
  /\ SF_vars(at = "replaying" /\ ReplayAnswered(batch))

-----------------------------------------------------------------------------
(* Properties *)

\* Where an event whose append returned may be.
Held == InLog(file) \cup collected \cup evicted \cup ToSet(kept)

\* "Events that arrive while the endpoint is unreachable are on disk before
\* the sink treats them as handled, and they stay there until the server
\* acknowledges all of them" (grpc.rs:55-57), unless the cap evicts them.
BufferedStays == buffered \subseteq Held

\* The same as long as the file system tore no line, hid no buffer and the
\* process did not die inside a compaction: lost acknowledgements, partial
\* acknowledgements, broken streams, other crashes and evictions lose nothing.
BufferedStaysUnharmed == ~harmed => BufferedStays

\* Live traffic is accepted only when nothing is left to replay
\* (attempt_reconnect): what is in the buffer while a stream is open would
\* wait for the stream to be lost.
LiveAfterReplay == stream = "open" => InLog(file) = {}

\* Shutdown hands every event that was sent to the stream or to the buffer
\* (drain_events).
DrainedIsHandled ==
  at = "returned" => sent \ before \subseteq streamed \cup buffered

\* An event in the buffer reaches the collector or is evicted, while the sink
\* keeps running, is not told to exit and its buffer is not harmed.  (The sink
\* does not start over a buffer with an event it refuses.)
BufferedIsDelivered ==
  \A e \in Events \ Evidence :
    e \in InLog(file) ~>
      e \in collected \cup evicted \/ exit \/ ~Running \/ harmed
=============================================================================
