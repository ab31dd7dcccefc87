------------------------- MODULE RevocationsProofs -------------------------
(***************************************************************************)
(* Theorems about the Authority's revocations, for any tokens, streams,    *)
(* lifetimes and margins.                                                  *)
(***************************************************************************)
EXTENDS Revocations, TLAPS

\* A line lands, by hand or from the command: what Append makes of the file.
LEMMA AppendFacts ==
  ASSUME TypeOK, NEW t \in Tokens, NEW line \in Times \cup {Bare}, Append(t, line)
  PROVE  /\ file' \in [Tokens -> Lines]
         /\ file'[t] # Absent
         /\ \A u \in Tokens : u # t \/ file[u] # Absent => file'[u] = file[u]
         /\ file[t] = Absent => file'[t] = line
         /\ told' \subseteq Tokens
         /\ signals' \in 0..SignalCap
BY RevocationsAssumption DEF TypeOK, Append, Notified, Lines, Times

LEMMA RevokedFacts ==
  ASSUME TypeOK, NEW t \in Tokens, Revoked(t)
  PROVE  /\ revoked' \in [Tokens -> Times \cup {Absent}]
         /\ revoked'[t] # Absent
         /\ \A u \in Tokens : revoked[u] # Absent => revoked'[u] = revoked[u]
         /\ \A u \in Tokens : u # t => revoked'[u] = revoked[u]
         /\ revoked[t] = Absent => revoked'[t] = now
BY RevocationsAssumption DEF TypeOK, Revoked, Times

LEMMA TypeStep == TypeOK /\ [Next]_vars => TypeOK'
<1> SUFFICES ASSUME TypeOK, [Next]_vars PROVE TypeOK'
  OBVIOUS
<1> USE RevocationsAssumption
<1>1. ASSUME NEW t \in Tokens, EditFile(t) PROVE TypeOK'
  BY <1>1, AppendFacts, RevokedFacts DEF EditFile, TypeOK, Append, clients, streams
<1>2. ASSUME NEW t \in Tokens, OpenToRevoke(t) PROVE TypeOK'
  BY <1>2 DEF OpenToRevoke, TypeOK, memory, streams, history
<1>3. ASSUME NEW t \in Tokens, revoke(t) PROVE TypeOK'
  BY <1>3, RevokedFacts DEF revoke, TypeOK, memory, streams
<1>4. ASSUME NEW t \in Tokens, LineLands(t) PROVE TypeOK'
  <2>1. stamp[t] \in Times /\ 0 \in Times
    BY DEF TypeOK, Times
  <2>2. CASE Append(t, stamp[t]) /\ UNCHANGED faults
    BY <1>4, <2>1, <2>2, AppendFacts DEF LineLands, TypeOK, Append, streams
  <2>3. CASE faults < MaxFaults /\ faults' = faults + 1 /\ UNCHANGED <<file, signals, lost, told>>
    BY <1>4, <2>1, <2>3 DEF LineLands, TypeOK, streams
  <2> QED BY <1>4, <2>2, <2>3 DEF LineLands
<1>5. CASE OpenToCompact
  BY <1>5 DEF OpenToCompact, TypeOK, memory, streams, history
<1>6. CASE compact_file
  BY <1>6 DEF compact_file, TypeOK, NoLine, Notified, streams, Lines, Times
<1>7. CASE Start
  BY <1>7 DEF Start, TypeOK, clients, memory, streams, history
<1>8. CASE try_new
  BY <1>8 DEF try_new, TypeOK, clients, memory, streams, history
<1>9. CASE watch
  BY <1>9 DEF watch, TypeOK, clients, memory, streams, history
<1>10. CASE Crash
  BY <1>10 DEF Crash, TypeOK, clients, NoLine, Lines
<1>11. CASE ReadFile
  BY <1>11 DEF ReadFile, TypeOK, clients, streams
<1>12. CASE reload_from_file
  <2>1. mem' \in [Tokens -> Times \cup {Absent}] /\ new_entries' \subseteq Tokens
    BY <1>12 DEF reload_from_file, Merged, TypeOK, Fresh, Lines
  <2> QED BY <1>12, <2>1 DEF reload_from_file, TypeOK, NoLine, Lines, clients, streams, history
<1>16. CASE Signal
  BY <1>16 DEF Signal, TypeOK, clients, history
<1>13. ASSUME NEW s \in Streams, Subscribe(s) \/ Serve(s) \/ Disconnect(s) PROVE TypeOK'
  <2>1. CASE Subscribe(s) \/ Woken(s) \/ Disconnect(s)
    BY <2>1 DEF Subscribe, Woken, Disconnect, TypeOK, clients, memory, history
  <2>2. CASE OpeningSet(s) \/ ReadSet(s)
    BY <2>2 DEF OpeningSet, ReadSet, current_set, TypeOK, clients, memory, history
  <2>3. CASE Yield(s)
    BY <2>3 DEF Yield, TypeOK, clients, memory, history
  <2> QED BY <1>13, <2>1, <2>2, <2>3 DEF Serve
<1>14. CASE Tick
  BY <1>14 DEF Tick, TypeOK, Times, clients, memory, streams, history
<1>15. CASE UNCHANGED vars
  BY <1>15 DEF vars, TypeOK, clients, memory, streams, history
<1> QED
  BY <1>1, <1>2, <1>3, <1>4, <1>5, <1>6, <1>7, <1>8, <1>9, <1>10, <1>11, <1>12, <1>13, <1>14, <1>15,
     <1>16 DEF Next, Task

(* The type invariant of the revocation store, its file, task and streams. *)
THEOREM RevocationsTyped == Spec => []TypeOK
<1>1. Init => TypeOK
  BY RevocationsAssumption DEF Init, TypeOK, NoLine, Lines, Times
<1> QED BY <1>1, TypeStep, PTL DEF Spec

-----------------------------------------------------------------------------
(* QuietStreamIsCurrent says nothing of a stream that has read a set and not *)
(* sent it: that set, too, is current as long as no broadcast is pending and *)
(* but for what the task is about to signal.                                 *)

CarriedIsCurrent ==
  \A s \in Streams :
    stream[s] \in {"opening", "sending"} /\ ~pending[s]
      => current_set \subseteq carry[s] \cup new_entries

QuietInv ==
  /\ QuietStreamIsCurrent
  /\ CarriedIsCurrent
  /\ task # "signal" => new_entries = {}

\* The set shrinks by age only, unless a reload adds to it.
LEMMA AgeShrinks ==
  ASSUME TypeOK, TypeOK', mem' = mem, now <= now'
  PROVE  current_set' \subseteq current_set
BY RevocationsAssumption DEF TypeOK, current_set, is_expired, Times

\* What QuietInv says of one stream.
Current(s) ==
  /\ stream[s] = "waiting" /\ ~pending[s] => current_set \subseteq seen[s] \cup new_entries
  /\ stream[s] \in {"opening", "sending"} /\ ~pending[s]
       => current_set \subseteq carry[s] \cup new_entries

\* A step that leaves the stream alone, and lets the set grow only by what is
\* about to be signalled.
LEMMA QuietKept ==
  ASSUME QuietInv, NEW s \in Streams, UNCHANGED <<stream[s], pending[s], carry[s], seen[s]>>,
         new_entries \subseteq new_entries', current_set' \subseteq current_set \cup new_entries'
  PROVE  Current(s)'
BY DEF QuietInv, QuietStreamIsCurrent, CarriedIsCurrent, Current

LEMMA QuietStep == TypeOK /\ TypeOK' /\ QuietInv /\ [Next]_vars => QuietInv'
<1> SUFFICES ASSUME TypeOK, TypeOK', QuietInv, [Next]_vars PROVE QuietInv'
  OBVIOUS
<1> USE RevocationsAssumption
<1>1. ASSUME UNCHANGED <<mem, new_entries, streams>>, now <= now',
             task' # "signal" => task # "signal"
      PROVE QuietInv'
  <2>1. current_set' \subseteq current_set
    BY <1>1, AgeShrinks
  <2>2. ASSUME NEW s \in Streams PROVE Current(s)'
    BY <1>1, <2>1, QuietKept DEF streams
  <2> QED BY <1>1, <2>2 DEF QuietInv, QuietStreamIsCurrent, CarriedIsCurrent, Current
<1>2. now <= now
  BY DEF TypeOK, Times
<1>3. ASSUME NEW t \in Tokens, EditFile(t) \/ OpenToRevoke(t) \/ revoke(t) \/ LineLands(t)
      PROVE QuietInv'
  BY <1>3, <1>1, <1>2 DEF EditFile, OpenToRevoke, revoke, LineLands, memory, streams
<1>4. CASE OpenToCompact \/ compact_file \/ Start \/ try_new \/ watch \/ ReadFile
  BY <1>4, <1>1, <1>2 DEF OpenToCompact, compact_file, Start, try_new, watch, ReadFile,
                          memory, streams
<1>5. CASE Crash
  BY <1>5 DEF Crash, QuietInv, QuietStreamIsCurrent, CarriedIsCurrent
<1>6. CASE reload_from_file
  <2>1. new_entries = {} /\ new_entries' = Fresh /\ UNCHANGED <<now, streams>>
    BY <1>6 DEF reload_from_file, QuietInv
  <2>2. current_set' \subseteq current_set \cup Fresh
    BY <1>6 DEF reload_from_file, Merged, Fresh, current_set, is_expired, TypeOK
  <2>3. task' # "signal" => new_entries' = {}
    BY <1>6 DEF reload_from_file
  <2>4. ASSUME NEW s \in Streams PROVE Current(s)'
    BY <2>1, <2>2, QuietKept DEF streams
  <2> QED BY <2>3, <2>4 DEF QuietInv, QuietStreamIsCurrent, CarriedIsCurrent, Current
<1>7. CASE Signal
  <2>1. \A s \in Streams : stream'[s] # "closed" => pending'[s]
    BY <1>7 DEF Signal, TypeOK
  <2> QED BY <1>7, <2>1 DEF Signal, QuietInv, QuietStreamIsCurrent, CarriedIsCurrent
<1>8. ASSUME NEW s \in Streams, Subscribe(s) \/ Serve(s) \/ Disconnect(s) PROVE QuietInv'
  <2>1. /\ new_entries' = new_entries /\ task' = task
        /\ current_set' = current_set
    BY <1>8 DEF Subscribe, Serve, OpeningSet, Yield, Woken, ReadSet, Disconnect, memory,
                current_set, is_expired
  <2>2. \A r \in Streams : r # s => UNCHANGED <<stream[r], pending[r], carry[r], seen[r]>>
    BY <1>8 DEF Subscribe, Serve, OpeningSet, Yield, Woken, ReadSet, Disconnect, TypeOK
  <2>3. Current(s)'
    BY <1>8, <2>1 DEF Subscribe, Serve, OpeningSet, Yield, Woken, ReadSet, Disconnect, TypeOK,
                      QuietInv, QuietStreamIsCurrent, CarriedIsCurrent, Current
  <2>4. \A r \in Streams : r # s => Current(r)'
    BY <2>1, <2>2, QuietKept
  <2> QED BY <2>1, <2>3, <2>4 DEF QuietInv, QuietStreamIsCurrent, CarriedIsCurrent, Current
<1>9. CASE Tick
  <2>1. now <= now'
    BY <1>9 DEF Tick, TypeOK, Times
  <2> QED BY <1>9, <2>1, <1>1 DEF Tick, memory
<1>10. CASE UNCHANGED vars
  BY <1>10, <1>1, <1>2 DEF vars, memory
<1> QED BY <1>3, <1>4, <1>5, <1>6, <1>7, <1>8, <1>9, <1>10 DEF Next, Task

(* A stream that waits with nothing pending has sent the current set, but for *)
(* the entries that a reload is about to signal, for any number of streams    *)
(* and tokens (watch_revocations subscribes before it reads and drains before *)
(* it reads again; the reload task signals after it merged).                  *)
THEOREM QuietIsCurrent == Spec => []QuietStreamIsCurrent
<1>1. Init => QuietInv
  BY DEF Init, QuietInv, QuietStreamIsCurrent, CarriedIsCurrent
<1>2. QuietInv => QuietStreamIsCurrent
  BY DEF QuietInv
<1> QED BY <1>1, <1>2, RevocationsTyped, QuietStep, PTL DEF Spec

-----------------------------------------------------------------------------
(* RevokedStaysRevoked compares two sets a sidecar gets one after the other. *)
(* What must be known in between: every line, and what is made of it, is not *)
(* older than the revocation (DatedInv); a token some sidecar knows still    *)
(* has its line, and is in the memory of a server that runs (KnownInv); and  *)
(* the set about to be sent leaves out only dead tokens (CarryInv).          *)

\* The time v of a line or an entry of t.
Dated(t, v) == v # Absent => revoked[t] # Absent /\ (v # Bare => revoked[t] <= v)

DatedInv ==
  \A t \in Tokens :
    /\ Dated(t, file[t]) /\ Dated(t, content[t]) /\ Dated(t, mem[t])
    /\ cli[t] = "queued" => Dated(t, stamp[t])
    /\ revoked[t] # Absent => revoked[t] <= now

LineInv ==
  \A t \in Tokens \ lost : content[t] # Absent \/ mem[t] # Absent => file[t] # Absent

KnownInv ==
  \A s \in Streams :
    /\ stream[s] # "closed" => server = "up"
    /\ \A t \in (seen[s] \cup carry[s]) \ lost :
         file[t] # Absent /\ (server \in {"loaded", "up"} => mem[t] # Absent)

CarryInv ==
  \A s \in Streams :
    stream[s] \in {"opening", "sending"} =>
      \A t \in seen[s] \ carry[s] : t \in lost \/ Dead(t)

StayInv == DatedInv /\ LineInv /\ KnownInv /\ CarryInv

\* Dead tokens and lost ones stay so.
LEMMA DeadStays ==
  ASSUME TypeOK, TypeOK', now <= now', \A t \in Tokens : revoked[t] # Absent => revoked'[t] = revoked[t]
  PROVE  \A t \in Tokens : Dead(t) => Dead(t)'
BY RevocationsAssumption DEF TypeOK, Dead, Times

LEMMA DatedStep == TypeOK /\ TypeOK' /\ DatedInv /\ [Next]_vars => DatedInv'
<1> SUFFICES ASSUME TypeOK, TypeOK', DatedInv, [Next]_vars PROVE DatedInv'
  OBVIOUS
<1> USE RevocationsAssumption
<1>1. ASSUME NEW t \in Tokens, EditFile(t) PROVE DatedInv'
  <2>1. now \in Nat /\ \A u \in Tokens : revoked[u] # Absent => revoked[u] \in Nat
    BY DEF TypeOK, Times
  <2>2. Append(t, Bare) /\ Revoked(t) /\ file[t] = Absent
    BY <1>1 DEF EditFile
  <2>3. UNCHANGED <<content, mem, cli, stamp, now>>
    BY <1>1 DEF EditFile, clients
  <2>4. file'[t] = Bare /\ \A u \in Tokens : u # t => file'[u] = file[u]
    BY <2>2, AppendFacts
  <2> QED BY <2>1, <2>2, <2>3, <2>4, RevokedFacts DEF DatedInv, Dated
<1>2. ASSUME NEW t \in Tokens, revoke(t) PROVE DatedInv'
  <2>1. now \in Nat /\ \A u \in Tokens : revoked[u] # Absent => revoked[u] \in Nat
    BY DEF TypeOK, Times
  <2>2. Revoked(t) /\ UNCHANGED <<file, content, mem, now>>
    BY <1>2 DEF revoke, memory
  <2>3. /\ stamp'[t] = now
        /\ \A u \in Tokens : u # t => cli'[u] = cli[u] /\ stamp'[u] = stamp[u]
    BY <1>2 DEF revoke, TypeOK
  <2> QED BY <2>1, <2>2, <2>3, RevokedFacts DEF DatedInv, Dated
<1>3. ASSUME NEW t \in Tokens, LineLands(t) PROVE DatedInv'
  <2>1. /\ UNCHANGED <<content, mem, now, revoked>>
        /\ \A u \in Tokens : cli'[u] = "queued" => u # t /\ cli[u] = "queued" /\ stamp'[u] = stamp[u]
        /\ cli[t] = "queued"
    BY <1>3 DEF LineLands, TypeOK
  <2>2. \A u \in Tokens : file'[u] = file[u] \/ (u = t /\ file'[u] = stamp[t])
    <3>1. CASE Append(t, stamp[t])
      BY <3>1, AppendFacts DEF TypeOK
    <3> QED BY <1>3, <3>1 DEF LineLands
  <2> QED BY <2>1, <2>2 DEF DatedInv, Dated
<1>4. ASSUME NEW t \in Tokens, OpenToRevoke(t) PROVE DatedInv'
  BY <1>4 DEF OpenToRevoke, memory, history, DatedInv, Dated, TypeOK
<1>5. CASE compact_file
  BY <1>5 DEF compact_file, NoLine, DatedInv, Dated
<1>6. CASE OpenToCompact \/ Start \/ try_new \/ watch
  BY <1>6 DEF OpenToCompact, Start, try_new, watch, clients, memory, history, DatedInv, Dated
<1>7. CASE Crash
  BY <1>7 DEF Crash, NoLine, clients, DatedInv, Dated
<1>8. CASE ReadFile
  BY <1>8 DEF ReadFile, clients, DatedInv, Dated
<1>9. CASE reload_from_file
  BY <1>9 DEF reload_from_file, Merged, Fresh, NoLine, clients, history, DatedInv, Dated, TypeOK
<1>13. CASE Signal
  BY <1>13 DEF Signal, clients, history, DatedInv, Dated
<1>10. ASSUME NEW s \in Streams, Subscribe(s) \/ Serve(s) \/ Disconnect(s) PROVE DatedInv'
  BY <1>10 DEF Subscribe, Serve, OpeningSet, Yield, Woken, ReadSet, Disconnect,
               clients, memory, history, DatedInv, Dated
<1>11. CASE Tick
  BY <1>11 DEF Tick, clients, memory, history, DatedInv, Dated, TypeOK, Times
<1>12. CASE UNCHANGED vars
  BY <1>12 DEF vars, clients, memory, history, DatedInv, Dated
<1> QED
  BY <1>1, <1>2, <1>3, <1>4, <1>5, <1>6, <1>7, <1>8, <1>9, <1>10, <1>11, <1>12, <1>13 DEF Next, Task

LEMMA LineStep == TypeOK /\ TypeOK' /\ LineInv /\ [Next]_vars => LineInv'
<1> SUFFICES ASSUME TypeOK, TypeOK', LineInv, [Next]_vars PROVE LineInv'
  OBVIOUS
<1> USE RevocationsAssumption
<1>1. ASSUME UNCHANGED <<content, mem, lost>>,
             \A t \in Tokens : file[t] # Absent => file'[t] # Absent
      PROVE LineInv'
  BY <1>1 DEF LineInv
<1>2. ASSUME NEW t \in Tokens, EditFile(t) PROVE LineInv'
  <2>1. Append(t, Bare) /\ UNCHANGED <<content, mem, lost>>
    BY <1>2 DEF EditFile, Append
  <2>2. \A u \in Tokens : file[u] # Absent => file'[u] # Absent
    BY <2>1, AppendFacts
  <2> QED BY <1>1, <2>1, <2>2
<1>3. ASSUME NEW t \in Tokens, LineLands(t) PROVE LineInv'
  <2>1. UNCHANGED <<content, mem, lost>>
    BY <1>3 DEF LineLands, Append
  <2>2. \A u \in Tokens : file[u] # Absent => file'[u] # Absent
    <3>1. CASE Append(t, stamp[t])
      BY <3>1, AppendFacts DEF TypeOK
    <3> QED BY <1>3, <3>1 DEF LineLands
  <2> QED BY <1>1, <2>1, <2>2
<1>4. ASSUME NEW t \in Tokens, OpenToRevoke(t) \/ revoke(t) PROVE LineInv'
  BY <1>4, <1>1 DEF OpenToRevoke, revoke, memory, history
<1>5. CASE compact_file
  BY <1>5 DEF compact_file, LineInv
<1>6. CASE OpenToCompact \/ Start \/ try_new \/ watch \/ Tick
  BY <1>6, <1>1 DEF OpenToCompact, Start, try_new, watch, Tick, memory, history
<1>7. CASE Crash
  BY <1>7 DEF Crash, NoLine, LineInv
<1>8. CASE ReadFile
  BY <1>8 DEF ReadFile, LineInv
<1>9. CASE reload_from_file
  BY <1>9 DEF reload_from_file, Merged, Fresh, NoLine, history, LineInv, TypeOK
<1>12. CASE Signal
  BY <1>12, <1>1 DEF Signal, history
<1>10. ASSUME NEW s \in Streams, Subscribe(s) \/ Serve(s) \/ Disconnect(s) PROVE LineInv'
  BY <1>10, <1>1 DEF Subscribe, Serve, OpeningSet, Yield, Woken, ReadSet, Disconnect,
                     memory, history
<1>11. CASE UNCHANGED vars
  BY <1>11, <1>1 DEF vars, memory, history
<1> QED
  BY <1>2, <1>3, <1>4, <1>5, <1>6, <1>7, <1>8, <1>9, <1>10, <1>11, <1>12 DEF Next, Task

LEMMA KnownStep ==
  TypeOK /\ TypeOK' /\ LineInv /\ KnownInv /\ [Next]_vars => KnownInv'
<1> SUFFICES ASSUME TypeOK, TypeOK', LineInv, KnownInv, [Next]_vars PROVE KnownInv'
  OBVIOUS
<1> USE RevocationsAssumption
<1>1. ASSUME UNCHANGED <<mem, lost, server, stream, seen, carry>>,
             \A t \in Tokens : file[t] # Absent => file'[t] # Absent
      PROVE KnownInv'
  BY <1>1 DEF KnownInv, TypeOK
<1>2. ASSUME NEW t \in Tokens, EditFile(t) PROVE KnownInv'
  <2>1. Append(t, Bare) /\ UNCHANGED <<mem, lost, server, stream, seen, carry>>
    BY <1>2 DEF EditFile, Append, streams
  <2>2. \A u \in Tokens : file[u] # Absent => file'[u] # Absent
    BY <2>1, AppendFacts
  <2> QED BY <1>1, <2>1, <2>2
<1>3. ASSUME NEW t \in Tokens, LineLands(t) PROVE KnownInv'
  <2>1. UNCHANGED <<mem, lost, server, stream, seen, carry>>
    BY <1>3 DEF LineLands, Append, streams
  <2>2. \A u \in Tokens : file[u] # Absent => file'[u] # Absent
    <3>1. CASE Append(t, stamp[t])
      BY <3>1, AppendFacts DEF TypeOK
    <3> QED BY <1>3, <3>1 DEF LineLands
  <2> QED BY <1>1, <2>1, <2>2
<1>4. ASSUME NEW t \in Tokens, OpenToRevoke(t) \/ revoke(t) PROVE KnownInv'
  BY <1>4, <1>1 DEF OpenToRevoke, revoke, memory, streams, history
<1>5. CASE compact_file
  BY <1>5 DEF compact_file, streams, KnownInv, TypeOK
<1>6. CASE OpenToCompact \/ Tick
  BY <1>6, <1>1 DEF OpenToCompact, Tick, memory, streams, history
<1>7. CASE Start
  BY <1>7 DEF Start, memory, streams, history, KnownInv
<1>8. CASE try_new
  BY <1>8 DEF try_new, Blank, memory, streams, history, KnownInv, TypeOK
<1>9. CASE watch
  BY <1>9 DEF watch, memory, streams, history, KnownInv
<1>10. CASE Crash
  BY <1>10 DEF Crash, KnownInv
<1>11. CASE ReadFile
  BY <1>11, <1>1 DEF ReadFile, streams
<1>12. CASE reload_from_file
  BY <1>12 DEF reload_from_file, Merged, Fresh, streams, history, KnownInv, TypeOK
<1>15. CASE Signal
  BY <1>15, <1>1 DEF Signal, history
<1>13. ASSUME NEW s \in Streams, Subscribe(s) \/ Serve(s) \/ Disconnect(s) PROVE KnownInv'
  <2>1. UNCHANGED <<file, mem, lost, server>>
    BY <1>13 DEF Subscribe, Serve, OpeningSet, Yield, Woken, ReadSet, Disconnect, memory, history
  <2>2. \A r \in Streams : r # s => UNCHANGED <<stream[r], seen[r], carry[r]>>
    BY <1>13 DEF Subscribe, Serve, OpeningSet, Yield, Woken, ReadSet, Disconnect, TypeOK
  <2>3. /\ stream'[s] # "closed" => server = "up"
        /\ seen'[s] \cup carry'[s] \subseteq seen[s] \cup carry[s] \cup current_set
    BY <1>13 DEF Subscribe, Serve, OpeningSet, Yield, Woken, ReadSet, Disconnect, TypeOK, KnownInv
  <2>4. \A t \in current_set \ lost : file[t] # Absent /\ mem[t] # Absent
    BY DEF current_set, LineInv
  <2> QED BY <2>1, <2>2, <2>3, <2>4 DEF KnownInv
<1>14. CASE UNCHANGED vars
  BY <1>14, <1>1 DEF vars, memory, streams, history
<1> QED
  BY <1>2, <1>3, <1>4, <1>5, <1>6, <1>7, <1>8, <1>9, <1>10, <1>11, <1>12, <1>13, <1>14,
     <1>15 DEF Next, Task

\* The memory of a server that runs shows every token that a sidecar knows and
\* that is neither lost nor dead.
LEMMA CurrentKeeps ==
  ASSUME TypeOK, DatedInv, KnownInv, NEW s \in Streams, stream[s] # "closed",
         NEW t \in seen[s] \ current_set
  PROVE  t \in lost \/ Dead(t)
<1> SUFFICES ASSUME t \notin lost PROVE Dead(t)
  OBVIOUS
<1>1. t \in Tokens /\ mem[t] # Absent
  BY DEF KnownInv, TypeOK
<1>2. is_expired(mem[t])
  BY <1>1 DEF current_set
<1>3. mem[t] \in Nat /\ revoked[t] \in Nat /\ revoked[t] # Absent /\ revoked[t] <= mem[t]
  BY <1>1, RevocationsAssumption DEF TypeOK, DatedInv, Dated, Times
<1>4. now \in Nat /\ Ttl \in Nat /\ Skew \in Nat
  BY RevocationsAssumption DEF TypeOK, Times
<1> QED BY <1>2, <1>3, <1>4 DEF is_expired, Dead

LEMMA CarryStep ==
  TypeOK /\ TypeOK' /\ DatedInv /\ KnownInv /\ CarryInv /\ [Next]_vars => CarryInv'
<1> SUFFICES ASSUME TypeOK, TypeOK', DatedInv, KnownInv, CarryInv, [Next]_vars PROVE CarryInv'
  OBVIOUS
<1> USE RevocationsAssumption
<1>0. now <= now
  BY DEF TypeOK, Times
<1>1. ASSUME lost \subseteq lost', now <= now', NEW s \in Streams,
             \A t \in Tokens : revoked[t] # Absent => revoked'[t] = revoked[t],
             UNCHANGED <<stream[s], seen[s], carry[s]>>,
             stream'[s] \in {"opening", "sending"}, NEW t \in seen'[s] \ carry'[s]
      PROVE t \in lost' \/ Dead(t)'
  BY <1>1, DeadStays DEF CarryInv, TypeOK
<1>2. ASSUME lost \subseteq lost', now <= now', UNCHANGED <<stream, seen, carry>>,
             \A t \in Tokens : revoked[t] # Absent => revoked'[t] = revoked[t]
      PROVE CarryInv'
  BY <1>2, <1>1 DEF CarryInv
<1>3. ASSUME NEW t \in Tokens, EditFile(t) \/ revoke(t) PROVE CarryInv'
  BY <1>3, <1>2, <1>0, RevokedFacts DEF EditFile, revoke, Append, streams
<1>4. ASSUME NEW t \in Tokens, OpenToRevoke(t) \/ LineLands(t) PROVE CarryInv'
  BY <1>4, <1>2, <1>0 DEF OpenToRevoke, LineLands, Append, streams, history
<1>5. CASE OpenToCompact \/ compact_file \/ Start \/ try_new \/ watch \/ Task
  BY <1>5, <1>2, <1>0 DEF OpenToCompact, compact_file, Start, try_new, watch, Task, ReadFile,
                          reload_from_file, Signal, streams, history
<1>6. CASE Crash
  BY <1>6 DEF Crash, CarryInv
<1>7. ASSUME NEW s \in Streams, Subscribe(s) \/ Serve(s) \/ Disconnect(s) PROVE CarryInv'
  <2>1. UNCHANGED <<now, lost, revoked>>
    BY <1>7 DEF Subscribe, Serve, OpeningSet, Yield, Woken, ReadSet, Disconnect, history
  <2>2. \A r \in Streams : r # s => UNCHANGED <<stream[r], seen[r], carry[r]>>
    BY <1>7 DEF Subscribe, Serve, OpeningSet, Yield, Woken, ReadSet, Disconnect, TypeOK
  <2>3. stream'[s] \in {"opening", "sending"} =>
          stream[s] # "closed" /\ seen'[s] = seen[s] /\ carry'[s] = current_set
    BY <1>7 DEF Subscribe, Serve, OpeningSet, Yield, Woken, ReadSet, Disconnect, TypeOK
  <2>4. \A t \in Tokens : Dead(t)' <=> Dead(t)
    BY <2>1 DEF Dead
  <2>5. ASSUME stream'[s] \in {"opening", "sending"}, NEW t \in seen'[s] \ carry'[s]
        PROVE t \in lost' \/ Dead(t)'
    BY <2>1, <2>3, <2>4, <2>5, CurrentKeeps DEF TypeOK
  <2> QED BY <1>0, <1>1, <2>1, <2>2, <2>5 DEF CarryInv
<1>8. CASE Tick
  <2>1. now <= now'
    BY <1>8 DEF Tick, TypeOK, Times
  <2> QED BY <1>8, <1>2, <2>1 DEF Tick, streams, history
<1>9. CASE UNCHANGED vars
  BY <1>9, <1>2, <1>0 DEF vars, streams, history
<1> QED BY <1>3, <1>4, <1>5, <1>6, <1>7, <1>8, <1>9 DEF Next

\* Only a set that is sent changes what a sidecar holds.
LEMMA StayStep ==
  TypeOK /\ CarryInv /\ [Next]_vars =>
    [\A s \in Streams : \A t \in seen[s] \ seen'[s] : t \in lost \/ Dead(t)]_vars
<1> SUFFICES ASSUME TypeOK, CarryInv, [Next]_vars, NEW s \in Streams, NEW t \in seen[s] \ seen'[s]
             PROVE t \in lost \/ Dead(t)
  OBVIOUS
<1>1. ASSUME NEW r \in Streams, Yield(r) PROVE t \in lost \/ Dead(t)
  BY <1>1 DEF Yield, CarryInv, TypeOK
<1>2. ASSUME UNCHANGED seen PROVE FALSE
  BY <1>2
<1> QED
  BY <1>1, <1>2 DEF Next, Task, vars, streams, EditFile, OpenToRevoke, revoke, LineLands,
       OpenToCompact, compact_file, Start, try_new, watch, Crash, ReadFile, reload_from_file,
       Signal, Subscribe, Serve, OpeningSet, Woken, ReadSet, Disconnect, Tick

(* A sidecar keeps every revocation it was told of while the token can be    *)
(* accepted, over reconnects and restarts of the Authority, unless a         *)
(* compaction destroyed its line (is_expired, current_set, try_new).         *)
THEOREM RevocationLasts == Spec => RevokedStaysRevoked
<1>1. Init => StayInv
  BY DEF Init, NoLine, StayInv, DatedInv, Dated, LineInv, KnownInv, CarryInv
<1>2. TypeOK /\ TypeOK' /\ StayInv /\ [Next]_vars => StayInv'
  BY DatedStep, LineStep, KnownStep, CarryStep DEF StayInv
<1>3. TypeOK /\ StayInv /\ [Next]_vars =>
        [\A s \in Streams : \A t \in seen[s] \ seen'[s] : t \in lost \/ Dead(t)]_vars
  BY StayStep DEF StayInv
<1> QED BY <1>1, <1>2, <1>3, RevocationsTyped, PTL DEF Spec, RevokedStaysRevoked
=============================================================================
