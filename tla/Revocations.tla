---------------------------- MODULE Revocations ----------------------------
(***************************************************************************)
(* The revocations of the Authority (crates/firma-authority): one text     *)
(* file that the command line and operators write, the memory the server   *)
(* derives from it through a file watcher, and the streams that send the   *)
(* whole current set to the sidecars.                                      *)
(*                                                                         *)
(* The file is a function from tokens to the line that revokes them: a     *)
(* time, or Bare for a line with only the identifier, which is dated when  *)
(* it is loaded.  The lines of a token after its first one are ignored.    *)
(*                                                                         *)
(* RevocationStore::try_new takes a blocking lock to load a file that has  *)
(* a line.  The server and both commands call it inside the runtime that   *)
(* drives them, where tokio refuses to block and panics: each of the three *)
(* starts only on a blank file.                                            *)
(***************************************************************************)
EXTENDS Naturals, FiniteSets

CONSTANTS
  Tokens,
  Commanded,  \* the tokens revoked with the command, not by hand
  Streams,    \* connections of sidecars, each with what its sidecar last got
  Ttl,        \* max_ttl_seconds: no token lives longer
  Skew,       \* REVOCATION_SET_SKEW_MARGIN
  SignalCap,  \* capacity of the watcher's channel
  Absent, Bare,
  MaxTime,    \* bound: the clock
  MaxStarts,  \* bound: attempts to start the server
  MaxFaults   \* bound: failed reads and writes of the file, crashes

ASSUME RevocationsAssumption ==
  /\ Commanded \subseteq Tokens
  /\ {Ttl, Skew, MaxTime, MaxStarts, MaxFaults} \subseteq Nat
  /\ SignalCap \in Nat \ {0}
  /\ Absent \notin Nat /\ Bare \notin Nat
  /\ Absent # Bare

VARIABLES
  now,
  file,      \* the line of each token
  cli,       \* cli[t]: where "revocations add t" is
  stamp,     \* stamp[t]: the time in the line it queued
  compact,   \* where "revocations compact" is
  server,    \* "down", "starting", "loaded" (not watching yet), "up"
  starts,    \* how often the server was started
  mem,       \* RevocationState: the entries and their time
  signals,   \* signals in the channel from the watcher to the task
  task,      \* the reload task: "idle", "merge" or "signal"
  content,   \* what the task read
  new_entries, \* what its reload added and it has not signalled yet
  stream,    \* "closed", "subscribed", "opening", "waiting", "woken", "sending"
  pending,   \* pending[s]: a broadcast that s has not received yet
  carry,     \* carry[s]: the set that s is about to send
  seen,      \* seen[s]: the set its sidecar holds
  faults,
  revoked,   \* history: when a token was first revoked
  lost,      \* history: tokens whose line a compaction destroyed
  told       \* history: tokens the running watcher has been told about

clients == <<cli, stamp, compact>>
memory == <<mem, signals, task, content, new_entries>>
streams == <<stream, pending, carry, seen>>
history == <<revoked, lost, told>>
vars == <<now, file, clients, server, starts, memory, streams, faults, history>>

Times == 0..MaxTime
Lines == Times \cup {Absent, Bare}
NoLine == [t \in Tokens |-> Absent]

TypeOK ==
  /\ now \in Times
  /\ file \in [Tokens -> Lines] /\ content \in [Tokens -> Lines]
  /\ cli \in [Tokens -> {"idle", "opened", "queued", "done"}]
  /\ stamp \in [Tokens -> Times]
  /\ compact \in {"idle", "opened", "done"}
  /\ server \in {"down", "starting", "loaded", "up"} /\ starts \in 0..MaxStarts
  /\ mem \in [Tokens -> Times \cup {Absent}]
  /\ signals \in 0..SignalCap /\ task \in {"idle", "merge", "signal"}
  /\ new_entries \subseteq Tokens
  /\ stream \in [Streams -> {"closed", "subscribed", "opening", "waiting", "woken", "sending"}]
  /\ pending \in [Streams -> BOOLEAN]
  /\ carry \in [Streams -> SUBSET Tokens] /\ seen \in [Streams -> SUBSET Tokens]
  /\ faults \in 0..MaxFaults
  /\ revoked \in [Tokens -> Times \cup {Absent}]
  /\ lost \subseteq Tokens /\ told \subseteq Tokens

Init ==
  /\ now = 0
  /\ file = NoLine /\ content = NoLine
  /\ cli = [t \in Tokens |-> "idle"] /\ stamp = [t \in Tokens |-> 0]
  /\ compact = "idle"
  /\ server = "down" /\ starts = 0
  /\ mem = [t \in Tokens |-> Absent] /\ signals = 0 /\ task = "idle" /\ new_entries = {}
  /\ stream = [s \in Streams |-> "closed"]
  /\ pending = [s \in Streams |-> FALSE]
  /\ carry = [s \in Streams |-> {}] /\ seen = [s \in Streams |-> {}]
  /\ faults = 0
  /\ revoked = [t \in Tokens |-> Absent] /\ lost = {} /\ told = {}

-----------------------------------------------------------------------------
(* The file and its writers *)

Blank == \A t \in Tokens : file[t] = Absent

\* A bug: the life of the token is not counted.
Bug_ExpiredByMargin(at) == at + Skew < now

\* is_expired: past the longest life of a token revoked at that time, on every
\* clock within the margin.
is_expired(at) == at + Ttl + Skew < now

\* The watcher's callback: a signal, dropped when the channel is full.
Notified ==
  signals' = IF server = "up" /\ signals < SignalCap THEN signals + 1 ELSE signals

\* A line lands at the end of the file.
Append(t, line) ==
  /\ file' = [file EXCEPT ![t] = IF @ = Absent THEN line ELSE @]
  /\ told' = IF server = "up" THEN told \cup {t} ELSE told
  /\ Notified
  /\ UNCHANGED lost

\* A token is revoked when it was already issued.
Revoked(t) == revoked' = [revoked EXCEPT ![t] = IF @ = Absent THEN now ELSE @]

\* An operator adds the identifier by hand.
EditFile(t) ==
  /\ file[t] = Absent
  /\ Append(t, Bare)
  /\ Revoked(t)
  /\ UNCHANGED <<now, clients, server, starts, mem, task, content, new_entries, streams, faults>>

\* run_revoke: try_new loads the file, which only a blank one survives.
OpenToRevoke(t) ==
  /\ cli[t] = "idle"
  /\ cli' = [cli EXCEPT ![t] = IF Blank THEN "opened" ELSE "done"]
  /\ UNCHANGED <<now, file, stamp, compact, server, starts, memory, streams, faults, history>>

\* revoke: the write is queued and reported as done; the line carries this time.
revoke(t) ==
  /\ cli[t] = "opened"
  /\ cli' = [cli EXCEPT ![t] = "queued"] /\ stamp' = [stamp EXCEPT ![t] = now]
  /\ Revoked(t)
  /\ UNCHANGED <<now, file, compact, server, starts, memory, streams, faults, lost, told>>

\* The queued write happens before the runtime is gone.  Nobody hears of one
\* that fails.
LineLands(t) ==
  /\ cli[t] = "queued"
  /\ cli' = [cli EXCEPT ![t] = "done"] /\ stamp' = [stamp EXCEPT ![t] = 0]
  /\ \/ Append(t, stamp[t]) /\ UNCHANGED faults
     \/ /\ faults < MaxFaults /\ faults' = faults + 1
        /\ UNCHANGED <<file, signals, lost, told>>
  /\ UNCHANGED <<now, compact, server, starts, mem, task, content, new_entries, streams, revoked>>

\* run_compact: the same load.
OpenToCompact ==
  /\ compact = "idle"
  /\ compact' = IF Blank THEN "opened" ELSE "done"
  /\ UNCHANGED <<now, file, cli, stamp, server, starts, memory, streams, faults, history>>

\* compact_file: the file is created anew with what was loaded, which is nothing.
compact_file ==
  /\ compact = "opened"
  /\ compact' = "done"
  /\ file' = NoLine
  /\ lost' = lost \cup {t \in Tokens : file[t] # Absent}
  /\ told' = {t \in told : mem[t] # Absent}
  /\ Notified
  /\ UNCHANGED <<now, cli, stamp, server, starts, mem, task, content, new_entries, streams,
                 faults, revoked>>

-----------------------------------------------------------------------------
(* The server *)

Start ==
  /\ server = "down"
  /\ starts < MaxStarts
  /\ starts' = starts + 1
  /\ server' = "starting"
  /\ UNCHANGED <<now, file, clients, memory, streams, faults, history>>

\* try_new: a file with a line ends the process.
try_new ==
  /\ server = "starting"
  /\ server' = IF Blank THEN "loaded" ELSE "down"
  /\ UNCHANGED <<now, file, clients, starts, memory, streams, faults, history>>

\* watch: what was written since the load is not announced.
watch ==
  /\ server = "loaded"
  /\ server' = "up"
  /\ UNCHANGED <<now, file, clients, starts, memory, streams, faults, history>>

Crash ==
  /\ server # "down"
  /\ faults < MaxFaults /\ faults' = faults + 1
  /\ server' = "down"
  /\ mem' = [t \in Tokens |-> Absent]
  /\ signals' = 0 /\ task' = "idle" /\ content' = NoLine /\ new_entries' = {}
  /\ stream' = [s \in Streams |-> "closed"]
  /\ pending' = [s \in Streams |-> FALSE]
  /\ carry' = [s \in Streams |-> {}]
  /\ told' = {}
  /\ UNCHANGED <<now, file, clients, starts, seen, revoked, lost>>

\* reload_from_file, the read.  A read that fails keeps the memory, and nothing
\* asks for another one.
ReadFile ==
  /\ server = "up" /\ task = "idle" /\ signals > 0
  /\ signals' = signals - 1
  /\ \/ task' = "merge" /\ content' = file /\ UNCHANGED <<faults, told>>
     \/ /\ faults < MaxFaults /\ faults' = faults + 1
        /\ told' = IF signals = 1 THEN {t \in told : mem[t] # Absent} ELSE told
        /\ UNCHANGED <<task, content>>
  /\ UNCHANGED <<now, file, clients, server, starts, mem, new_entries, streams, revoked, lost>>

\* The lines that are new to the memory and not past their use.
Fresh == {t \in Tokens : content[t] # Absent /\ mem[t] = Absent
                           /\ (content[t] # Bare => ~is_expired(content[t]))}

\* The memory with the fresh lines, a bare one dated now.
Merged == [t \in Tokens |-> IF t \notin Fresh THEN mem[t]
                            ELSE IF content[t] = Bare THEN now ELSE content[t]]

\* A bug: the signals that came with the read are dropped behind it.
Bug_DrainAfterRead ==
  /\ task = "merge"
  /\ task' = IF Fresh = {} THEN "idle" ELSE "signal"
  /\ content' = NoLine /\ mem' = Merged /\ new_entries' = Fresh
  /\ signals' = 0
  /\ UNCHANGED <<now, file, clients, server, starts, streams, faults, history>>

\* reload_from_file, the merge under the write lock: memory only grows.  A
\* reload that added nothing is not signalled.
reload_from_file ==
  /\ task = "merge"
  /\ task' = IF Fresh = {} THEN "idle" ELSE "signal"
  /\ content' = NoLine /\ mem' = Merged /\ new_entries' = Fresh
  /\ UNCHANGED <<now, file, clients, server, starts, signals, streams, faults, history>>

\* The broadcast, after the lock is gone: streams may have read the new memory.
Signal ==
  /\ task = "signal"
  /\ task' = "idle" /\ new_entries' = {}
  /\ pending' = [s \in Streams |-> pending[s] \/ stream[s] # "closed"]
  /\ UNCHANGED <<now, file, clients, server, starts, mem, signals, content,
                 stream, carry, seen, faults, history>>

-----------------------------------------------------------------------------
(* watch_revocations *)

current_set == {t \in Tokens : mem[t] # Absent /\ ~is_expired(mem[t])}

\* A bug: the subscription starts when the opening set is sent.
Bug_SubscribeLate(s) ==
  /\ stream[s] \in {"opening", "sending"}
  /\ stream' = [stream EXCEPT ![s] = "waiting"]
  /\ seen' = [seen EXCEPT ![s] = carry[s]]
  /\ carry' = [carry EXCEPT ![s] = {}]
  /\ pending' = [pending EXCEPT ![s] = FALSE]
  /\ UNCHANGED <<now, file, clients, server, starts, memory, faults, history>>

\* subscribe, before anything is read
Subscribe(s) ==
  /\ server = "up"
  /\ stream[s] = "closed"
  /\ stream' = [stream EXCEPT ![s] = "subscribed"]
  /\ pending' = [pending EXCEPT ![s] = FALSE]
  /\ UNCHANGED <<now, file, clients, server, starts, memory, carry, seen, faults, history>>

\* The opening set.
OpeningSet(s) ==
  /\ stream[s] = "subscribed"
  /\ stream' = [stream EXCEPT ![s] = "opening"]
  /\ carry' = [carry EXCEPT ![s] = current_set]
  /\ UNCHANGED <<now, file, clients, server, starts, memory, pending, seen, faults, history>>

\* A set is sent, and the sidecar replaces the one it has.
Yield(s) ==
  /\ stream[s] \in {"opening", "sending"}
  /\ stream' = [stream EXCEPT ![s] = "waiting"]
  /\ seen' = [seen EXCEPT ![s] = carry[s]]
  /\ carry' = [carry EXCEPT ![s] = {}]
  /\ UNCHANGED <<now, file, clients, server, starts, memory, pending, faults, history>>

\* recv and the drain of what is queued behind; a lag is a wake-up too.
Woken(s) ==
  /\ stream[s] = "waiting" /\ pending[s]
  /\ stream' = [stream EXCEPT ![s] = "woken"]
  /\ pending' = [pending EXCEPT ![s] = FALSE]
  /\ UNCHANGED <<now, file, clients, server, starts, memory, carry, seen, faults, history>>

ReadSet(s) ==
  /\ stream[s] = "woken"
  /\ stream' = [stream EXCEPT ![s] = "sending"]
  /\ carry' = [carry EXCEPT ![s] = current_set]
  /\ UNCHANGED <<now, file, clients, server, starts, memory, pending, seen, faults, history>>

\* The sidecar goes away; it keeps the set it has and may come back.
Disconnect(s) ==
  /\ stream[s] # "closed"
  /\ stream' = [stream EXCEPT ![s] = "closed"]
  /\ pending' = [pending EXCEPT ![s] = FALSE]
  /\ carry' = [carry EXCEPT ![s] = {}]
  /\ UNCHANGED <<now, file, clients, server, starts, memory, seen, faults, history>>

Tick ==
  /\ now < MaxTime
  /\ now' = now + 1
  /\ UNCHANGED <<file, clients, server, starts, memory, streams, faults, history>>

-----------------------------------------------------------------------------

Task == ReadFile \/ reload_from_file \/ Signal
Serve(s) == OpeningSet(s) \/ Yield(s) \/ Woken(s) \/ ReadSet(s)

Next ==
  \/ \E t \in Tokens \ Commanded : EditFile(t)
  \/ \E t \in Commanded : OpenToRevoke(t) \/ revoke(t) \/ LineLands(t)
  \/ OpenToCompact \/ compact_file
  \/ Start \/ try_new \/ watch \/ Crash
  \/ Task
  \/ \E s \in Streams : Subscribe(s) \/ Serve(s) \/ Disconnect(s)
  \/ Tick

Spec == Init /\ [][Next]_vars

FairSpec ==
  /\ Spec
  /\ WF_vars(try_new) /\ WF_vars(watch) /\ WF_vars(Task)
  /\ \A s \in Streams : WF_vars(Serve(s))

-----------------------------------------------------------------------------
(* Properties *)

\* No token that was revoked is still accepted anywhere within the margin.
Dead(t) == revoked[t] # Absent /\ revoked[t] + Ttl + Skew < now

(***************************************************************************)
(* A stream that waits with nothing pending has sent everything there is,  *)
(* but for what a reload has just added and is about to signal:            *)
(* subscribing before the opening set, and draining before each later one, *)
(* leaves no reload without a signal or a set that shows it (service.rs,   *)
(* watch_revocations; revocation.rs, watch).                               *)
(***************************************************************************)
QuietStreamIsCurrent ==
  \A s \in Streams :
    stream[s] = "waiting" /\ ~pending[s] => current_set \subseteq seen[s] \cup new_entries

(***************************************************************************)
(* A sidecar that was told of a revocation keeps it, over reconnects and   *)
(* restarts of the Authority, for as long as the token can be accepted on  *)
(* a clock within the margin, unless a compaction destroyed its line       *)
(* (is_expired, and that current_set and the file agree on it).            *)
(***************************************************************************)
RevokedStaysRevoked ==
  [][\A s \in Streams : \A t \in seen[s] \ seen'[s] : t \in lost \/ Dead(t)]_vars

(***************************************************************************)
(* Every line the watcher was told of reaches every connected sidecar,     *)
(* however the signals coalesce, unless it is past its use, its stream     *)
(* ends, or the server crashes, a compaction removes the line before it    *)
(* is read, or the read fails (told forgets the last three).               *)
(***************************************************************************)
ToldIsDelivered ==
  \A s \in Streams, t \in Tokens :
    (t \in told /\ stream[s] # "closed")
      ~> (t \in seen[s] \/ Dead(t) \/ t \notin told \/ stream[s] = "closed")

(***************************************************************************)
(* A server that starts comes to serve the revocations that are in the     *)
(* file.  The code disagrees: see the finding of the run                   *)
(* revocations_restart.                                                    *)
(***************************************************************************)
RestartServes == (server = "starting") ~> (server = "up")
=============================================================================
