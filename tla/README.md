# A TLA+ model of OpenFirma

OpenFirma puts a **Sidecar** between an AI agent and the world. An **Authority**
issues capability tokens, streams Cedar policy bundles and streams the set of
revoked tokens; the Sidecar intercepts every call of the agent, decides it
locally, forwards it or not, and emits a signed audit event. `firma run` starts
the agent in a sandbox behind the Sidecar and renews its tokens, a process
orchestrator keeps the services of a machine running, and `firma login` keeps a
renewable login for it.

This directory models the parts where state is shared between tasks or
processes, survives crashes or is read long before it is used. Paths below are
relative to `crates/firma-sidecar/src/` unless they name another crate.

## 1. Inventory

| Component | State | Operations | What makes it hard |
|---|---|---|---|
| Shared enforcement state (`authority_client/{readiness,swappable_policy}.rs`, `enforcement/revocation/`) | current snapshot and its deadline, four readiness flags, bloom filter | swap, mark, refresh, reject, set ready, insert | written by two tasks, read by every call without a common lock |
| Authority client (`authority_client/`) | five tasks: policy stream, freshness watcher, state-file publisher, revocation stream, run rejection | connect, receive, apply, disconnect, back off, stop | reconnects, cancellation, a deadline racing a swap, partial sets |
| Enforcement pipeline (`pipeline/`, `enforcement/`) | per call: pinned snapshot, token, signals, decision; per process: first agent | enforce stages, credential injection, final pin check | several awaits between a check and its use |
| Request handler (`handler.rs`, `interceptor/http.rs`) | per call: decision, dispatch outcome, audit payload | gate, dispatch, audit | the future is dropped when the client disconnects |
| Composio batches (`pipeline/mod.rs`, `handler.rs`) | results of the children, blocker | evaluate each, settle, dispatch once | all or nothing over several awaits |
| Session state (`enforcement/session/`) | LRU cache, append-only log | record action, outcome, provenance; replay | eviction, torn lines, restart |
| Audit WAL sink (`audit/sink/wal/`) | journal, scope and archive files, image in memory | append, replay, archive, reclaim | crash between any two I/O steps, lost answers |
| Audit gRPC sink (`audit/sink/grpc.rs`) | live stream, buffer file with a cap | send, buffer, compact, replay, drain | outages, partial acknowledgements, file faults |
| Revocations of the Authority (`firma-authority`: `revocation.rs`, `service.rs`) | a text file, the set in memory, a signal channel, one broadcast receiver per stream | add, compact, watch, reload, purge, stream the set | three processes on one file, coalesced signals, ageing entries, restarts |
| Issuance and policies of the Authority (`firma-authority`) | policy inputs, signing key | issue, broadcast a bundle | file watching |
| Process orchestrator (`firma-process-orchestrator`) | `stack.lock`, `stack.pid`, `<component>.pid`, `.listen`, `.ready`, `.attached` files; child processes | start, detach, supervise, stop, roll back | several CLIs on one directory, two-phase handoff, kills at any point |
| Login and connection store (`firma-login`, `firma-connection-store`, `firma`) | one record file, keyring entries, a lock file, a pending refresh per process | refresh, save, login, logout | a credential that works once, lost and late answers, crashes between keyring and file |
| Capability map and reloader | token map behind an ArcSwap | reload | file watcher and debounce |
| Local exec, secret broker, `firma run` | one-time tokens, leases, child processes | approve, resolve, renew | expiry, races |
| Normalizer, Cedar translation, Composio decoder, mappings, configuration, CLI, TUI, VM runner | none that is shared | pure functions or operating-system calls | – |

How they interact: the Authority's streams feed the policy and revocation
tasks, which write the shared state; the pipeline pins the snapshot, reads the
flags and the filter, and changes the session state; the handler calls the
pipeline, then a connector, then sends one audit payload over a bounded channel;
a signing adapter passes the event to one of the sinks. A rejection of the run,
noticed by the policy stream, by the revocation stream or by an audit
submission, clears the flags and cancels every task. The orchestrator starts and
stops these processes; the saved login is what a machine presents to the Control
Plane.

What makes them correct: no dispatch with a token known to be revoked, under an
expired or a mixed policy generation, for a second agent, or after the run was
rejected; readiness never claims what the Sidecar does not hold; every decision
is audited as what happened; no accepted audit event is lost, reordered or
delivered under another run; session counters are not forgotten; a revocation
reaches every connected Sidecar and stays; no process of a stack runs that the
files do not lead to; a saved login can be used, is not overwritten and is not
ended by its own retries.

`PROJECT.json` lists every component, modelled or not, and under `hazards` the
lines where each of these can go wrong.

## 2. Modules

| Module | Models | State and actions |
|---|---|---|
| `EnforcementState` | the shared state and the contract of its changes | `snapshot` is the ArcSwap, `readiness` the watch channel, `bloom` the filter, `now` the monotonic clock; one action per method, with the method's name |
| `AuthoritySync` | the Authority client; extends `EnforcementState` | one control variable per task (`policy`, `watcher`, `publisher`, `rev`), `permit` is the stored permit of `Notify`, `cancel` the cancellation token |
| `Pipeline` | `RequestHandler::handle` and `EnforcementPipeline::enforce` for any number of concurrent calls; extends `EnforcementState` | `pc[r]` is the position of call r between two awaits or shared accesses; `StateChanges` lets the contract move at any time; `listening` says that the signing adapter still took payloads at the last send: its end is nobody's business before the next one |
| `Composite` | `enforce_composite` and `handle_composio_actions`; extends `EnforcementState` | `token` is what the capability map selects for the action under evaluation, any token at each one; `children`, `blocker`, `sent`, `audits`, `listening` |
| `SessionStore` | the persistent session store | `cache`, `record`; of the log what a replay can read (`last`, `torn`, `whole`), and whether it reads anything (`garbled`) |
| `JsonLog` | a file of JSON lines, with a possibly torn last line | `write_record`, `TornWrite` |
| `AuditQueue` | abstract: an in-order queue from which an event leaves only when it is settled | `kept` is what is in it, `before` its order; `Accept`, `Collect`, `Archive`, `Reclaim` |
| `AuditWal` | the WAL sink; extends `JsonLog`, implements `AuditQueue` | `file`, `archive`, `scope` on disk, `records`, `consumed` in memory, `at` between two I/O steps |
| `GrpcSink` | the gRPC sink; extends `JsonLog` | `stream`, `queue`, `file`, `size`, `kept`; `cap` is the `buffer_max_bytes` a process was started with; `batch` is the set of events a replay sends (each event is written once), of which the collector may persist any part |
| `Orchestrator` | owners, launchers and stops of stacks on one state directory | a process is `<<g, c>>`; one variable per file; `txn` is the state transaction; `pc[a]` is the position of an owner, a launcher or a stop; `todo`, `phase`, `lease` are a teardown, shared by all three as in `stop.rs`: the targets left, of which `teardown_order` names the next |
| `Revocations` | the Authority's revocation store, its file, watcher, reload task, commands and streams | `file`, `mem`, `signals`, `task`; `new_entries` is what a reload has merged and not signalled yet; `stream[s]` and `pending[s]` are `watch_revocations` and its broadcast receiver; `seen[s]` is what its Sidecar holds |
| `NativeLogin` | `NativeSession`, the connection store, the login and logout commands | `record`, `keyring`, `lock` on the machine; `pending[s]` is `PendingRefresh`, which keeps the lock; `issued`, `used`, `family`, `ended` are the Control Plane (external); `net` holds requests that may arrive late; `TurnAway` answers one without using its credential, for now or for good |
| `AuthoritySyncProofs` (also of `EnforcementState`), `PipelineProofs`, `CompositeProofs` (also of `SessionStore`), `AuditWalProofs`, `GrpcSinkProofs`, `OrchestratorProofs`, `RevocationsProofs`, `NativeLoginProofs` | theorems | – |
| `MC*` | instances for TLC | – |

Two abstract specifications carry the composition. `EnforcementState!StateSpec`
says which changes a reader of the shared state may see, in any order.
`AuthoritySync` is proved to implement it, and `Pipeline` and `Composite` are
proved correct against all of it, so what holds of the readers holds whatever
the streams do. `AuditQueue!QueueSpec` is what the WAL sink promises; `AuditWal`
is proved to implement it with the events of the journal as the queue, the
positions of their records as its order, and the collector's receipts and the
archive as the settled events.

Abstractions that recur: a token, event, session or request is a model value; a
policy generation is a number with a deadline; a bundle is present, valid and
has a lifetime, or not; the checks inside a stage that change no state are one
nondeterministic outcome; an audit payload is its decision and policy version; a
readiness probe is its outcome; a process id is never reused; a login credential
is the number of its issue. History variables (marked in the declarations) only
serve properties.

A definition named `Bug_...` is a wrong version of the definition below it; no
specification uses it. Each property of a passing run is violated when the
definition is replaced by one of them, which `PROJECT.json` lists as `mutants`.

## 3. Runs

`tlc -config <cfg> <module>`; the number is of distinct states.

| Run | Instance | Shows |
|---|---|---|
| `sync_policy` (98,566) | two generations, clock 0..2, no tokens, fair | the flags follow the snapshot whichever of a swap and a deadline the watcher sees first; a rejection is terminal and stops every task; the state file never goes back and every published state reaches the writer; an expiry the watcher sleeps for is shown |
| `sync_revocation` (535,176) | two tokens that share a bit, three bits, fail closed | while ready, the filter holds the Authority's set of the open stream; the client implements `StateSpec` |
| `pipeline` (2,443,246) | two calls, tokens of two agents, generations Deny, StepUp, Modify, clock 0..1 | no dispatch with a revoked token, for a second agent or after rejection; one generation per call; no admission on an expired pin; distinct counts; the audit says what happened, whenever its channel closes |
| `composite` (1,545,100) | up to three actions, two tokens that share a bit, two credential sets | dispatched once, as a whole and with no action's token known as revoked, or audited as blocked |
| `session_store` (965,588) | three sessions, capacity 2, four operations, two restarts | the cache, or the log of an evicted session, has everything recorded for it; a failed append costs only its own session |
| `audit_wal` (390,687) | two events, two runs, two faults, capacity 2, fair | nothing journaled is lost; runs stay apart; memory equals disk; refinement of the queue; what is pending is settled |
| `grpc_sink` (788,165) | three events and one the sink refuses, buffers of 1 and 2 lines, stream queue of 1, one crash, every fault, fair | an unharmed buffer keeps its events; live after replay; nothing unhandled at shutdown; delivery |
| `orchestrator` (1,275,477) | a detached and a foreground generation of two components, one stop, one fault | a running component is named by the files and blocks other starts; an ordered teardown stops dependents first; a launcher touches only its own generation; a stop that succeeds leaves nothing running |
| `orchestrator_settles` (45,098) | one detached generation, one stop, one fault, fair | nobody waits for ever; when one component exits, its owner ends, and ends the others unless it is killed itself |
| `revocations` (673,289) | one token revoked with the command and one by hand, one stream, a compaction, two starts, one fault, fair | a waiting stream has sent the current set or its signal is on the way; a told revocation stays; a line the watcher was told of is delivered |
| `revocations_restart` | the same, no fault | violated: see below |
| `native_login` (1,014,240) | two sessions, two logins, a logout, three credentials, two keys, two attempts, one fault | the record names a credential that exists; a login is replaced only by its successor; no live login ends by a reuse unless a process could not finish |

Why the bounds are enough for the questions asked. A race between a swap and a
deadline needs two generations and two ticks; a wrong baseline needs a token
revoked before and one revoked after the stream opened, and bit sharing needs
two tokens; races of calls need two of them; a stale verdict needs two
generations that differ; which blocker answers needs three actions (an admitted
one, a policy outcome and an operational abort). An eviction and the return of
the session need three sessions in a cache of two and four operations, and a
history longer than its cap of two needs three. A torn line, its repair and a
second fault need two faults, and a full journal is reached because torn lines
count as records. A compaction needs one line more than the cap, and a cap of one
line is the case in which the newest line is kept although it does not fit the
half that a compaction aims at (`audit/sink/grpc.rs:321-325`). A replacement
stack needs a second generation, and an order of components two of them; the
deadlock between launcher and stop needs one of each. A clock of 0..3 with a
lifetime and a margin of 1 contains the last moment a revocation must be kept
and the first at which it may go. A reuse needs two processes, two keys and the
successor of a successor. Bounds (`MaxTime`, `MaxGen`, `MaxOps`, `MaxRestarts`,
`MaxCrashes`, `MaxActions`, `MaxStarts`, `MaxFaults`, `MaxIssued`, `MaxKeys`) are
constants that appear only in guards and types.

`CHECK_DEADLOCK FALSE` is used throughout: a Sidecar that was told to stop, a
request that was answered, a sink that returned and a command that ended really
stop, and the bounds end every other behaviour.

Symmetry is used in `pipeline`, `composite` and `session_store`, never with
liveness.

### Fairness

`AuthoritySync!Fairness`: a runnable task is polled, so the code between awaits
and ready timers, permits and cancellations proceed (weak fairness). A stream
loop may be offered a message at every poll; `tokio::select!` picks ready
branches at random, so a cancellation that is ready again and again is taken
(strong fairness). Nothing is assumed of the Authority, the network or the
clock. `AuditWal!FairSpec`: the sink's task runs, its select takes the channel
and the timer in random order, and a collector that is asked again and again
answers at some time. `GrpcSink!FairSpec`: the sink runs and redials, and the
collector at some time acknowledges a whole replay. Liveness is claimed only
while the sink is serving and was not told to exit. `Orchestrator!Fairness`: the
owners, launchers and stops run; each of their waits is a poll with a deadline
except the one for the transaction, so no fairness is assumed of the components
or of whoever else is to act. `Revocations!FairSpec`: the server, its reload
task and the handlers of its streams run; nothing is assumed of operators, of
the clock or of Sidecars that reconnect.

### Where the code and its documents differ

`revocations_restart` is the one run that expects a violation. A server that
starts should come to serve the revocations of its file, but
`RevocationStore::try_new` takes tokio's `blocking_write` in async code as soon
as the file has a line, and that panics (`firma-authority/src/revocation.rs:153`;
the comment at lines 86-87 states the rule that its callers break). The
Authority does not come up, and the same holds of a second `revocations add` and
of `revocations compact`. The passing run `revocations` contains this behaviour:
all three start on a blank file only.

Seven smaller differences are carved out of the properties that pass:

* A snapshot that expires before the watcher arms for it leaves
  `policy_bundle_fresh` set (`authority_client/freshness.rs:41`). Calls are still
  denied, since each compares its own pin with the clock. `ArmedExpiryIsShown`
  is about a deadline the watcher sleeps for.
* "No call enters or exits the sidecar without a corresponding audit record"
  (`audit/mod.rs:4-5`). The signing adapter drops its receiver when the Sidecar
  exits, as after a rejection of the run, or when its sink has ended
  (`startup/audit.rs:247,259`); a call or batch that finishes later sends its
  payload to a closed channel, which is only logged (`handler.rs:1022-1024,
  1478-1482`). `AuditMatchesDispatch` and `BlockedIsAuditedBlocked` ask for the
  payload of what finished before, and for the truth of every payload.
* When the client disconnects after dispatch, hyper drops the handler and the
  call is never audited (`handler.rs:949-953`). `AuditMatchesDispatch` is about
  calls the handler finished.
* The session store's documentation says that "state survives LRU eviction" and
  that the state of an evicted session "is restored on the next restart / cache
  miss replay" (`enforcement/session/persistent.rs:5,20-21`; `state.rs:15-16` says
  the same). No operation reads the log: an evicted session that is used again
  starts from zero, and its new record becomes the last log entry (line 109), so
  a restart does not bring the old one back either. `StateKept` leaves the
  sessions to which this happened out (`reset`); one that is evicted and not used
  again is in the log.
* A log line of the session store that is torn inside a character makes the
  replay fail (`enforcement/session/persistent.rs:261`), where other broken lines
  are skipped: this restart and every later one start from nothing. The comment
  at lines 79-81 allows it, and `StateKept` leaves the sessions of such a restart
  out (`RestartUnread`).
* A gRPC buffer line torn by a failed write swallows the next event
  (`audit/sink/grpc.rs:282`); the WAL's journal repairs its tail, the buffer
  does not. `BufferedStaysUnharmed` stops at the flag `harmed`.
* The Composio path has no rejection check between the evaluation of its last
  action and the dispatch (`handler.rs:1445`). `NoDispatchAfterRejection` is
  stated for single calls.

Weaker behaviours the models contain and no property denies:

* Pipeline: two concurrent calls of a session may record the same parent,
  because the parent is read before the policy is evaluated; a call whose
  credentials cannot be fetched stays in the provenance chain; a pin may expire
  between the conclusion of a call and its dispatch, and is not looked at again.
* Session store and audit: a replay of more sessions than the cache holds keeps
  an arbitrary subset; an unreadable gRPC buffer replays as empty and is
  truncated, and a death between the truncation and the rewrite of a compaction
  loses the kept lines; a child that asks for a modification keeps that decision
  in the audit of a blocked Composio request unless another child aborts.
* Orchestrator: an owner killed between the spawn of a component and its pid
  file leaves a process no file names (`Unrecorded`). A startup that fails and an
  owner that gives up kill all components at once
  (`firma-process-orchestrator/src/start.rs:573-582,783-797`), so
  `DependentsFirst` is about the teardown of `stop_inner` only. An owner killed
  while it supervises leaves its components running; `StackFallsTogether` speaks
  of one that ends by itself, and `RunningIsRecorded` keeps the rest in reach of
  a stop.
* Revocations: a compaction truncates a line appended since its load; a line
  written between the load and the watch is not heard of until the next one; a
  failed reload is not repeated; a background write of the command may fail
  after it reported success.
* Login: a refresh with an unknown outcome keeps the store's lock between calls,
  and nothing but a later call gives it up; a crash between the rename and the
  deletion leaves an orphan keyring entry.

## 4. Proofs

TLAPS checks the following for every value of the constants that satisfies the
named assumptions (`StateAssumption`, `SyncAssumption`, `PipelineAssumption`,
`CompositeAssumption`, `StoreAssumption`, `LogAssumption`, `WalAssumption`, `SinkAssumption`,
`OrchestratorAssumption`, `RevocationsAssumption`, `NativeLoginAssumption`: types
of the constants, positive lifetimes, replay limit, cache, history and channel
capacities and attempts, at least one component, and that
markers such as `NoToken`, `NoCred`, `NoRun`, `Garbage`, `Absent`, `Bare` and
`None` are none of the values).

* `AuthoritySyncProofs`, the shared state: `StateTyped`; `StateHoldsBaseline`,
  while revocations are ready the filter holds the set that made them so. It
  follows from the filter only growing.
* `AuthoritySyncProofs`, the client: `TypeCorrect`; `FlagsCorrect`;
  `ReadinessCorrect`; `ClientImplementsState`; `RejectionIsTerminal`;
  `FileMovesForward`.
  `FlagsFollowSnapshot` is not inductive: nothing in it says that a watcher that
  is armed, or a policy task that has swapped, has a generation behind it, nor
  that an announced generation was marked. `PolicyInv` adds that.
  `ReadyHoldsAuthoritySet` needs `RevInv`: messages of a stream lose only purged
  tokens, and of a set being applied every token is in the filter or still to be
  added. The refinement theorem uses both, one step per action. That the state
  file never goes back rests on `FileInv`: the generation in the file is at most
  the one the publisher took, that one at most the one in the channel, and that
  one at most the snapshot's, so a writer never holds an older one than the file.
* `PipelineProofs`: `PipelineTyped`; `RevokedNotSent`; `OneGeneration`;
  `OneTenant`; `CountsDiffer`; `AuditIsTruthful`; `AdmittedWhileFresh`;
  `RejectedSendsNothing`, for any number of concurrent calls and whatever the
  shared state does between their awaits. The properties speak of calls that
  were sent or audited, and what makes them true happened several awaits
  earlier, so `Inv` follows a call: until its validation it admits nothing
  (`EarlyInv`); what it knew to be revoked when it passed the readiness gate is
  in the filter, which only grows, when it looks there (`KnownInv`, with
  `BaselineHeld` of the shared state); from validation on its token is none of
  those and belongs to the one agent (`PassedInv`); from its verdict on the
  policy of its pin admits it (`VerdictInv`); what it may be audited as follows
  from whether it was sent (`SentInv`), and it is audited once if it finished while
  the channel was open (`AuditInv`); and no count exceeds the
  session's (`CountInv`).
* `CompositeProofs`: `BatchTyped`; `BatchWhole`; `BatchFresh`; `BatchUnrevoked`;
  `BatchAudit`, for a request of any number of actions and whichever tokens are
  selected for them. What holds when the request is sent must be known while it
  is evaluated: `BatchInv` adds that what an action knew to be revoked as it
  passed the readiness gate is in the filter when its token is looked up, with
  `BaselineHeld` of the shared state, so that its token is none of those from
  then on (`TokenInv`); that an admitted action has credentials and a token not
  known as revoked (`CredentialInv`); that an allowed last action concluded under
  a fresh pin (`LastInv`); and that the payloads taken are those of the first
  actions, all that were sent as long as the adapter listens (`AuditInv`).
  `RewriteFacts` says what rewriting a blocked request leaves.
* `CompositeProofs`, the session store: `StoreTyped`; `StoreRemembers`, for any
  number of sessions, operations, failed appends and restarts. `StateKept` says
  nothing of the log of a session that is cached, which a restart or an eviction
  comes to depend on: `KeptInv` adds that the log has everything recorded for it
  if its last append is readable, `LogInv` that cutting a torn line off costs
  only the session whose line it is, and `UnusedInv` that a session nobody used
  is nowhere. The store pushes onto a history that is already cut, and the
  property cuts the whole one: `CutPush` says that it makes no difference.
* `AuditWalProofs`: `WalTyped`; `MemoryIsDisk`; `JournalKeeps`; `RunsStayApart`;
  `WalImplementsQueue`.
  The argument: while the process runs, its image equals the file and the scope
  names its run (so a reclaim drops what it means to drop); every record a
  replay has passed is with the collector or in the archive; an interrupted
  append only adds to the file; and every event of the file was sent by the run
  in the scope unless the file is empty. The refinement needs in addition that
  an event is in the journal at most once and was sent (`OnceInv`), so that its
  position orders it; `AheadOfAppend` and `AheadOfRest` say how the order changes
  when a record is added and when the first ones are dropped. Each partial write,
  repair and crash maps to a stutter or to the acceptance of its event, and the
  rewrite of the journal to `Reclaim`.
* `GrpcSinkProofs`: `SinkTyped`; `BufferKeeps`; `LiveFollowsReplay`;
  `DrainHandlesAll`, for every cap of the buffer, less than a line included,
  capacity of the stream, fault
  and number of crashes. The file is written only while there is no stream
  (`ControlInv`), so a stream that opened over an empty buffer stays over one.
  That it opens over an empty buffer is known from `buffer_size`, which is the
  number of lines, or one more after an append to a torn line (`SizeInv`); the
  same bound keeps a compaction inside the file. An acknowledged replay may clear
  the file because the batch holds all of its events unless a fault hid some
  (`FaultFreeInv`), and because a count as large as the batch names all of it.
  `HandedInv` says where the events of this process are until it returns.
* `OrchestratorProofs`: `OrchestratorTyped`; `RunningRecorded`;
  `LaunchersKeepToTheirOwn`; `DependentsGoFirst`; `StoppedIsStopped`, for any
  number of stacks, launchers, stops, components and faults. The argument is one
  of ownership. A live owner that starts, rolls back or hands over has the
  transaction and `stack.lock` (`WriterInv`), every file belongs to the
  generation in `stack.lock` (`FilesInv`), and a launcher or a stop that tears
  down has the transaction too, so what it read stays true: each recorded
  component that still runs is among its targets (`ClientInv`). An owner that
  stops has given the transaction away, but nobody else starts its components
  (`OwnerInv`). `RunningIsRecorded` alone is not inductive: without these a
  cleanup could remove the file of a component it never signalled.
* `RevocationsProofs`: `RevocationsTyped`; `QuietIsCurrent`; `RevocationLasts`,
  for any number of streams, tokens and starts. A quiet stream is current
  because the set it carries on its way out is current, or a signal is pending, or
  a reload has merged what is missing and not signalled yet (`CarriedIsCurrent`);
  entries only leave a set by age. That a told revocation
  lasts rests on `StayInv`: every date in memory, in the file or in a queued line
  is at or after the moment of revocation (`DatedInv`), a token in memory or in
  a read under way has its line unless that was lost (`LineInv`), what a Sidecar
  knows and what a stream carries is in the file and in the memory of a server
  that is up (`KnownInv`), and a set about to be sent leaves out only lost and
  dead tokens (`CarryInv`).
* `NativeLoginProofs`: `LoginTyped`; `RecordUsable`; `OnlySuccessorReplaces`;
  `NoReuseWithoutTrouble`, for any number of processes, credentials, keys and
  faults. `Inv` says who holds the lock at which label (`LockInv`), that
  credentials and keys in use were issued (`CredInv`, `KeyInv`), what an actor
  that saves has in its hands and that nobody else can be saving (`SaveInv`), and
  where the entry of the record and of a save under way is (`KeptInv`). The reuse
  theorem adds `ReuseInv`: all presentations of a credential nobody failed to
  renew agree on one key (`OneKeyInv`); if the saved credential was sent, the
  session that sent it keeps the refresh with that key or is saving the
  successor (`RenewInv`); and a successor
  or a new login is not presented before it is saved (`NextInv`, `FreshInv`).
  Without the last two a freshly saved credential could already have a request
  on its way under a key nobody holds.

Only model-checked are the liveness properties (`RejectedRunStops`,
`PublishedIsTaken`, `ArmedExpiryIsShown`, `PendingIsSettled`,
`BufferedIsDelivered`, `EveryoneSettles`, `StackFallsTogether`,
`ToldIsDelivered`): liveness under fairness and `ENABLED` are out of the prover's
reach. `RestartServes` is violated by the code.

Every other property of a passing run is a theorem.

## 5. Not modelled

* In modelled parts: backoff durations; metrics and logs; the truncation of the
  gRPC buffer failing after an acknowledged replay, a compaction whose rewrite
  fails without a crash, and events that cannot be serialized; power loss for
  files the code does not sync; the Composio passthrough and undecodable
  requests; secret rewriting inside bodies; counters at 2^64 (they saturate);
  Windows job objects and credential files; `RunningStack::detach` and a lock
  file with an unreadable generation; the browser and terminal exchange of a
  login (PKCE, callback listener) and logins without a renewable credential.
* With state, and not yet modelled: issuance and the policy store of the
  Authority, the capability map and its reloader, local exec approvals, the
  secret provider's registry, and the renewal and teardown of `firma run`.
* Without a protocol of their own: the normalizer, Cedar translation, Composio
  decoder, mappings and token formats are pure functions of a request;
  configuration, command line and TUI parse and print; the sandbox back ends,
  routing, mounts, the VM runner and its guest issue one operating-system call
  after the other. These and the tests inside the source files are most of the
  lines of the repository, so the models cover a small share of it although
  they cover most of its concurrent state.

## 6. Plan

Done: the shared state and the Authority client; the pipeline, handler and
Composio batches on the contract of the shared state; the audit sinks and the
session state; the Authority's revocations; the process orchestrator; the saved
login; theorems for every safety property of the passing runs and for both
refinements.

Left, most important first:

1. Issuance and the policy store of the Authority, and `Revocations` in place of
   the external Authority of `AuthoritySync`.
2. Capability map and reloader, and `firma run`'s renewal of tokens.
3. Local exec approvals (one use, expiry) and the secret broker's registry.
