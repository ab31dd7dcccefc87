---------------------------- MODULE Orchestrator ----------------------------
(***************************************************************************)
(* The process orchestrator (crates/firma-process-orchestrator): stacks of *)
(* component processes that start in order, are supervised by the process  *)
(* that owns them, and are described by files in one runtime-state         *)
(* directory.  Three kinds of process work on that directory at once:      *)
(*                                                                         *)
(*   - the owner of a generation, in the foreground or detached;           *)
(*   - the launcher of a detached owner, which hands the generation over   *)
(*     in two phases (a ready file it removes, an attached file it waits   *)
(*     for) and rolls the generation back when that fails;                 *)
(*   - "stop", which ends whatever the directory describes.                *)
(*                                                                         *)
(* They serialise on an advisory lock (StateTransaction) that the system   *)
(* releases when its holder dies, and fence each other with the generation *)
(* written in stack.lock.  A process is <<g, c>>: component c of           *)
(* generation g, or its owner when c = 0.  An exited process stays visible *)
(* to a probe until its parent collects it, or init does when the parent   *)
(* is dead.  Process ids are never reused.                                 *)
(***************************************************************************)
EXTENDS Naturals

CONSTANTS
  Generations,  \* one per attempt to start a stack
  Detached,     \* the generations started through a launcher
  Stops,        \* calls of stop_components
  N,            \* components of the topology, in startup order
  None,
  MaxFaults     \* bound: processes killed from outside, files that cannot be
                \* removed, signals that fail

Components == 1..N
Processes == Generations \X (0..N)
Owner(g) == <<"owner", g>>
Launcher(g) == <<"launcher", g>>
Stop(s) == <<"stop", s>>
Actors == {Owner(g) : g \in Generations} \cup {Launcher(g) : g \in Detached}
            \cup {Stop(s) : s \in Stops}

ASSUME OrchestratorAssumption ==
  /\ Detached \subseteq Generations
  /\ N \in Nat \ {0}
  /\ MaxFaults \in Nat
  /\ None \notin Generations \cup Actors

VARIABLES
  lock,      \* stack.lock: the generation that owns the directory
  stackpid,  \* stack.pid: the generation whose supervisor it names
  pid,       \* pid[c]: the generation whose process <c>.pid names
  listen,    \* listen[c]: the generation that published <c>.listen
  ready,     \* generations with a stack.<pid>.ready file
  attached,  \* generations with a stack.<pid>.attached file
  txn,       \* the last actor that took the state transaction and kept it
  proc,      \* proc[p]: "none", "up" or "exited" (not yet collected)
  pc,        \* pc[a]: what the actor is doing
  at,        \* at[g]: components of g that were committed as ready
  todo,      \* todo[a]: processes a teardown still has to see gone
  phase,     \* phase[a]: what was sent to the next of them
  lease,     \* lease[a]: the generation a teardown may clean up
  handle,    \* handle[g]: the generations in the handle g's launcher returned
  faults

files == <<lock, stackpid, pid, listen, ready, attached>>
job == <<todo, phase, lease>>
vars == <<files, txn, proc, pc, at, job, handle, faults>>

Startup == {"build", "spawned", "waiting", "published"}
Labels ==
  Startup \cup {"idle", "lock", "announce", "ack", "supervise", "rollback", "ready",
                "attached", "read", "kill", "acquire", "stopping", "ok", "err", "done", "dead"}

TypeOK ==
  /\ {lock, stackpid} \subseteq Generations \cup {None}
  /\ {pid, listen} \subseteq [Components -> Generations \cup {None}]
  /\ ready \subseteq Detached /\ attached \subseteq Detached
  /\ txn \in Actors \cup {None}
  /\ proc \in [Processes -> {"none", "up", "exited"}]
  /\ pc \in [Actors -> Labels]
  /\ at \in [Generations -> 0..N]
  /\ todo \in [Actors -> SUBSET Processes]
  /\ phase \in [Actors -> {"probe", "soft", "hard"}]
  /\ lease \in [Actors -> Generations \cup {None}]
  /\ handle \in [Generations -> SUBSET Generations]
  /\ faults \in 0..MaxFaults

Init ==
  /\ lock = None /\ stackpid = None
  /\ pid = [c \in Components |-> None] /\ listen = pid
  /\ ready = {} /\ attached = {}
  /\ txn = None
  /\ proc = [p \in Processes |-> "none"]
  /\ pc = [a \in Actors |-> "idle"]
  /\ at = [g \in Generations |-> 0]
  /\ todo = [a \in Actors |-> {}]
  /\ phase = [a \in Actors |-> "probe"]
  /\ lease = [a \in Actors |-> None]
  /\ handle = [g \in Generations |-> {}]
  /\ faults = 0

-----------------------------------------------------------------------------
(* Processes and the transaction *)

Alive(a) == IF a[1] = "owner" THEN proc[<<a[2], 0>>] = "up" ELSE pc[a] # "dead"

\* The system releases the advisory lock of a dead process.
Free == txn # None => ~Alive(txn)

Exists(p) == proc[p] # "none"

Go(a, label) == pc' = [pc EXCEPT ![a] = label]

Members(g) == {<<g, c>> : c \in Components}

\* SIGKILL to the running processes of S.
Killed(S) == [p \in Processes |-> IF p \in S /\ proc[p] = "up" THEN "exited" ELSE proc[p]]

\* The labels of a launcher that has its supervisor to collect.
Holding == {"ready", "attached", "read", "kill"}

\* An exited process waits for a parent that is there to collect it: a
\* component for its owner, a supervisor for its launcher, until that one hands
\* it to the background collector.  init collects the others at once.
Kept(p, after) ==
  IF p[2] = 0 THEN p[1] \in Detached /\ pc'[Launcher(p[1])] \in Holding
  ELSE after[<<p[1], 0>>] = "up"

Settled(after) ==
  [p \in Processes |-> IF after[p] = "exited" /\ ~Kept(p, after) THEN "none" ELSE after[p]]

\* The owner of g exits.
Exited(g, after) == Settled([after EXCEPT ![<<g, 0>>] = "exited"])

-----------------------------------------------------------------------------
(* The files *)

\* is_stack_stale: no recorded target exists.
is_stack_stale ==
  /\ stackpid # None => ~Exists(<<stackpid, 0>>)
  /\ \A c \in Components : pid[c] # None => ~Exists(<<pid[c], c>>)

\* cleanup_generation: only the generation of the lease.  Every file is tried,
\* the lock last and only when none of the others is left behind.
cleanup_generation(a) ==
  IF lock # lease[a] THEN UNCHANGED <<files, faults>>
  ELSE \/ /\ lock' = None /\ stackpid' = None
          /\ pid' = [c \in Components |-> None] /\ listen' = pid'
          /\ ready' = ready \ {stackpid} /\ attached' = attached \ {stackpid}
          /\ UNCHANGED faults
       \/ /\ faults < MaxFaults /\ faults' = faults + 1
          /\ \E left, leftListen \in SUBSET Components :
               /\ pid' = [c \in Components |-> IF c \in left THEN pid[c] ELSE None]
               /\ listen' = [c \in Components |-> IF c \in leftListen THEN listen[c] ELSE None]
          /\ stackpid' \in {stackpid, None}
          /\ ready' \in {ready, ready \ {stackpid}}
          /\ attached' \in {attached, attached \ {stackpid}}
          /\ UNCHANGED lock

-----------------------------------------------------------------------------
(* The owner of generation g *)

\* The owner is running and at that label.
OwnerAt(g, label) == pc[Owner(g)] = label /\ proc[<<g, 0>>] = "up"

\* start_foreground_from_plan
StartForeground(g) ==
  /\ g \notin Detached /\ pc[Owner(g)] = "idle"
  /\ Go(Owner(g), "lock")
  /\ proc' = [proc EXCEPT ![<<g, 0>>] = "up"]
  /\ UNCHANGED <<files, txn, at, job, handle, faults>>

\* Mutant: the lock file alone decides.
Bug_ClaimByLock(g) ==
  /\ OwnerAt(g, "lock") /\ Free
  /\ txn' = Owner(g)
  /\ lock' = g /\ stackpid' = None
  /\ pid' = [c \in Components |-> None] /\ listen' = pid'
  /\ Go(Owner(g), "build")
  /\ UNCHANGED <<ready, attached, proc, at, job, handle, faults>>

\* StateTransaction::acquire and acquire_lock: a lock whose recorded targets
\* are all gone is replaced, the stale pid and listen files are removed.
acquire_lock(g) ==
  /\ OwnerAt(g, "lock") /\ Free /\ is_stack_stale
  /\ txn' = Owner(g)
  /\ lock' = g /\ stackpid' = None
  /\ pid' = [c \in Components |-> None] /\ listen' = pid'
  /\ Go(Owner(g), "build")
  /\ UNCHANGED <<ready, attached, proc, at, job, handle, faults>>

AlreadyRunning(g) ==
  /\ OwnerAt(g, "lock") /\ Free /\ ~is_stack_stale
  /\ txn' = None
  /\ Go(Owner(g), "done")
  /\ proc' = Exited(g, proc)
  /\ UNCHANGED <<files, at, job, handle, faults>>

\* spawn_component: the child runs in a process group of its own before its
\* pid file is written.
Spawn(g) ==
  /\ OwnerAt(g, "build")
  /\ Go(Owner(g), "spawned")
  /\ proc' = [proc EXCEPT ![<<g, at[g] + 1>>] = "up"]
  /\ UNCHANGED <<files, txn, at, job, handle, faults>>

WritePidfile(g) ==
  /\ OwnerAt(g, "spawned")
  /\ pid' = [pid EXCEPT ![at[g] + 1] = g]
  /\ Go(Owner(g), "waiting")
  /\ UNCHANGED <<lock, stackpid, listen, ready, attached, txn, proc, at, job, handle, faults>>

\* The component answers and no owned component has exited: its endpoint is
\* published.
PublishEndpoint(g) ==
  /\ OwnerAt(g, "waiting")
  /\ \A p \in Members(g) : proc[p] # "exited"
  /\ listen' = [listen EXCEPT ![at[g] + 1] = g]
  /\ Go(Owner(g), "published")
  /\ UNCHANGED <<lock, stackpid, pid, ready, attached, txn, proc, at, job, handle, faults>>

\* The second look at the owned components; after the last one StartupGuard
\* gives the stack away: a foreground owner publishes it at once (mark_ready
\* drops the transaction), a detached one hands it to its launcher first.
CommitComponent(g) ==
  /\ OwnerAt(g, "published")
  /\ \A p \in Members(g) : proc[p] # "exited"
  /\ at' = [at EXCEPT ![g] = @ + 1]
  /\ \/ /\ at'[g] < N
        /\ Go(Owner(g), "build")
        /\ UNCHANGED txn
     \/ /\ at'[g] = N
        /\ Go(Owner(g), IF g \in Detached THEN "announce" ELSE "supervise")
        /\ txn' = IF g \in Detached THEN txn ELSE None
  /\ UNCHANGED <<files, proc, job, handle, faults>>

\* Startup fails (a plan or spawn error, a pid or listen file that cannot be
\* written, a stop signal, an exited component, a readiness timeout): every
\* owned component is killed.
StartupFails(g) ==
  /\ \E label \in Startup : OwnerAt(g, label)
  /\ Go(Owner(g), "rollback")
  /\ lease' = [lease EXCEPT ![Owner(g)] = g]
  /\ proc' = Killed(Members(g))
  /\ listen' = IF pc[Owner(g)] = "published" THEN [listen EXCEPT ![at[g] + 1] = None] ELSE listen
  /\ UNCHANGED <<lock, stackpid, pid, ready, attached, txn, at, todo, phase, handle, faults>>

\* rollback_startup_components: the state goes only when every owned component
\* was collected and is gone.
RollbackDone(g) ==
  /\ OwnerAt(g, "rollback")
  /\ \A p \in Members(g) : proc[p] # "up"
  /\ cleanup_generation(Owner(g))
  /\ txn' = None
  /\ Go(Owner(g), "done")
  /\ proc' = Exited(g, [p \in Processes |-> IF p \in Members(g) THEN "none" ELSE proc[p]])
  /\ UNCHANGED <<at, job, handle>>

\* CHILD_COLLECTION_TIMEOUT: the state is retained.
RollbackUncertain(g) ==
  /\ OwnerAt(g, "rollback")
  /\ txn' = None
  /\ Go(Owner(g), "done")
  /\ proc' = Exited(g, proc)
  /\ UNCHANGED <<files, at, job, handle, faults>>

\* supervise_running_stack_with_signal: stack.pid, then the ready file.
WriteStackPid(g) ==
  /\ OwnerAt(g, "announce") /\ stackpid # g
  /\ stackpid' = g
  /\ UNCHANGED <<lock, pid, listen, ready, attached, txn, proc, pc, at, job, handle, faults>>

WriteReady(g) ==
  /\ OwnerAt(g, "announce") /\ stackpid = g
  /\ ready' = ready \cup {g}
  /\ Go(Owner(g), "ack")
  /\ UNCHANGED <<lock, stackpid, pid, listen, attached, txn, proc, at, job, handle, faults>>

\* wait_for_launcher_ack saw the ready file gone.
AckSeen(g) ==
  /\ OwnerAt(g, "ack") /\ g \notin ready
  /\ attached' = attached \cup {g}
  /\ txn' = None
  /\ Go(Owner(g), "supervise")
  /\ UNCHANGED <<lock, stackpid, pid, listen, ready, proc, at, job, handle, faults>>

\* RunningStack::shutdown first drops the transaction, then tears the owned
\* components down.
Shutdown(g) ==
  /\ txn' = IF txn = Owner(g) THEN None ELSE txn
  /\ Go(Owner(g), "stopping")
  /\ todo' = [todo EXCEPT ![Owner(g)] = Members(g)]
  /\ phase' = [phase EXCEPT ![Owner(g)] = "probe"]
  /\ lease' = [lease EXCEPT ![Owner(g)] = g]
  /\ UNCHANGED <<files, proc, at, handle, faults>>

\* A stop signal, a write error, or no answer of the launcher in time.
AttachmentFails(g) == (OwnerAt(g, "announce") \/ OwnerAt(g, "ack")) /\ Shutdown(g)

\* block_until_owned_exit_with saw a stop signal, which may come at any time,
\* or an exit.
StopSignalled(g) == OwnerAt(g, "supervise") /\ Shutdown(g)

\* Mutant: only the last component is watched.
Bug_WatchesLast(g) ==
  OwnerAt(g, "supervise") /\ proc[<<g, N>>] # "up" /\ Shutdown(g)

ExitSeen(g) ==
  OwnerAt(g, "supervise") /\ (\E p \in Members(g) : proc[p] # "up") /\ Shutdown(g)

-----------------------------------------------------------------------------
(* stop_inner: the teardown of the processes in todo, one after the other *)

Stopping(a) == pc[a] = "stopping" /\ Alive(a)

\* StopTargets::teardown_order: t is the next target of a, the components last
\* started first, the supervisor after them.
teardown_order(a, t) == t \in todo[a] /\ \A u \in todo[a] : u[2] <= t[2]

\* Mutant: the next target is signalled while this one may still run.
Bug_AdvanceAfterSignal(a) ==
  /\ Stopping(a)
  /\ \E t \in todo[a] :
       /\ teardown_order(a, t)
       /\ phase[a] = "soft" \/ ~Exists(t)
       /\ todo' = [todo EXCEPT ![a] = @ \ {t}]
  /\ phase' = [phase EXCEPT ![a] = "probe"]
  /\ UNCHANGED <<files, txn, proc, pc, at, lease, handle, faults>>

\* The target is gone (an owner collects its children before it looks).
TargetGone(a) ==
  /\ Stopping(a)
  /\ \E t \in todo[a] :
       /\ teardown_order(a, t) /\ ~Exists(t)
       /\ todo' = [todo EXCEPT ![a] = @ \ {t}]
  /\ phase' = [phase EXCEPT ![a] = "probe"]
  /\ UNCHANGED <<files, txn, proc, pc, at, lease, handle, faults>>

\* The target is asked to stop; it may take that as it likes.
SignalSoft(a) ==
  /\ Stopping(a) /\ phase[a] = "probe"
  /\ \E t \in todo[a] : teardown_order(a, t) /\ Exists(t)
  /\ phase' = [phase EXCEPT ![a] = "soft"]
  /\ UNCHANGED <<files, txn, proc, pc, at, todo, lease, handle, faults>>

\* The grace period is over, or a probe failed; the signal may fail as well.
SignalHard(a) ==
  /\ Stopping(a) /\ phase[a] = "soft"
  /\ phase' = [phase EXCEPT ![a] = "hard"]
  /\ UNCHANGED <<files, txn, pc, at, todo, lease, handle>>
  /\ \E t \in todo[a] :
       /\ teardown_order(a, t) /\ Exists(t)
       /\ \/ proc' = Settled(Killed({t})) /\ UNCHANGED faults
          \/ faults < MaxFaults /\ faults' = faults + 1 /\ UNCHANGED proc

\* collect_owned of an owner that stops its stack.
CollectOwned(g) ==
  /\ OwnerAt(g, "stopping")
  /\ \E p \in Members(g) : /\ proc[p] = "exited"
                           /\ proc' = [proc EXCEPT ![p] = "none"]
  /\ UNCHANGED <<files, txn, pc, at, job, handle, faults>>

\* How a teardown ends for the actor: an owner exits, a launcher or a stop
\* gives the transaction back.
Ended(a, label, after) ==
  /\ IF a[1] = "owner"
     THEN /\ Go(a, "done") /\ proc' = Exited(a[2], after)
          /\ UNCHANGED txn
     ELSE /\ Go(a, label) /\ proc' = Settled(after)
          /\ txn' = None
  /\ todo' = [todo EXCEPT ![a] = {}]
  /\ phase' = [phase EXCEPT ![a] = "probe"]
  /\ lease' = [lease EXCEPT ![a] = None]

\* Mutant: there is no settlement deadline.
Bug_SettleForever(a) ==
  /\ Stopping(a) /\ todo[a] = {}
  /\ Ended(a, "err", IF a[1] = "owner" THEN Killed(Members(a[2])) ELSE proc)
  /\ UNCHANGED <<files, at, handle, faults>>

\* TeardownUncertain: HARD_TERMINATION_SETTLEMENT passed, or a probe or a
\* collection failed on the way.  The state is retained; an owner drops its
\* stack, which faults what is left of it.
TeardownUncertain(a) ==
  /\ Stopping(a)
  /\ \A t \in todo[a] : teardown_order(a, t) => ~Exists(t) \/ phase[a] = "hard"
  /\ Ended(a, "err", IF a[1] = "owner" THEN Killed(Members(a[2])) ELSE proc)
  /\ UNCHANGED <<files, at, handle, faults>>

\* The targets are gone.  An owner only tries the transaction and leaves the
\* state behind when another actor has it (RuntimeStateBusy).
TeardownDone(a) ==
  /\ Stopping(a) /\ todo[a] = {}
  /\ IF a[1] = "owner" /\ ~Free THEN UNCHANGED <<files, faults>> ELSE cleanup_generation(a)
  /\ Ended(a, IF a[1] = "stop" /\ lock' = None THEN "ok" ELSE "err", proc)
  /\ UNCHANGED <<at, handle>>

-----------------------------------------------------------------------------
(* The launcher of a detached generation g *)

LauncherAt(g, label) == g \in Detached /\ pc[Launcher(g)] = label

\* start_detached: the supervisor is a direct child of the launcher.
Launch(g) ==
  /\ LauncherAt(g, "idle")
  /\ pc' = [pc EXCEPT ![Launcher(g)] = "ready", ![Owner(g)] = "lock"]
  /\ proc' = [proc EXCEPT ![<<g, 0>>] = "up"]
  /\ UNCHANGED <<files, txn, at, job, handle, faults>>

\* wait_for_supervisor_attachment: removing the ready file is the answer.
SeeReady(g) ==
  /\ LauncherAt(g, "ready") /\ g \in ready
  /\ ready' = ready \ {g}
  /\ Go(Launcher(g), "attached")
  /\ UNCHANGED <<lock, stackpid, pid, listen, attached, txn, proc, at, job, handle, faults>>

SeeAttached(g) ==
  /\ LauncherAt(g, "attached") /\ g \in attached
  /\ attached' = attached \ {g}
  /\ Go(Launcher(g), IF proc[<<g, 0>>] = "up" THEN "read" ELSE "kill")
  /\ UNCHANGED <<lock, stackpid, pid, listen, ready, txn, proc, at, job, handle, faults>>

\* The supervisor has exited, a file cannot be read or removed, or the handoff
\* takes too long.
HandoffFails(g) ==
  /\ LauncherAt(g, "ready") \/ LauncherAt(g, "attached")
  /\ Go(Launcher(g), "kill")
  /\ UNCHANGED <<files, txn, proc, at, job, handle, faults>>

\* read_stack_handle, under the transaction; the supervisor then goes to the
\* background collector.
read_stack_handle(g) ==
  /\ LauncherAt(g, "read") /\ Free
  /\ IF lock = g /\ \A c \in Components : pid[c] # None /\ listen[c] # None
     THEN /\ Go(Launcher(g), "ok")
          /\ handle' = [handle EXCEPT ![g] = {pid[c] : c \in Components}
                                               \cup {listen[c] : c \in Components}]
     ELSE /\ Go(Launcher(g), "kill")
          /\ UNCHANGED handle
  /\ proc' = Settled(proc)
  /\ UNCHANGED <<files, txn, at, job, faults>>

\* terminate_detached_supervisor: killed and collected, here or by the
\* background collector.
TerminateSupervisor(g) ==
  /\ LauncherAt(g, "kill")
  /\ Go(Launcher(g), "acquire")
  /\ proc' = Settled(Killed({<<g, 0>>}))
  /\ UNCHANGED <<files, txn, at, job, handle, faults>>

-----------------------------------------------------------------------------
(* stop_components and stop_generation *)

StopBegin(s) ==
  /\ pc[Stop(s)] = "idle"
  /\ Go(Stop(s), "acquire")
  /\ UNCHANGED <<files, txn, proc, at, job, handle, faults>>

\* What the pid files name.
RecordedComponents == {<<pid[c], c>> : c \in {d \in Components : pid[d] # None}}

RecordedSupervisor == IF stackpid = None THEN {} ELSE {<<stackpid, 0>>}

StopTargets == RecordedComponents \cup RecordedSupervisor

\* Mutant: a rollback takes what it finds.
Bug_StopWhateverIsThere(a) ==
  /\ pc[a] = "acquire" /\ Free
  /\ txn' = a
  /\ Go(a, "stopping")
  /\ todo' = [todo EXCEPT ![a] = StopTargets]
  /\ phase' = [phase EXCEPT ![a] = "probe"]
  /\ lease' = [lease EXCEPT ![a] = lock]
  /\ UNCHANGED <<files, proc, at, handle, faults>>

\* Mutant: a stop does not wait for the transaction.
Bug_StopUnserialised(a) ==
  /\ pc[a] = "acquire" /\ (a[1] = "launcher" => Free)
  /\ IF a[1] = "launcher" /\ lock # a[2]
     THEN /\ Go(a, "err")
          /\ UNCHANGED <<txn, job>>
     ELSE /\ txn' = a
          /\ Go(a, "stopping")
          /\ todo' = [todo EXCEPT ![a] = StopTargets]
          /\ phase' = [phase EXCEPT ![a] = "probe"]
          /\ lease' = [lease EXCEPT ![a] = lock]
  /\ UNCHANGED <<files, proc, at, handle, faults>>

\* stop_expected_generation: a stop takes what the directory describes, a
\* launcher's rollback only its own generation.
stop_expected_generation(a) ==
  /\ pc[a] = "acquire" /\ Free
  /\ IF a[1] = "launcher" /\ lock # a[2]
     THEN /\ Go(a, "err")
          /\ UNCHANGED <<txn, job>>
     ELSE /\ txn' = a
          /\ Go(a, "stopping")
          /\ todo' = [todo EXCEPT ![a] = StopTargets]
          /\ phase' = [phase EXCEPT ![a] = "probe"]
          /\ lease' = [lease EXCEPT ![a] = lock]
  /\ UNCHANGED <<files, proc, at, handle, faults>>

-----------------------------------------------------------------------------
(* What happens to processes *)

\* A component exits by itself or because it was asked to.
ComponentExits(g) ==
  /\ UNCHANGED <<files, txn, pc, at, job, handle, faults>>
  /\ \E p \in Members(g) : proc[p] = "up" /\ proc' = Settled(Killed({p}))

\* SIGKILL from outside.
OwnerKilled(g) ==
  /\ proc[<<g, 0>>] = "up" /\ faults < MaxFaults
  /\ UNCHANGED <<files, txn, pc, at, job, handle>>
  /\ proc' = Settled(Killed({<<g, 0>>}))
  /\ faults' = faults + 1

ClientKilled(a) ==
  /\ a[1] # "owner" /\ faults < MaxFaults
  /\ pc[a] \in {"ready", "attached", "read", "kill", "acquire", "stopping"}
  /\ Go(a, "dead")
  /\ proc' = Settled(proc)
  /\ faults' = faults + 1
  /\ UNCHANGED <<files, txn, at, job, handle>>

-----------------------------------------------------------------------------

OwnerStep(g) ==
  \/ acquire_lock(g) \/ AlreadyRunning(g)
  \/ Spawn(g) \/ WritePidfile(g) \/ PublishEndpoint(g) \/ CommitComponent(g)
  \/ StartupFails(g) \/ RollbackDone(g) \/ RollbackUncertain(g)
  \/ WriteStackPid(g) \/ WriteReady(g) \/ AckSeen(g) \/ AttachmentFails(g)
  \/ ExitSeen(g) \/ CollectOwned(g)

LauncherStep(g) ==
  \/ SeeReady(g) \/ SeeAttached(g) \/ HandoffFails(g)
  \/ read_stack_handle(g) \/ TerminateSupervisor(g)

TeardownStep(a) ==
  \/ TargetGone(a) \/ SignalSoft(a) \/ SignalHard(a)
  \/ TeardownUncertain(a) \/ TeardownDone(a)

Next ==
  \/ \E g \in Generations :
       \/ StartForeground(g) \/ OwnerStep(g) \/ StopSignalled(g)
       \/ Launch(g) \/ LauncherStep(g)
       \/ ComponentExits(g) \/ OwnerKilled(g)
  \/ \E s \in Stops : StopBegin(s)
  \/ \E a \in Actors \ {Owner(g) : g \in Generations} : stop_expected_generation(a)
  \/ \E a \in Actors : TeardownStep(a) \/ ClientKilled(a)

\* Every wait of a process is a poll with a deadline, except the one for the
\* transaction.
Fairness ==
  /\ \A g \in Generations : WF_vars(OwnerStep(g)) /\ WF_vars(LauncherStep(g))
  /\ \A a \in Actors : WF_vars(TeardownStep(a)) /\ WF_vars(a[1] # "owner" /\ stop_expected_generation(a))

Spec == Init /\ [][Next]_vars /\ Fairness

-----------------------------------------------------------------------------
(* Properties *)

\* The one gap: an owner killed between the spawn of a component and its pid
\* file leaves a process nothing on disk names.
Unrecorded(p) ==
  LET g == p[1] IN
  pc[Owner(g)] = "spawned" /\ proc[<<g, 0>>] # "up" /\ p[2] = at[g] + 1

\* As long as a component runs, its pid file names it and stack.lock names its
\* generation, whatever the owner, a launcher that rolls back, a stop, or the
\* death of any of them does: the next stop finds it and no other stack starts
\* beside it (the gap of Unrecorded aside).
RunningIsRecorded ==
  \A g \in Generations, c \in Components :
    proc[<<g, c>>] = "up" /\ ~Unrecorded(<<g, c>>) =>
      /\ lock = g
      /\ pid[c] = g \/ (OwnerAt(g, "spawned") /\ c = at[g] + 1)

\* In a teardown that goes one target at a time (stop_inner), by an owner, a
\* stop or a launcher, and though two of them may run at once: a process is
\* signalled only when every component that was started after it is down.  The
\* kill of all components at once, of a startup that fails and of an owner that
\* gives up, has no order.
DependentsFirst ==
  \A a \in Actors :
    Stopping(a) /\ phase[a] # "probe" =>
      \A t \in todo[a], c \in Components :
        teardown_order(a, t) /\ c > t[2] => proc[<<t[1], c>>] # "up" \/ Unrecorded(<<t[1], c>>)

\* A launcher keeps to the generation it assigned, though another may hold the
\* directory by the time it looks: the handle it returns describes that
\* generation only, and its rollback never touches a replacement stack.
LauncherKeepsToItsOwn ==
  \A g \in Detached :
    /\ handle[g] \subseteq {g}
    /\ \A p \in todo[Launcher(g)] : p[1] = g

\* A stop that reports success leaves no stack behind, even one that was being
\* started or torn down by others meanwhile.
StopMeansStopped ==
  [][\A s \in Stops : pc'[Stop(s)] = "ok" /\ pc[Stop(s)] # "ok" =>
       \A g \in Generations, c \in Components :
         proc[<<g, c>>] = "up" => Unrecorded(<<g, c>>)]_vars

\* Launchers, stops and owners that start or stop do not wait for each other
\* for ever, although a launcher waits for the transaction while a stop that
\* holds it waits for the supervisor only that launcher can collect.
EveryoneSettles ==
  \A a \in Actors :
    (pc[a] # "idle" /\ Alive(a)) ~> (pc[a] \in {"supervise", "ok", "err", "done"} \/ ~Alive(a))

\* When one component of a supervised stack exits, its owner brings the whole
\* stack down and ends, whoever else holds the transaction and whatever
\* withstands.  Only an owner that is itself killed on the way leaves components
\* running, which RunningIsRecorded keeps in reach of a stop.
StackFallsTogether ==
  \A g \in Generations :
    (OwnerAt(g, "supervise") /\ \E p \in Members(g) : proc[p] # "up") ~>
      (proc[<<g, 0>>] # "up" /\ (pc[Owner(g)] = "done" => \A p \in Members(g) : proc[p] # "up"))

=============================================================================
