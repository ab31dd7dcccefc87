------------------------ MODULE OrchestratorProofs ------------------------
(***************************************************************************)
(* Proofs about Orchestrator for any number of generations, launchers,     *)
(* stops and components, and any number of faults.                         *)
(*                                                                         *)
(* The argument is one of ownership.  Between acquire_lock and the point   *)
(* where it gives the stack away a live owner has the transaction and      *)
(* stack.lock (WriterInv), so it alone spawns and writes; a stop or a      *)
(* launcher that tears down has the transaction as well (ClientInv), so    *)
(* what it read stays true: every component that still runs and is         *)
(* recorded is one of its targets.  An owner that stops needs no           *)
(* transaction for that, because nobody else ever spawns its components    *)
(* (OwnerInv).  Hence the files are removed only when nothing they name    *)
(* is left.                                                                *)
(***************************************************************************)
EXTENDS Orchestrator, TLAPS

\* The labels of an owner that has the transaction.
Writing == Startup \cup {"rollback", "announce", "ack"}

\* A live owner that starts, rolls back or hands over has the transaction and
\* the directory.
WriterInv ==
  \A g \in Generations :
    proc[<<g, 0>>] = "up" /\ pc[Owner(g)] \in Writing =>
      /\ txn = Owner(g)
      /\ lock = g
      /\ pc[Owner(g)] \in Startup => at[g] < N

\* Every file belongs to the generation in stack.lock.
FilesInv ==
  /\ stackpid \in {None, lock}
  /\ \A c \in Components : pid[c] \in {None, lock} /\ listen[c] \in {None, lock}

\* A launcher or a stop that tears down has the transaction and the directory
\* it read, and among its targets everything recorded that still runs.
ClientInv ==
  \A a \in Actors :
    a[1] # "owner" /\ pc[a] = "stopping" =>
      /\ txn = a
      /\ lease[a] = lock
      /\ \A t \in todo[a] : t[1] = lock
      /\ \A g \in Generations, c \in Components :
           lock = g /\ proc[<<g, c>>] = "up" /\ ~Unrecorded(<<g, c>>) => <<g, c>> \in todo[a]

\* An owner that takes its stack down cleans up its own generation, and has
\* among its targets every component that still runs.
OwnerInv ==
  \A g \in Generations :
    /\ pc[Owner(g)] \in {"rollback", "stopping"} => lease[Owner(g)] = g
    /\ pc[Owner(g)] = "stopping" =>
         \A c \in Components : proc[<<g, c>>] = "up" /\ proc[<<g, 0>>] = "up"
                                 => <<g, c>> \in todo[Owner(g)]
    /\ \A t \in todo[Owner(g)] : t[1] = g

\* A supervisor exists only once its launcher started it, an owner commits
\* components only with the lock, and only a detached one announces itself.
HandoffInv ==
  /\ \A g \in Generations : pc[Owner(g)] \in {"idle", "lock"} => at[g] = 0
  /\ \A g \in Detached : pc[Launcher(g)] = "idle" => pc[Owner(g)] = "idle"
  /\ \A g \in Generations : pc[Owner(g)] \in {"announce", "ack"} => g \in Detached

Inv ==
  /\ TypeOK /\ WriterInv /\ FilesInv /\ ClientInv /\ OwnerInv /\ HandoffInv
  /\ LauncherKeepsToItsOwn /\ RunningIsRecorded

-----------------------------------------------------------------------------
(* Actors and processes *)

LEMMA ActorFacts ==
  /\ \A g \in Generations : Owner(g) \in Actors /\ Owner(g)[1] = "owner" /\ Owner(g)[2] = g
  /\ \A g \in Detached : /\ Launcher(g) \in Actors /\ g \in Generations
                         /\ Launcher(g)[1] = "launcher" /\ Launcher(g)[2] = g
  /\ \A s \in Stops : Stop(s) \in Actors /\ Stop(s)[1] = "stop"
  /\ \A a \in Actors :
       /\ a # None
       /\ a[1] = "owner" => a[2] \in Generations /\ a = Owner(a[2])
       /\ a[1] = "launcher" => a[2] \in Detached /\ a = Launcher(a[2])
       /\ a[1] \in {"owner", "launcher", "stop"}
BY OrchestratorAssumption DEF Actors, Owner, Launcher, Stop

LEMMA ProcessFacts ==
  ASSUME NEW g \in Generations
  PROVE  /\ <<g, 0>> \in Processes
         /\ \A c \in Components : <<g, c>> \in Processes /\ c \in Nat /\ c > 0 /\ c \in 0..N
         /\ Members(g) \subseteq Processes
         /\ \A p \in Processes : p \in Members(g) <=> p[1] = g /\ p[2] # 0
         /\ N \in Nat /\ N > 0
BY OrchestratorAssumption DEF Processes, Components, Members

States == {"none", "up", "exited"}

\* No process starts.
Dying ==
  /\ proc' \in [Processes -> States]
  /\ \A p \in Processes : proc'[p] = "up" => proc[p] = "up"

\* The steps in which nothing is started.
Calm(g) ==
  \/ acquire_lock(g) \/ AlreadyRunning(g)
  \/ WritePidfile(g) \/ PublishEndpoint(g) \/ CommitComponent(g)
  \/ StartupFails(g) \/ RollbackDone(g) \/ RollbackUncertain(g)
  \/ WriteStackPid(g) \/ WriteReady(g) \/ AckSeen(g) \/ AttachmentFails(g)
  \/ ExitSeen(g) \/ CollectOwned(g) \/ StopSignalled(g)
  \/ LauncherStep(g) \/ ComponentExits(g) \/ OwnerKilled(g)

LEMMA CalmOwner ==
  ASSUME TypeOK, NEW g \in Generations, Calm(g)
  PROVE  Dying
<1> USE DEF TypeOK, Dying, States
<1>1. CASE acquire_lock(g) BY <1>1 DEF acquire_lock
<1>2. CASE AlreadyRunning(g) BY <1>2 DEF AlreadyRunning, Exited, Settled, Kept
<1>3. CASE WritePidfile(g) BY <1>3 DEF WritePidfile
<1>4. CASE PublishEndpoint(g) BY <1>4 DEF PublishEndpoint
<1>5. CASE CommitComponent(g) BY <1>5 DEF CommitComponent
<1>6. CASE StartupFails(g) BY <1>6 DEF StartupFails, Killed
<1>7. CASE RollbackDone(g)
  BY <1>7, ProcessFacts DEF RollbackDone, Exited, Settled, Kept
<1>8. CASE RollbackUncertain(g) BY <1>8 DEF RollbackUncertain, Exited, Settled, Kept
<1>9. CASE WriteStackPid(g) BY <1>9 DEF WriteStackPid
<1>10. CASE WriteReady(g) BY <1>10 DEF WriteReady
<1>11. CASE AckSeen(g) BY <1>11 DEF AckSeen
<1>12. CASE AttachmentFails(g) \/ ExitSeen(g) \/ StopSignalled(g)
  BY <1>12 DEF AttachmentFails, ExitSeen, StopSignalled, Shutdown
<1>13. CASE CollectOwned(g) BY <1>13, ProcessFacts DEF CollectOwned
<1>14. CASE SeeReady(g) \/ SeeAttached(g) \/ HandoffFails(g)
  BY <1>14 DEF SeeReady, SeeAttached, HandoffFails
<1>15. CASE read_stack_handle(g) BY <1>15 DEF read_stack_handle, Settled, Kept
<1>16. CASE TerminateSupervisor(g) BY <1>16 DEF TerminateSupervisor, Settled, Killed, Kept
<1>17. CASE ComponentExits(g) BY <1>17 DEF ComponentExits, Settled, Killed, Kept
<1>18. CASE OwnerKilled(g) BY <1>18 DEF OwnerKilled, Settled, Killed, Kept
<1> QED
  BY <1>1, <1>2, <1>3, <1>4, <1>5, <1>6, <1>7, <1>8, <1>9, <1>10, <1>11, <1>12, <1>13, <1>14,
     <1>15, <1>16, <1>17, <1>18 DEF Calm, LauncherStep

LEMMA CalmClient ==
  ASSUME TypeOK, NEW a \in Actors, TeardownStep(a) \/ ClientKilled(a)
  PROVE  Dying
<1> USE DEF TypeOK, Dying, States
<1>1. CASE TargetGone(a) \/ SignalSoft(a) BY <1>1 DEF TargetGone, SignalSoft
<1>2. CASE SignalHard(a)
  <2>1. PICK t \in todo[a] : proc' = Settled(Killed({t})) \/ proc' = proc
    BY <1>2 DEF SignalHard
  <2> QED BY <2>1 DEF Settled, Killed, Kept
<1>3. CASE TeardownUncertain(a)
  <2>1. CASE a[1] = "owner"
    BY <1>3, <2>1 DEF TeardownUncertain, Ended, Exited, Settled, Killed, Kept
  <2>2. CASE a[1] # "owner"
    BY <1>3, <2>2 DEF TeardownUncertain, Ended, Exited, Settled, Killed, Kept
  <2> QED BY <2>1, <2>2
<1>4. CASE TeardownDone(a)
  BY <1>4 DEF TeardownDone, Ended, Exited, Settled, Kept
<1>5. CASE ClientKilled(a) BY <1>5 DEF ClientKilled, Settled, Kept
<1> QED BY <1>1, <1>2, <1>3, <1>4, <1>5 DEF TeardownStep

-----------------------------------------------------------------------------
(* Types *)

\* What cleanup_generation leaves is still well formed and belongs to the
\* generation in stack.lock.
LEMMA CleanupFacts ==
  ASSUME TypeOK, NEW a \in Actors, cleanup_generation(a)
  PROVE  /\ lock' \in {lock, None} /\ stackpid' \in {stackpid, None}
         /\ pid' \in [Components -> Generations \cup {None}]
         /\ listen' \in [Components -> Generations \cup {None}]
         /\ lock' = lock => stackpid' \in {stackpid, None}
         /\ \A c \in Components : pid'[c] \in {pid[c], None} /\ listen'[c] \in {listen[c], None}
         /\ lock' # lock => stackpid' = None /\ \A c \in Components : pid'[c] = None /\ listen'[c] = None
         /\ ready' \subseteq ready /\ attached' \subseteq attached
         /\ faults' \in 0..MaxFaults
         /\ lock # lease[a] => UNCHANGED files
<1>1. CASE lock # lease[a]
  BY <1>1 DEF TypeOK, cleanup_generation, files
<1>2. CASE lock = lease[a]
  BY <1>2, OrchestratorAssumption DEF TypeOK, cleanup_generation
<1> QED BY <1>1, <1>2

LEMMA TypeOwner ==
  ASSUME Inv, NEW g \in Generations, Calm(g)
  PROVE  TypeOK'
<1>0. TypeOK /\ proc' \in [Processes -> {"none", "up", "exited"}]
  BY CalmOwner DEF Inv, Dying, States
<1> USE <1>0, ActorFacts DEF TypeOK, Go, OwnerAt, Labels, Startup
<1>1. CASE acquire_lock(g) BY <1>1 DEF acquire_lock, job
<1>2. CASE AlreadyRunning(g) BY <1>2 DEF AlreadyRunning, files, job
<1>3. CASE WritePidfile(g)
  <2>1. pid' \in [Components -> Generations \cup {None}] BY <1>3 DEF WritePidfile
  <2> QED BY <1>3, <2>1 DEF WritePidfile, job
<1>4. CASE PublishEndpoint(g)
  <2>1. listen' \in [Components -> Generations \cup {None}] BY <1>4 DEF PublishEndpoint
  <2> QED BY <1>4, <2>1 DEF PublishEndpoint, job
<1>5. CASE CommitComponent(g)
  <2>1. at[g] \in 0..N /\ at[g] < N
    BY <1>5 DEF CommitComponent, Inv, WriterInv, Writing
  <2>2. at' \in [Generations -> 0..N] BY <1>5, <2>1, ProcessFacts DEF CommitComponent
  <2>3. PICK label \in Labels : pc' = [pc EXCEPT ![Owner(g)] = label]
    BY <1>5 DEF CommitComponent
  <2>4. pc' \in [Actors -> Labels] BY <2>3
  <2>5. txn' \in Actors \cup {None} BY <1>5 DEF CommitComponent
  <2> QED BY <1>5, <2>2, <2>4, <2>5 DEF CommitComponent, job, files
<1>6. CASE StartupFails(g)
  <2>1. listen' \in [Components -> Generations \cup {None}] BY <1>6 DEF StartupFails
  <2> QED BY <1>6, <2>1 DEF StartupFails
<1>7. CASE RollbackDone(g)
  BY <1>7, CleanupFacts DEF RollbackDone, job
<1>8. CASE RollbackUncertain(g) BY <1>8 DEF RollbackUncertain, files, job
<1>9. CASE WriteStackPid(g) BY <1>9 DEF WriteStackPid, job
<1>10. CASE WriteReady(g) BY <1>10 DEF WriteReady, job, Inv, HandoffInv
<1>11. CASE AckSeen(g) BY <1>11 DEF AckSeen, job, Inv, HandoffInv
<1>12. CASE AttachmentFails(g) \/ ExitSeen(g) \/ StopSignalled(g)
  <2>1. Shutdown(g) BY <1>12 DEF AttachmentFails, ExitSeen, StopSignalled
  <2>2. todo' \in [Actors -> SUBSET Processes] BY <2>1, ProcessFacts DEF Shutdown
  <2> QED BY <2>1, <2>2 DEF Shutdown, files
<1>13. CASE CollectOwned(g) BY <1>13 DEF CollectOwned, files, job
<1>14. CASE SeeReady(g) \/ SeeAttached(g) \/ HandoffFails(g)
  BY <1>14 DEF SeeReady, SeeAttached, HandoffFails, LauncherAt, files, job
<1>15. CASE read_stack_handle(g)
  <2>1. g \in Detached /\ \E label \in {"ok", "kill"} : pc' = [pc EXCEPT ![Launcher(g)] = label]
    BY <1>15 DEF read_stack_handle, LauncherAt
  <2>2. \/ handle' = handle
        \/ /\ \A c \in Components : pid[c] # None /\ listen[c] # None
           /\ handle' = [handle EXCEPT ![g] = {pid[c] : c \in Components}
                                               \cup {listen[c] : c \in Components}]
    BY <1>15 DEF read_stack_handle
  <2>3. UNCHANGED <<files, txn, at, job, faults>> BY <1>15 DEF read_stack_handle
  <2> DEFINE S == {pid[c] : c \in Components} \cup {listen[c] : c \in Components}
  <2>4. ASSUME \A c \in Components : pid[c] # None /\ listen[c] # None
        PROVE  S \in SUBSET Generations
    <3>1. \A c \in Components : pid[c] \in Generations /\ listen[c] \in Generations BY <2>4
    <3> QED BY <3>1
  <2> HIDE DEF S
  <2>5. handle' = handle \/ (S \in SUBSET Generations /\ handle' = [handle EXCEPT ![g] = S])
    BY <2>2, <2>4 DEF S
  <2>6. handle' \in [Generations -> SUBSET Generations] BY <2>5
  <2>7. pc' \in [Actors -> Labels] BY <2>1
  <2> QED BY <2>3, <2>6, <2>7 DEF files, job
<1>16. CASE TerminateSupervisor(g) BY <1>16 DEF TerminateSupervisor, LauncherAt, files, job
<1>17. CASE ComponentExits(g) BY <1>17 DEF ComponentExits, files, job
<1>18. CASE OwnerKilled(g)
  <2>1. faults' \in 0..MaxFaults BY <1>18, OrchestratorAssumption DEF OwnerKilled
  <2> QED BY <1>18, <2>1 DEF OwnerKilled, files, job
<1> QED
  BY <1>1, <1>2, <1>3, <1>4, <1>5, <1>6, <1>7, <1>8, <1>9, <1>10, <1>11, <1>12, <1>13, <1>14,
     <1>15, <1>16, <1>17, <1>18 DEF Calm, LauncherStep

LEMMA TypeClient ==
  ASSUME Inv, NEW a \in Actors, TeardownStep(a) \/ ClientKilled(a)
  PROVE  TypeOK'
<1>0. TypeOK /\ proc' \in [Processes -> {"none", "up", "exited"}]
  BY CalmClient DEF Inv, Dying, States
<1> USE <1>0, ActorFacts DEF TypeOK, Go, Labels
<1>1. CASE TargetGone(a) \/ SignalSoft(a) BY <1>1 DEF TargetGone, SignalSoft, files
<1>2. CASE SignalHard(a) BY <1>2, OrchestratorAssumption DEF SignalHard, files
<1>3. CASE TeardownUncertain(a) BY <1>3 DEF TeardownUncertain, Ended, files
<1>4. CASE TeardownDone(a) BY <1>4, CleanupFacts DEF TeardownDone, Ended, files
<1>5. CASE ClientKilled(a) BY <1>5, OrchestratorAssumption DEF ClientKilled, files, job
<1> QED BY <1>1, <1>2, <1>3, <1>4, <1>5 DEF TeardownStep

LEMMA TypeStart ==
  ASSUME Inv, NEW g \in Generations, StartForeground(g) \/ Launch(g) \/ Spawn(g)
  PROVE  TypeOK'
<1> USE ActorFacts, ProcessFacts DEF TypeOK, Inv, Go, Labels, Startup, files, job
<1>1. CASE StartForeground(g) BY <1>1 DEF StartForeground
<1>2. CASE Launch(g) BY <1>2 DEF Launch, LauncherAt
<1>3. CASE Spawn(g) BY <1>3 DEF Spawn, OwnerAt, WriterInv, Writing, Processes
<1> QED BY <1>1, <1>2, <1>3

LEMMA TypeStop ==
  ASSUME Inv, NEW a \in Actors,
         stop_expected_generation(a) \/ (\E s \in Stops : a = Stop(s) /\ StopBegin(s))
  PROVE  TypeOK'
<1> USE ActorFacts DEF TypeOK, Inv, Go, Labels, files, job
<1>1. CASE stop_expected_generation(a)
  <2>1. StopTargets \subseteq Processes
    BY OrchestratorAssumption
       DEF StopTargets, RecordedComponents, RecordedSupervisor, Processes, Components
  <2>2. UNCHANGED <<files, proc, at, handle, faults>> BY <1>1 DEF stop_expected_generation
  <2>3. \E label \in {"err", "stopping"} : pc' = [pc EXCEPT ![a] = label]
    BY <1>1 DEF stop_expected_generation
  <2>4. \/ UNCHANGED <<txn, job>>
        \/ /\ txn' = a /\ todo' = [todo EXCEPT ![a] = StopTargets]
           /\ phase' = [phase EXCEPT ![a] = "probe"] /\ lease' = [lease EXCEPT ![a] = lock]
    BY <1>1 DEF stop_expected_generation
  <2>5. pc' \in [Actors -> Labels] BY <2>3
  <2>6. /\ txn' \in Actors \cup {None} /\ todo' \in [Actors -> SUBSET Processes]
        /\ phase' \in [Actors -> {"probe", "soft", "hard"}]
        /\ lease' \in [Actors -> Generations \cup {None}]
    <3>1. CASE UNCHANGED <<txn, job>> BY <3>1
    <3>2. CASE /\ txn' = a /\ todo' = [todo EXCEPT ![a] = StopTargets]
               /\ phase' = [phase EXCEPT ![a] = "probe"] /\ lease' = [lease EXCEPT ![a] = lock]
      <4>1. todo' \in [Actors -> SUBSET Processes] BY <2>1, <3>2
      <4>2. phase' \in [Actors -> {"probe", "soft", "hard"}] BY <3>2
      <4>3. lease' \in [Actors -> Generations \cup {None}] BY <3>2
      <4> QED BY <3>2, <4>1, <4>2, <4>3
    <3> QED BY <2>4, <3>1, <3>2
  <2> QED BY <2>2, <2>5, <2>6
<1>2. CASE \E s \in Stops : a = Stop(s) /\ StopBegin(s) BY <1>2 DEF StopBegin
<1> QED BY <1>1, <1>2

-----------------------------------------------------------------------------
(* Frames *)

\* A component that runs and that the directory has to account for.
Live(g, c) ==
  /\ proc[<<g, c>>] = "up"
  /\ ~(pc[Owner(g)] = "spawned" /\ proc[<<g, 0>>] # "up" /\ c = at[g] + 1)

LEMMA LiveIs ==
  ASSUME NEW g \in Generations, NEW c \in Components
  PROVE  Live(g, c) <=> proc[<<g, c>>] = "up" /\ ~Unrecorded(<<g, c>>)
BY DEF Live, Unrecorded

LEMMA LiveIsNext ==
  ASSUME NEW g \in Generations, NEW c \in Components
  PROVE  Live(g, c)' <=> proc'[<<g, c>>] = "up" /\ ~Unrecorded(<<g, c>>)'
BY DEF Live, Unrecorded

\* Nobody who has the transaction works when it can be taken.
LEMMA FreeMeansNobody ==
  ASSUME Inv, Free
  PROVE  /\ \A g \in Generations : ~(proc[<<g, 0>>] = "up" /\ pc[Owner(g)] \in Writing)
         /\ \A a \in Actors : a[1] # "owner" => pc[a] # "stopping"
BY ActorFacts DEF Inv, WriterInv, ClientInv, Free, Alive

\* No component starts, and no owner that was spawning or stopping.
NoNew ==
  \A h \in Generations :
    /\ \A c \in Components : proc'[<<h, c>>] = "up" => proc[<<h, c>>] = "up"
    /\ pc'[Owner(h)] \in {"spawned", "stopping"} /\ proc'[<<h, 0>>] = "up" => proc[<<h, 0>>] = "up"

LEMMA DyingIsNoNew == Dying => NoNew
BY ProcessFacts DEF Dying, NoNew

\* A step that starts nothing and leaves stack.lock and the pid files alone.
NoSpawn ==
  /\ NoNew
  /\ UNCHANGED <<lock, pid>>
  /\ \A h \in Generations :
       /\ pc'[Owner(h)] = "spawned" => pc[Owner(h)] = "spawned"
       /\ pc[Owner(h)] = "spawned" =>
            \/ pc'[Owner(h)] = "spawned" /\ at'[h] = at[h]
            \/ \A c \in Components : proc'[<<h, c>>] # "up"

LEMMA LiveFrame ==
  ASSUME Inv, NoSpawn, NEW h \in Generations, NEW c \in Components, Live(h, c)'
  PROVE  Live(h, c)
BY DEF NoSpawn, NoNew, Live

LEMMA RecordFrame ==
  ASSUME Inv, NoSpawn
  PROVE  RunningIsRecorded'
<1> SUFFICES ASSUME NEW h \in Generations, NEW c \in Components, Live(h, c)'
             PROVE  /\ lock' = h
                    /\ pid'[c] = h \/ (OwnerAt(h, "spawned")' /\ c = at'[h] + 1)
  BY LiveIsNext DEF RunningIsRecorded
<1>1. Live(h, c) BY LiveFrame
<1>2. lock = h /\ (pid[c] = h \/ (OwnerAt(h, "spawned") /\ c = at[h] + 1))
  BY <1>1, LiveIs DEF Inv, RunningIsRecorded
<1> QED BY <1>2 DEF NoSpawn, Live, OwnerAt

\* The clients that tear down go on as they were.
ClientsKept ==
  \A a \in Actors :
    a[1] # "owner" /\ pc'[a] = "stopping" =>
      /\ pc[a] = "stopping" /\ txn' = txn /\ lease'[a] = lease[a]
      /\ todo'[a] \subseteq todo[a]
      /\ \A t \in todo[a] \ todo'[a] : proc'[t] # "up"

LEMMA ClientFrame ==
  ASSUME Inv, NoSpawn, ClientsKept
  PROVE  ClientInv'
<1> SUFFICES ASSUME NEW a \in Actors, a[1] # "owner", pc'[a] = "stopping"
             PROVE  /\ txn' = a /\ lease'[a] = lock'
                    /\ \A t \in todo'[a] : t[1] = lock'
                    /\ \A g \in Generations, c \in Components :
                         lock' = g /\ Live(g, c)' => <<g, c>> \in todo'[a]
  BY LiveIsNext DEF ClientInv
<1>1. txn = a /\ lease[a] = lock /\ (\A t \in todo[a] : t[1] = lock) /\ lock' = lock
  BY DEF ClientsKept, Inv, ClientInv, NoSpawn
<1>2. ASSUME NEW g \in Generations, NEW c \in Components, lock' = g, Live(g, c)'
      PROVE  <<g, c>> \in todo'[a]
  <2>1. Live(g, c) BY <1>2, LiveFrame
  <2>2. <<g, c>> \in todo[a] BY <2>1, <1>2, <1>1, LiveIs DEF ClientsKept, Inv, ClientInv
  <2> QED BY <2>2, <1>2 DEF ClientsKept, Live
<1> QED BY <1>1, <1>2 DEF ClientsKept

\* The owners that roll back or tear down go on as they were.
OwnersKept ==
  \A h \in Generations :
    /\ pc'[Owner(h)] \in {"rollback", "stopping"} =>
         pc'[Owner(h)] = pc[Owner(h)] /\ lease'[Owner(h)] = lease[Owner(h)]
    /\ todo'[Owner(h)] \subseteq todo[Owner(h)]
    /\ pc'[Owner(h)] = "stopping" =>
         \A t \in todo[Owner(h)] \ todo'[Owner(h)] : proc'[t] # "up"

LEMMA OwnerFrame ==
  ASSUME Inv, NoNew, OwnersKept
  PROVE  OwnerInv'
<1> SUFFICES ASSUME NEW h \in Generations
             PROVE  /\ pc'[Owner(h)] \in {"rollback", "stopping"} => lease'[Owner(h)] = h
                    /\ pc'[Owner(h)] = "stopping" =>
                         \A c \in Components : proc'[<<h, c>>] = "up" /\ proc'[<<h, 0>>] = "up"
                                                 => <<h, c>> \in todo'[Owner(h)]
                    /\ \A t \in todo'[Owner(h)] : t[1] = h
  BY DEF OwnerInv
<1>1. /\ pc'[Owner(h)] \in {"rollback", "stopping"} => lease'[Owner(h)] = h
      /\ \A t \in todo'[Owner(h)] : t[1] = h
  BY DEF OwnersKept, Inv, OwnerInv
<1>2. ASSUME NEW c \in Components, pc'[Owner(h)] = "stopping", proc'[<<h, c>>] = "up",
             proc'[<<h, 0>>] = "up"
      PROVE  <<h, c>> \in todo'[Owner(h)]
  <2>1. pc[Owner(h)] = "stopping" /\ proc[<<h, c>>] = "up" /\ proc[<<h, 0>>] = "up"
    BY <1>2 DEF OwnersKept, NoNew
  <2>2. <<h, c>> \in todo[Owner(h)] BY <2>1 DEF Inv, OwnerInv
  <2> QED BY <2>2, <1>2 DEF OwnersKept
<1> QED BY <1>1, <1>2

\* A step that leaves the owners where they are.
LEMMA Bystander ==
  ASSUME Inv, TypeOK', Dying,
         UNCHANGED <<lock, stackpid, pid, listen, at, lease>>,
         txn' = txn,
         \A h \in Generations : pc'[Owner(h)] = pc[Owner(h)],
         \A a \in Actors : pc'[a] \in {"idle", "stopping"} => pc'[a] = pc[a],
         \A a \in Actors : /\ todo'[a] \subseteq todo[a]
                           /\ \A t \in todo[a] \ todo'[a] : proc'[t] # "up",
         \A g \in Detached : handle'[g] \subseteq {g}
  PROVE  Inv'
<1>1. WriterInv' BY ProcessFacts DEF Inv, WriterInv, Dying
<1>2. FilesInv' BY DEF Inv, FilesInv
<1>3. NoSpawn BY DyingIsNoNew DEF NoSpawn
<1>4. ClientInv' BY <1>3, ClientFrame DEF ClientsKept
<1>5. OwnerInv' BY DyingIsNoNew, OwnerFrame, ActorFacts DEF OwnersKept
<1>6. HandoffInv' BY ActorFacts DEF Inv, HandoffInv
<1>7. LauncherKeepsToItsOwn' BY ActorFacts DEF Inv, LauncherKeepsToItsOwn
<1>8. RunningIsRecorded' BY <1>3, RecordFrame
<1> QED BY <1>1, <1>2, <1>4, <1>5, <1>6, <1>7, <1>8 DEF Inv

LEMMA BystandersStep ==
  ASSUME Inv, NEW g \in Generations,
         \/ CollectOwned(g) \/ LauncherStep(g)
         \/ ComponentExits(g) \/ OwnerKilled(g)
  PROVE  Inv'
<1>1. Calm(g) BY DEF Calm
<1>2. TypeOK' /\ Dying BY <1>1, TypeOwner, CalmOwner DEF Inv
<1>3. TypeOK /\ \A h \in Detached : handle[h] \subseteq {h} BY DEF Inv, LauncherKeepsToItsOwn
<1> USE ActorFacts
<1>4. CASE CollectOwned(g) \/ ComponentExits(g) \/ OwnerKilled(g)
  BY <1>2, <1>3, <1>4, Bystander DEF CollectOwned, ComponentExits, OwnerKilled, files, job
<1>5. CASE SeeReady(g) \/ SeeAttached(g) \/ HandoffFails(g) \/ TerminateSupervisor(g)
  <2>1. g \in Detached /\ \E label \in {"attached", "read", "kill", "acquire"} :
                             pc' = [pc EXCEPT ![Launcher(g)] = label]
    BY <1>5 DEF SeeReady, SeeAttached, HandoffFails, TerminateSupervisor, LauncherAt, Go
  <2>2. UNCHANGED <<lock, stackpid, pid, listen, at, txn, lease, todo, handle>>
    BY <1>5 DEF SeeReady, SeeAttached, HandoffFails, TerminateSupervisor, files, job
  <2> QED BY <1>2, <1>3, <2>1, <2>2, Bystander DEF TypeOK
<1>6. CASE read_stack_handle(g)
  <2>1. g \in Detached /\ \E label \in {"ok", "kill"} : pc' = [pc EXCEPT ![Launcher(g)] = label]
    BY <1>6 DEF read_stack_handle, LauncherAt, Go
  <2>2. UNCHANGED <<lock, stackpid, pid, listen, at, txn, lease, todo>>
    BY <1>6 DEF read_stack_handle, files, job
  <2>3. \A h \in Detached : handle'[h] \subseteq {h}
    BY <1>3, <1>6 DEF read_stack_handle, TypeOK, Inv, FilesInv
  <2> QED BY <1>2, <1>3, <2>1, <2>2, <2>3, Bystander DEF TypeOK
<1> QED BY <1>4, <1>5, <1>6 DEF LauncherStep

LEMMA BystandingClient ==
  ASSUME Inv, NEW a \in Actors,
         \/ TargetGone(a) \/ SignalSoft(a) \/ SignalHard(a)
         \/ ClientKilled(a)
  PROVE  Inv'
<1>2. TypeOK' /\ Dying BY TypeClient, CalmClient DEF Inv, TeardownStep
<1>3. TypeOK /\ \A h \in Detached : handle[h] \subseteq {h} BY DEF Inv, LauncherKeepsToItsOwn
<1> USE ActorFacts
<1>4. CASE SignalSoft(a) \/ SignalHard(a)
  BY <1>2, <1>3, <1>4, Bystander DEF SignalSoft, SignalHard, files
<1>5. CASE TargetGone(a)
  <2>1. PICK t \in todo[a] : ~Exists(t) /\ todo' = [todo EXCEPT ![a] = @ \ {t}]
    BY <1>5 DEF TargetGone
  <2>2. proc'[t] # "up" BY <2>1, <1>5 DEF TargetGone, Exists
  <2>3. \A b \in Actors : /\ todo'[b] \subseteq todo[b]
                          /\ \A u \in todo[b] \ todo'[b] : proc'[u] # "up"
    BY <2>1, <2>2, <1>3 DEF TypeOK
  <2>4. UNCHANGED <<files, txn, pc, at, lease, handle>> BY <1>5 DEF TargetGone
  <2> QED BY <1>2, <1>3, <2>3, <2>4, Bystander DEF files
<1>6. CASE ClientKilled(a)
  <2>1. a[1] # "owner" /\ pc' = [pc EXCEPT ![a] = "dead"] BY <1>6 DEF ClientKilled, Go
  <2>2. UNCHANGED <<lock, stackpid, pid, listen, at, txn, lease, todo, handle>>
    BY <1>6 DEF ClientKilled, files, job
  <2> QED BY <1>2, <1>3, <2>1, <2>2, Bystander DEF TypeOK
<1> QED BY <1>4, <1>5, <1>6

LEMMA StopBeginStep ==
  ASSUME Inv, NEW s \in Stops, StopBegin(s)
  PROVE  Inv'
<1>1. TypeOK' BY ActorFacts, TypeStop
<1>2. Dying BY DEF StopBegin, Inv, TypeOK, Dying, States
<1>3. pc' = [pc EXCEPT ![Stop(s)] = "acquire"] BY DEF StopBegin, Go
<1>4. UNCHANGED <<lock, stackpid, pid, listen, at, txn, lease, todo, handle>>
  BY DEF StopBegin, files, job
<1> QED BY <1>1, <1>2, <1>3, <1>4, ActorFacts, Bystander DEF Inv, TypeOK, LauncherKeepsToItsOwn

-----------------------------------------------------------------------------
(* Steps of an owner that leave stack.lock and the pid files alone *)

LEMMA OwnerMoves ==
  ASSUME Inv, TypeOK', FilesInv', NoNew, UNCHANGED <<lock, pid, handle>>,
         NEW g \in Generations, NEW label, label # "spawned", label # "idle",
         pc' = [pc EXCEPT ![Owner(g)] = label],
         g \in Detached => pc[Owner(g)] # "idle",
         label = "lock" => at'[g] = 0,
         label \in {"announce", "ack"} => g \in Detached,
         pc[Owner(g)] = "spawned" => \A c \in Components : proc'[<<g, c>>] # "up",
         txn' = txn \/ txn = Owner(g) \/ Free,
         label \in Writing => txn' = Owner(g) /\ lock = g /\ (label \in Startup => at'[g] < N),
         \A h \in Generations \ {g} :
           at'[h] = at[h] /\ (proc'[<<h, 0>>] = "up" => proc[<<h, 0>>] = "up"),
         \A a \in Actors \ {Owner(g)} : todo'[a] = todo[a] /\ lease'[a] = lease[a],
         label \in {"rollback", "stopping"} => lease'[Owner(g)] = g,
         label = "stopping" =>
           \A c \in Components : proc'[<<g, c>>] = "up" => <<g, c>> \in todo'[Owner(g)],
         \A t \in todo'[Owner(g)] : t[1] = g
  PROVE  Inv'
<1>0. TypeOK BY DEF Inv
<1>1. /\ pc'[Owner(g)] = label
      /\ \A a \in Actors \ {Owner(g)} : pc'[a] = pc[a]
      /\ \A h \in Generations \ {g} : pc'[Owner(h)] = pc[Owner(h)] /\ Owner(h) # Owner(g)
  BY <1>0, ActorFacts DEF TypeOK
<1>2. txn' # txn => /\ \A h \in Generations \ {g} : ~(proc[<<h, 0>>] = "up" /\ pc[Owner(h)] \in Writing)
                   /\ \A a \in Actors : a[1] # "owner" => pc[a] # "stopping"
  <2>1. CASE txn = Owner(g) BY <2>1, ActorFacts DEF Inv, WriterInv, ClientInv
  <2>2. CASE Free BY <2>2, FreeMeansNobody
  <2> QED BY <2>1, <2>2
<1>3. NoSpawn BY <1>1 DEF NoSpawn
<1>4. WriterInv'
  <2> SUFFICES ASSUME NEW h \in Generations, proc'[<<h, 0>>] = "up", pc'[Owner(h)] \in Writing
               PROVE  /\ txn' = Owner(h) /\ lock' = h
                      /\ pc'[Owner(h)] \in Startup => at'[h] < N
    BY DEF WriterInv
  <2>1. CASE h = g BY <2>1, <1>1
  <2>2. CASE h # g BY <2>2, <1>1, <1>2 DEF Inv, WriterInv
  <2> QED BY <2>1, <2>2
<1>5. ClientsKept
  <2> SUFFICES ASSUME NEW a \in Actors, a[1] # "owner", pc'[a] = "stopping"
               PROVE  pc[a] = "stopping" /\ txn' = txn /\ lease'[a] = lease[a] /\ todo'[a] = todo[a]
    BY DEF ClientsKept
  <2>1. a # Owner(g) BY ActorFacts
  <2> QED BY <2>1, <1>1, <1>2
<1>6. ClientInv' BY <1>3, <1>5, ClientFrame
<1>7. OwnerInv'
  <2> SUFFICES ASSUME NEW h \in Generations
               PROVE  /\ pc'[Owner(h)] \in {"rollback", "stopping"} => lease'[Owner(h)] = h
                      /\ pc'[Owner(h)] = "stopping" =>
                           \A c \in Components : proc'[<<h, c>>] = "up" /\ proc'[<<h, 0>>] = "up"
                                                   => <<h, c>> \in todo'[Owner(h)]
                      /\ \A t \in todo'[Owner(h)] : t[1] = h
    BY DEF OwnerInv
  <2>1. CASE h = g BY <2>1, <1>1
  <2>2. CASE h # g BY <2>2, <1>1, ActorFacts DEF Inv, OwnerInv, NoNew
  <2> QED BY <2>1, <2>2
<1>8. HandoffInv'
  <2>1. \A h \in Detached : pc'[Launcher(h)] = "idle" => pc'[Owner(h)] = "idle"
    BY <1>1, ActorFacts DEF Inv, HandoffInv
  <2>2. \A h \in Generations : pc'[Owner(h)] \in {"idle", "lock"} => at'[h] = 0
    BY <1>1 DEF Inv, HandoffInv
  <2>3. \A h \in Generations : pc'[Owner(h)] \in {"announce", "ack"} => h \in Detached
    BY <1>1 DEF Inv, HandoffInv
  <2> QED BY <2>1, <2>2, <2>3 DEF HandoffInv
<1>9. LauncherKeepsToItsOwn' BY ActorFacts DEF Inv, LauncherKeepsToItsOwn
<1>10. RunningIsRecorded' BY <1>3, RecordFrame
<1> QED BY <1>4, <1>6, <1>7, <1>8, <1>9, <1>10 DEF Inv

LEMMA OwnerStarts ==
  ASSUME Inv, NEW g \in Generations, StartForeground(g)
  PROVE  Inv'
<1>1. TypeOK /\ TypeOK' BY TypeStart DEF Inv
<1>2. FilesInv' BY DEF StartForeground, files, Inv, FilesInv
<1>3. /\ \A h \in Generations \ {g} : proc'[<<h, 0>>] = proc[<<h, 0>>]
      /\ \A h \in Generations, c \in Components : proc'[<<h, c>>] = proc[<<h, c>>]
  BY <1>1, ProcessFacts DEF StartForeground, TypeOK
<1>4. pc' = [pc EXCEPT ![Owner(g)] = "lock"] /\ g \notin Detached BY DEF StartForeground, Go
<1>5. NoNew
  <2>1. pc'[Owner(g)] = "lock" BY <1>1, <1>4, ActorFacts DEF TypeOK
  <2> QED BY <2>1, <1>3 DEF NoNew
<1>6. UNCHANGED <<lock, pid, handle, txn, at, todo, lease>> BY DEF StartForeground, files, job
<1>7. pc[Owner(g)] = "idle" /\ at[g] = 0 BY DEF StartForeground, Inv, HandoffInv
<1>8. \A t \in todo[Owner(g)] : t[1] = g BY DEF Inv, OwnerInv
<1>9. "lock" \notin Writing BY DEF Writing, Startup
<1> QED
  BY <1>1, <1>2, <1>3, <1>4, <1>5, <1>6, <1>7, <1>8, <1>9, OwnerMoves

\* What a live owner at one of the labels of Writing has.
LEMMA Holds ==
  ASSUME Inv, NEW g \in Generations, NEW label \in Writing, OwnerAt(g, label)
  PROVE  /\ txn = Owner(g) /\ lock = g /\ proc[<<g, 0>>] = "up"
         /\ label \in Startup => at[g] < N
BY DEF Inv, WriterInv, OwnerAt

LEMMA CalmMoves ==
  ASSUME Inv, NEW g \in Generations, Calm(g), UNCHANGED <<lock, pid, at, handle>>
  PROVE  /\ TypeOK /\ TypeOK' /\ Dying /\ NoNew
         /\ \A h \in Generations \ {g} :
              at'[h] = at[h] /\ (proc'[<<h, 0>>] = "up" => proc[<<h, 0>>] = "up")
         /\ \A t \in todo[Owner(g)] : t[1] = g
<1>1. TypeOK /\ TypeOK' /\ Dying BY TypeOwner, CalmOwner DEF Inv
<1> QED BY <1>1, DyingIsNoNew, ProcessFacts DEF Dying, Inv, OwnerInv

LEMMA AlreadyRunningStep ==
  ASSUME Inv, NEW g \in Generations, AlreadyRunning(g)
  PROVE  Inv'
<1>1. UNCHANGED <<lock, stackpid, pid, listen, at, handle, todo, lease>>
  BY DEF AlreadyRunning, files, job
<1>2. pc' = [pc EXCEPT ![Owner(g)] = "done"] /\ pc[Owner(g)] = "lock" /\ Free
  BY DEF AlreadyRunning, Go, OwnerAt
<1>3. FilesInv' BY <1>1 DEF Inv, FilesInv
<1>4. "done" \notin Writing BY DEF Writing, Startup
<1> QED BY <1>1, <1>2, <1>3, <1>4, CalmMoves, OwnerMoves DEF Calm

LEMMA PublishStep ==
  ASSUME Inv, NEW g \in Generations, PublishEndpoint(g)
  PROVE  Inv'
<1>1. UNCHANGED <<lock, stackpid, pid, at, txn, handle, todo, lease>>
  BY DEF PublishEndpoint, job
<1>2. pc' = [pc EXCEPT ![Owner(g)] = "published"] /\ pc[Owner(g)] = "waiting"
  BY DEF PublishEndpoint, Go, OwnerAt
<1>3. txn = Owner(g) /\ lock = g /\ at[g] < N
  BY Holds DEF PublishEndpoint, Writing, Startup
<1>4. FilesInv' BY <1>1, <1>3 DEF Inv, FilesInv, PublishEndpoint, TypeOK
<1> QED BY <1>1, <1>2, <1>3, <1>4, CalmMoves, OwnerMoves DEF Calm

LEMMA CommitStep ==
  ASSUME Inv, NEW g \in Generations, CommitComponent(g)
  PROVE  Inv'
<1>1. UNCHANGED <<lock, stackpid, pid, listen, proc, handle, todo, lease>>
  BY DEF CommitComponent, files, job
<1>2. txn = Owner(g) /\ lock = g /\ at[g] < N /\ pc[Owner(g)] = "published"
  BY Holds DEF CommitComponent, Writing, Startup, OwnerAt
<1>3. TypeOK /\ TypeOK' BY TypeOwner DEF Calm, Inv
<1>4. NoNew BY <1>1 DEF NoNew
<1>5. FilesInv' BY <1>1 DEF Inv, FilesInv
<1>6. \A h \in Generations \ {g} : at'[h] = at[h] BY <1>3 DEF CommitComponent, TypeOK
<1>7. \A t \in todo[Owner(g)] : t[1] = g BY DEF Inv, OwnerInv
<1>8. CASE at'[g] < N /\ Go(Owner(g), "build") /\ txn' = txn
  BY <1>1, <1>2, <1>3, <1>4, <1>5, <1>6, <1>7, <1>8, OwnerMoves DEF Go
<1>9. CASE g \in Detached /\ Go(Owner(g), "announce") /\ txn' = txn
  <2>1. "announce" \notin Startup BY DEF Startup
  <2> QED
    BY <1>1, <1>2, <1>3, <1>4, <1>5, <1>6, <1>7, <1>9, <2>1, OwnerMoves DEF Go
<1>10. CASE Go(Owner(g), "supervise")
  <2>1. "supervise" \notin Writing BY DEF Writing, Startup
  <2> QED
    BY <1>1, <1>2, <1>3, <1>4, <1>5, <1>6, <1>7, <1>10, <2>1, OwnerMoves DEF Go
<1> QED BY <1>8, <1>9, <1>10 DEF CommitComponent

LEMMA StartupFailsStep ==
  ASSUME Inv, NEW g \in Generations, StartupFails(g)
  PROVE  Inv'
<1>1. UNCHANGED <<lock, stackpid, pid, at, txn, handle, todo>> BY DEF StartupFails
<1>2. PICK label \in Startup : OwnerAt(g, label) BY DEF StartupFails
<1>3. txn = Owner(g) /\ lock = g /\ pc[Owner(g)] \in Startup
  BY <1>2, Holds DEF Writing, OwnerAt
<1>4. /\ pc' = [pc EXCEPT ![Owner(g)] = "rollback"]
      /\ lease' = [lease EXCEPT ![Owner(g)] = g]
  BY DEF StartupFails, Go
<1>5. \A c \in Components : proc'[<<g, c>>] # "up"
  BY ProcessFacts DEF StartupFails, Killed, Members
<1>6. FilesInv' BY <1>1 DEF Inv, FilesInv, StartupFails, TypeOK
<1>7. \A a \in Actors \ {Owner(g)} : lease'[a] = lease[a]
  BY <1>4, ActorFacts DEF Inv, TypeOK
<1>8. "rollback" \notin Startup /\ "idle" \notin Startup BY DEF Startup
<1>9. lease'[Owner(g)] = g BY <1>4, ActorFacts DEF Inv, TypeOK
<1> QED
  BY <1>1, <1>3, <1>4, <1>5, <1>6, <1>7, <1>8, <1>9, CalmMoves, OwnerMoves DEF Calm

LEMMA RollbackUncertainStep ==
  ASSUME Inv, NEW g \in Generations, RollbackUncertain(g)
  PROVE  Inv'
<1>1. UNCHANGED <<lock, stackpid, pid, listen, at, handle, todo, lease>>
  BY DEF RollbackUncertain, files, job
<1>2. pc' = [pc EXCEPT ![Owner(g)] = "done"] /\ pc[Owner(g)] = "rollback"
  BY DEF RollbackUncertain, Go, OwnerAt
<1>3. txn = Owner(g) BY Holds DEF RollbackUncertain, Writing
<1>4. FilesInv' BY <1>1 DEF Inv, FilesInv
<1>5. "done" \notin Writing BY DEF Writing, Startup
<1> QED BY <1>1, <1>2, <1>3, <1>4, <1>5, CalmMoves, OwnerMoves DEF Calm

LEMMA AnnounceStep ==
  ASSUME Inv, NEW g \in Generations, WriteStackPid(g) \/ WriteReady(g)
  PROVE  Inv'
<1>1. UNCHANGED <<lock, pid, listen, at, txn, handle, todo, lease>>
  BY DEF WriteStackPid, WriteReady, job
<1>2. pc[Owner(g)] = "announce" /\ OwnerAt(g, "announce") BY DEF WriteStackPid, WriteReady, OwnerAt
<1>3. g \in Detached BY <1>2 DEF Inv, HandoffInv
<1>4. txn = Owner(g) /\ lock = g BY <1>2, Holds DEF Writing
<1>5. FilesInv' BY <1>1, <1>4 DEF Inv, FilesInv, WriteStackPid, WriteReady
<1>6. "announce" \notin Startup /\ "ack" \notin Startup BY DEF Startup
<1>7. CASE WriteStackPid(g)
  <2>1. pc' = [pc EXCEPT ![Owner(g)] = "announce"]
    BY <1>2, <1>7, ActorFacts DEF WriteStackPid, Inv, TypeOK
  <2> QED BY <1>1, <1>2, <1>3, <1>4, <1>5, <1>6, <1>7, <2>1, CalmMoves, OwnerMoves DEF Calm
<1>8. CASE WriteReady(g)
  <2>1. pc' = [pc EXCEPT ![Owner(g)] = "ack"] BY <1>8 DEF WriteReady, Go
  <2> QED BY <1>1, <1>2, <1>3, <1>4, <1>5, <1>6, <1>8, <2>1, CalmMoves, OwnerMoves DEF Calm
<1> QED BY <1>7, <1>8

LEMMA AckSeenStep ==
  ASSUME Inv, NEW g \in Generations, AckSeen(g)
  PROVE  Inv'
<1>1. UNCHANGED <<lock, stackpid, pid, listen, at, handle, todo, lease>>
  BY DEF AckSeen, job
<1>2. pc' = [pc EXCEPT ![Owner(g)] = "supervise"] /\ pc[Owner(g)] = "ack"
  BY DEF AckSeen, Go, OwnerAt
<1>3. txn = Owner(g) BY Holds DEF AckSeen, Writing
<1>4. FilesInv' BY <1>1 DEF Inv, FilesInv
<1>5. "supervise" \notin Writing BY DEF Writing, Startup
<1> QED BY <1>1, <1>2, <1>3, <1>4, <1>5, CalmMoves, OwnerMoves DEF Calm

LEMMA ShutdownStep ==
  ASSUME Inv, NEW g \in Generations, AttachmentFails(g) \/ ExitSeen(g) \/ StopSignalled(g)
  PROVE  Inv'
<1>1. UNCHANGED <<lock, stackpid, pid, listen, proc, at, handle>>
  BY DEF AttachmentFails, ExitSeen, StopSignalled, Shutdown, files
<1>2. /\ pc' = [pc EXCEPT ![Owner(g)] = "stopping"]
      /\ pc[Owner(g)] \in {"announce", "ack", "supervise"}
      /\ txn' = txn \/ txn = Owner(g)
      /\ todo' = [todo EXCEPT ![Owner(g)] = Members(g)]
      /\ lease' = [lease EXCEPT ![Owner(g)] = g]
  BY DEF AttachmentFails, ExitSeen, StopSignalled, Shutdown, Go, OwnerAt
<1>3. FilesInv' BY <1>1 DEF Inv, FilesInv
<1>4. /\ \A a \in Actors \ {Owner(g)} : todo'[a] = todo[a] /\ lease'[a] = lease[a]
      /\ todo'[Owner(g)] = Members(g) /\ lease'[Owner(g)] = g
  BY <1>2, ActorFacts DEF Inv, TypeOK
<1>5. /\ \A t \in Members(g) : t[1] = g
      /\ \A c \in Components : <<g, c>> \in Members(g)
  BY DEF Members
<1>6. "stopping" \notin Writing BY DEF Writing, Startup
<1>7. Calm(g) BY DEF Calm
<1>8. /\ TypeOK' /\ NoNew
      /\ \A h \in Generations \ {g} :
           at'[h] = at[h] /\ (proc'[<<h, 0>>] = "up" => proc[<<h, 0>>] = "up")
  BY <1>1, <1>7, CalmMoves
<1>9. /\ \A c \in Components : <<g, c>> \in todo'[Owner(g)]
      /\ \A t \in todo'[Owner(g)] : t[1] = g
  BY <1>4, <1>5
<1>10. pc[Owner(g)] # "spawned" /\ pc[Owner(g)] # "idle" BY <1>2
<1> QED BY <1>1, <1>2, <1>3, <1>4, <1>6, <1>8, <1>9, <1>10, OwnerMoves

-----------------------------------------------------------------------------
(* Steps that claim or record *)

LEMMA AcquireStep ==
  ASSUME Inv, NEW g \in Generations, acquire_lock(g)
  PROVE  Inv'
<1>1. TypeOK /\ TypeOK' BY TypeOwner DEF Calm, Inv
<1>2. /\ txn' = Owner(g) /\ lock' = g /\ stackpid' = None
      /\ pid' = [c \in Components |-> None] /\ listen' = [c \in Components |-> None]
      /\ UNCHANGED <<proc, at, todo, lease, handle>>
  BY DEF acquire_lock, job
<1>3. /\ pc'[Owner(g)] = "build" /\ pc[Owner(g)] = "lock"
      /\ \A a \in Actors \ {Owner(g)} : pc'[a] = pc[a]
      /\ \A h \in Generations \ {g} : pc'[Owner(h)] = pc[Owner(h)] /\ Owner(h) # Owner(g)
  BY <1>1, ActorFacts DEF acquire_lock, Go, OwnerAt, TypeOK
<1>4. Free BY DEF acquire_lock
<1>5. /\ \A h \in Generations : ~(proc[<<h, 0>>] = "up" /\ pc[Owner(h)] \in Writing)
      /\ \A a \in Actors : a[1] # "owner" => pc[a] # "stopping"
  BY <1>4, FreeMeansNobody
<1>6. \A h \in Generations, c \in Components : ~Live(h, c)
  <2> SUFFICES ASSUME NEW h \in Generations, NEW c \in Components, Live(h, c) PROVE FALSE
    OBVIOUS
  <2>1. pid[c] = h \/ OwnerAt(h, "spawned") BY LiveIs DEF Inv, RunningIsRecorded
  <2>2. ~OwnerAt(h, "spawned") BY <1>5 DEF OwnerAt, Writing, Startup
  <2>3. pid[c] = h BY <2>1, <2>2
  <2>4. ~Exists(<<h, c>>) BY <2>3, OrchestratorAssumption DEF acquire_lock, is_stack_stale
  <2> QED BY <2>4 DEF Exists, Live
<1>7. \A h \in Generations, c \in Components : ~Live(h, c)'
  BY <1>2, <1>3, <1>6 DEF Live
<1>8. at[g] < N BY <1>3, ProcessFacts DEF Inv, HandoffInv
<1>9. WriterInv' BY <1>2, <1>3, <1>5, <1>8 DEF WriterInv
<1>10. FilesInv' BY <1>2 DEF FilesInv
<1>11. ClientInv' BY <1>3, <1>5, ActorFacts DEF ClientInv
<1>12. NoNew BY <1>2 DEF NoNew
<1>13. OwnerInv' BY <1>2, <1>3, <1>12, OwnerFrame DEF OwnersKept
<1>14. HandoffInv' BY <1>2, <1>3, ActorFacts DEF Inv, HandoffInv
<1>15. LauncherKeepsToItsOwn' BY <1>2 DEF Inv, LauncherKeepsToItsOwn
<1>16. RunningIsRecorded' BY <1>7, LiveIsNext DEF RunningIsRecorded
<1> QED BY <1>1, <1>9, <1>10, <1>11, <1>13, <1>14, <1>15, <1>16 DEF Inv

LEMMA SpawnStep ==
  ASSUME Inv, NEW g \in Generations, Spawn(g)
  PROVE  Inv'
<1>1. TypeOK /\ TypeOK' BY TypeStart DEF Inv
<1>2. UNCHANGED <<lock, stackpid, pid, listen, txn, at, todo, lease, handle>>
  BY DEF Spawn, files, job
<1>3. /\ pc'[Owner(g)] = "spawned" /\ pc[Owner(g)] = "build"
      /\ \A a \in Actors \ {Owner(g)} : pc'[a] = pc[a]
      /\ \A h \in Generations \ {g} : pc'[Owner(h)] = pc[Owner(h)] /\ Owner(h) # Owner(g)
  BY <1>1, ActorFacts DEF Spawn, Go, OwnerAt, TypeOK
<1>4. txn = Owner(g) /\ lock = g /\ proc[<<g, 0>>] = "up" /\ at[g] < N /\ at[g] \in 0..N
  BY <1>1, Holds DEF Spawn, Writing, Startup, TypeOK
<1>5. /\ at[g] + 1 \in Components
      /\ proc' = [proc EXCEPT ![<<g, at[g] + 1>>] = "up"]
  BY <1>4, ProcessFacts DEF Components, Spawn
<1>6. /\ \A h \in Generations : proc'[<<h, 0>>] = proc[<<h, 0>>]
      /\ \A h \in Generations, c \in Components :
           proc'[<<h, c>>] = "up" => proc[<<h, c>>] = "up" \/ (h = g /\ c = at[g] + 1)
  BY <1>1, <1>5, ProcessFacts DEF TypeOK
<1>7. \A a \in Actors : a[1] # "owner" => pc'[a] # "stopping"
  BY <1>3, <1>4, ActorFacts DEF Inv, ClientInv
<1>8. WriterInv' BY <1>2, <1>3, <1>4, <1>6 DEF Inv, WriterInv, Startup
<1>9. FilesInv' BY <1>2 DEF Inv, FilesInv
<1>10. ClientInv' BY <1>7 DEF ClientInv
<1>11. OwnerInv' BY <1>2, <1>3, <1>6 DEF Inv, OwnerInv
<1>12. HandoffInv' BY <1>2, <1>3, ActorFacts DEF Inv, HandoffInv
<1>13. LauncherKeepsToItsOwn' BY <1>2 DEF Inv, LauncherKeepsToItsOwn
<1>14. RunningIsRecorded'
  <2> SUFFICES ASSUME NEW h \in Generations, NEW c \in Components, Live(h, c)'
               PROVE  /\ lock' = h
                      /\ pid'[c] = h \/ (OwnerAt(h, "spawned")' /\ c = at'[h] + 1)
    BY LiveIsNext DEF RunningIsRecorded
  <2>1. CASE h = g /\ c = at[g] + 1 BY <2>1, <1>2, <1>3, <1>4, <1>6 DEF OwnerAt
  <2>2. CASE ~(h = g /\ c = at[g] + 1)
    <3>1. Live(h, c) BY <2>2, <1>2, <1>3, <1>6 DEF Live
    <3>2. lock = h /\ (pid[c] = h \/ (OwnerAt(h, "spawned") /\ c = at[h] + 1))
      BY <3>1, LiveIs DEF Inv, RunningIsRecorded
    <3> QED BY <3>2, <1>2, <1>3, <1>4 DEF OwnerAt
  <2> QED BY <2>1, <2>2
<1> QED BY <1>1, <1>8, <1>9, <1>10, <1>11, <1>12, <1>13, <1>14 DEF Inv

LEMMA WritePidfileStep ==
  ASSUME Inv, NEW g \in Generations, WritePidfile(g)
  PROVE  Inv'
<1>1. TypeOK /\ TypeOK' BY TypeOwner DEF Calm, Inv
<1>2. UNCHANGED <<lock, stackpid, listen, txn, proc, at, todo, lease, handle>>
  BY DEF WritePidfile, job
<1>3. /\ pc'[Owner(g)] = "waiting" /\ pc[Owner(g)] = "spawned"
      /\ \A a \in Actors \ {Owner(g)} : pc'[a] = pc[a]
      /\ \A h \in Generations \ {g} : pc'[Owner(h)] = pc[Owner(h)] /\ Owner(h) # Owner(g)
  BY <1>1, ActorFacts DEF WritePidfile, Go, OwnerAt, TypeOK
<1>4. txn = Owner(g) /\ lock = g /\ proc[<<g, 0>>] = "up" /\ at[g] < N /\ at[g] \in 0..N
  BY <1>1, Holds DEF WritePidfile, Writing, Startup, TypeOK
<1>5. /\ at[g] + 1 \in Components
      /\ pid' = [pid EXCEPT ![at[g] + 1] = g]
  BY <1>4, ProcessFacts DEF Components, WritePidfile
<1>6. /\ pid'[at[g] + 1] = g
      /\ \A c \in Components : pid'[c] = g \/ pid'[c] = pid[c]
  BY <1>1, <1>5 DEF TypeOK
<1>7. \A a \in Actors : a[1] # "owner" => pc'[a] # "stopping"
  BY <1>3, <1>4, ActorFacts DEF Inv, ClientInv
<1>8. WriterInv' BY <1>2, <1>3, <1>4 DEF Inv, WriterInv, Startup
<1>9. FilesInv' BY <1>2, <1>4, <1>6 DEF Inv, FilesInv
<1>10. ClientInv' BY <1>7 DEF ClientInv
<1>11. OwnerInv' BY <1>2, <1>3 DEF Inv, OwnerInv
<1>12. HandoffInv' BY <1>2, <1>3, ActorFacts DEF Inv, HandoffInv
<1>13. LauncherKeepsToItsOwn' BY <1>2 DEF Inv, LauncherKeepsToItsOwn
<1>14. RunningIsRecorded'
  <2> SUFFICES ASSUME NEW h \in Generations, NEW c \in Components, Live(h, c)'
               PROVE  /\ lock' = h
                      /\ pid'[c] = h \/ (OwnerAt(h, "spawned")' /\ c = at'[h] + 1)
    BY LiveIsNext DEF RunningIsRecorded
  <2>1. Live(h, c) BY <1>2, <1>3, <1>4 DEF Live
  <2>2. lock = h /\ (pid[c] = h \/ (OwnerAt(h, "spawned") /\ c = at[h] + 1))
    BY <2>1, LiveIs DEF Inv, RunningIsRecorded
  <2> QED BY <2>2, <1>2, <1>4, <1>6
<1> QED BY <1>1, <1>8, <1>9, <1>10, <1>11, <1>12, <1>13, <1>14 DEF Inv

LEMMA LaunchStep ==
  ASSUME Inv, NEW g \in Generations, Launch(g)
  PROVE  Inv'
<1>1. TypeOK /\ TypeOK' BY TypeStart DEF Inv
<1>2. UNCHANGED <<lock, stackpid, pid, listen, txn, at, todo, lease, handle>> /\ g \in Detached
  BY DEF Launch, LauncherAt, files, job
<1>3. /\ pc'[Owner(g)] = "lock" /\ pc'[Launcher(g)] = "ready" /\ pc[Launcher(g)] = "idle"
      /\ \A a \in Actors \ {Owner(g), Launcher(g)} : pc'[a] = pc[a]
      /\ \A h \in Generations \ {g} : pc'[Owner(h)] = pc[Owner(h)]
  BY <1>1, <1>2, ActorFacts DEF Launch, LauncherAt, TypeOK
<1>4. pc[Owner(g)] = "idle" /\ at[g] = 0 BY <1>2, <1>3 DEF Inv, HandoffInv
<1>5. /\ \A h \in Generations \ {g} : proc'[<<h, 0>>] = proc[<<h, 0>>]
      /\ \A h \in Generations, c \in Components : proc'[<<h, c>>] = proc[<<h, c>>]
  BY <1>1, ProcessFacts DEF Launch, TypeOK
<1>6. NoNew BY <1>3, <1>5 DEF NoNew
<1>7. NoSpawn BY <1>2, <1>3, <1>4, <1>6 DEF NoSpawn
<1>8. WriterInv' BY <1>2, <1>3, <1>5 DEF Inv, WriterInv, Writing, Startup
<1>9. FilesInv' BY <1>2 DEF Inv, FilesInv
<1>10. ClientInv' BY <1>2, <1>3, <1>7, ClientFrame, ActorFacts DEF ClientsKept
<1>11. OwnerInv' BY <1>2, <1>3, <1>6, OwnerFrame DEF OwnersKept
<1>12. HandoffInv' BY <1>2, <1>3, <1>4, ActorFacts DEF Inv, HandoffInv
<1>13. LauncherKeepsToItsOwn' BY <1>2 DEF Inv, LauncherKeepsToItsOwn
<1>14. RunningIsRecorded' BY <1>7, RecordFrame
<1> QED BY <1>1, <1>8, <1>9, <1>10, <1>11, <1>12, <1>13, <1>14 DEF Inv

-----------------------------------------------------------------------------
(* Steps that end a rollback or a teardown *)

LEMMA CleanedFiles ==
  ASSUME Inv, NEW a \in Actors, cleanup_generation(a)
  PROVE  FilesInv'
<1>1. TypeOK BY DEF Inv
<1>2. CASE lock' = lock BY <1>1, <1>2, CleanupFacts DEF Inv, FilesInv
<1>3. CASE lock' # lock BY <1>1, <1>3, CleanupFacts DEF FilesInv
<1> QED BY <1>2, <1>3

\* Nobody but a has the transaction.
NobodyBut(a) ==
  /\ \A h \in Generations : Owner(h) # a => ~(proc[<<h, 0>>] = "up" /\ pc[Owner(h)] \in Writing)
  /\ \A b \in Actors : b # a /\ b[1] # "owner" => pc[b] # "stopping"

LEMMA Finishes ==
  ASSUME Inv, TypeOK', FilesInv', Dying, UNCHANGED <<at, handle>>,
         NEW a \in Actors, NEW label \in {"done", "ok", "err"},
         pc[a] \in {"rollback", "stopping"}, pc' = [pc EXCEPT ![a] = label],
         \A b \in Actors \ {a} : todo'[b] = todo[b] /\ lease'[b] = lease[b],
         todo'[a] \subseteq todo[a],
         \/ UNCHANGED <<lock, pid, txn>>
         \/ NobodyBut(a) /\ UNCHANGED <<lock, pid>>
         \/ NobodyBut(a) /\ \A h \in Generations, c \in Components : ~Live(h, c)'
  PROVE  Inv'
<1>0. TypeOK BY DEF Inv
<1>1. pc'[a] = label /\ \A b \in Actors \ {a} : pc'[b] = pc[b]
  BY <1>0, ActorFacts DEF TypeOK
<1>2. label \notin Writing /\ label \notin {"stopping", "rollback", "spawned", "idle", "lock", "announce", "ack"}
  BY DEF Writing, Startup
<1>3. NoNew BY DyingIsNoNew
<1>4. \A h \in Generations : Owner(h) # a => pc'[Owner(h)] = pc[Owner(h)] BY <1>1, ActorFacts
<1>5. UNCHANGED <<lock, pid>> => NoSpawn
  BY <1>1, <1>2, <1>3, <1>4, ActorFacts DEF NoSpawn
<1>6. WriterInv'
  <2> SUFFICES ASSUME NEW h \in Generations, proc'[<<h, 0>>] = "up", pc'[Owner(h)] \in Writing
               PROVE  /\ txn' = Owner(h) /\ lock' = h
                      /\ pc'[Owner(h)] \in Startup => at'[h] < N
    BY DEF WriterInv
  <2>1. Owner(h) # a /\ pc[Owner(h)] = pc'[Owner(h)] BY <1>1, <1>2, <1>4
  <2>2. proc[<<h, 0>>] = "up" BY ProcessFacts DEF Dying
  <2>3. UNCHANGED <<lock, txn>> BY <2>1, <2>2 DEF NobodyBut
  <2> QED BY <2>1, <2>2, <2>3 DEF Inv, WriterInv
<1>7. ClientInv'
  <2>1. CASE UNCHANGED <<lock, pid, txn>>
    <3>1. ClientsKept BY <2>1, <1>1, <1>2 DEF ClientsKept
    <3> QED BY <2>1, <3>1, <1>5, ClientFrame
  <2>2. CASE NobodyBut(a) BY <2>2, <1>1, <1>2 DEF ClientInv, NobodyBut
  <2> QED BY <2>1, <2>2
<1>8. OwnerInv'
  <2>1. OwnersKept BY <1>1, <1>2, ActorFacts DEF OwnersKept
  <2> QED BY <2>1, <1>3, OwnerFrame
<1>9. HandoffInv'
  <2>1. \A h \in Detached : pc'[Launcher(h)] = "idle" => pc'[Owner(h)] = "idle"
    BY <1>1, <1>2, ActorFacts DEF Inv, HandoffInv
  <2>2. \A h \in Generations : pc'[Owner(h)] \in {"idle", "lock"} => at'[h] = 0
    BY <1>1, <1>2, <1>4 DEF Inv, HandoffInv
  <2>3. \A h \in Generations : pc'[Owner(h)] \in {"announce", "ack"} => h \in Detached
    BY <1>1, <1>2, <1>4 DEF Inv, HandoffInv
  <2> QED BY <2>1, <2>2, <2>3 DEF HandoffInv
<1>10. LauncherKeepsToItsOwn' BY ActorFacts DEF Inv, LauncherKeepsToItsOwn
<1>11. RunningIsRecorded'
  <2>1. CASE UNCHANGED <<lock, pid>> BY <2>1, <1>5, RecordFrame
  <2>2. CASE \A h \in Generations, c \in Components : ~Live(h, c)'
    BY <2>2, LiveIsNext DEF RunningIsRecorded
  <2> QED BY <2>1, <2>2
<1> QED BY <1>6, <1>7, <1>8, <1>9, <1>10, <1>11 DEF Inv

\* A component that is not live does not become so when an actor that is done
\* changes its label and nothing starts.
LEMMA DeadStays ==
  ASSUME Inv, Dying, at' = at, NEW a \in Actors, NEW label, label # "spawned",
         pc[a] # "spawned", pc' = [pc EXCEPT ![a] = label],
         NEW h \in Generations, NEW c \in Components, ~Live(h, c)
  PROVE  ~Live(h, c)'
<1>1. pc[Owner(h)] = "spawned" => pc'[Owner(h)] = "spawned" BY ActorFacts DEF Inv, TypeOK
<1> QED BY <1>1, ProcessFacts DEF Dying, Live

LEMMA RollbackDoneStep ==
  ASSUME Inv, NEW g \in Generations, RollbackDone(g)
  PROVE  Inv'
<1>1. TypeOK' /\ Dying BY TypeOwner, CalmOwner DEF Calm, Inv
<1>2. UNCHANGED <<at, handle, todo, lease>> /\ cleanup_generation(Owner(g))
  BY DEF RollbackDone, job
<1>3. FilesInv' BY <1>2, CleanedFiles, ActorFacts
<1>4. pc[Owner(g)] = "rollback" /\ pc' = [pc EXCEPT ![Owner(g)] = "done"]
  BY DEF RollbackDone, OwnerAt, Go
<1>5. lock = g /\ txn = Owner(g) BY Holds DEF RollbackDone, Writing
<1>6. NobodyBut(Owner(g)) BY <1>5, ActorFacts DEF NobodyBut, Inv, WriterInv, ClientInv
<1>7. ASSUME NEW h \in Generations, NEW c \in Components
      PROVE  ~Live(h, c)'
  <2>1. ~Live(h, c)
    <3>1. CASE h = g BY <3>1 DEF RollbackDone, Live, Members
    <3>2. CASE h # g BY <3>2, <1>5, LiveIs DEF Inv, RunningIsRecorded
    <3> QED BY <3>1, <3>2
  <2> QED BY <2>1, <1>1, <1>2, <1>4, DeadStays, ActorFacts
<1> QED BY <1>1, <1>2, <1>3, <1>4, <1>6, <1>7, Finishes, ActorFacts

LEMMA EndedFacts ==
  ASSUME Inv, NEW a \in Actors, NEW label, NEW after, Ended(a, label, after), Stopping(a)
  PROVE  /\ pc[a] = "stopping"
         /\ pc' = [pc EXCEPT ![a] = "done"] \/ pc' = [pc EXCEPT ![a] = label]
         /\ \A b \in Actors \ {a} : todo'[b] = todo[b] /\ lease'[b] = lease[b]
         /\ todo'[a] \subseteq todo[a]
         /\ a[1] = "owner" => txn' = txn /\ proc[<<a[2], 0>>] = "up"
         /\ a[1] # "owner" => NobodyBut(a) /\ lease[a] = lock
<1>1. TypeOK BY DEF Inv
<1>2. /\ \A b \in Actors \ {a} : todo'[b] = todo[b] /\ lease'[b] = lease[b]
      /\ todo'[a] \subseteq todo[a]
  BY <1>1 DEF Ended, TypeOK
<1>3. a[1] # "owner" => NobodyBut(a) /\ lease[a] = lock
  BY ActorFacts DEF Stopping, NobodyBut, Inv, WriterInv, ClientInv
<1>4. pc[a] = "stopping" /\ (pc' = [pc EXCEPT ![a] = "done"] \/ pc' = [pc EXCEPT ![a] = label])
  BY DEF Ended, Stopping, Go
<1>5. a[1] = "owner" => txn' = txn /\ proc[<<a[2], 0>>] = "up"
  BY DEF Ended, Stopping, Alive
<1> QED BY <1>2, <1>3, <1>4, <1>5

LEMMA TeardownUncertainStep ==
  ASSUME Inv, NEW a \in Actors, TeardownUncertain(a)
  PROVE  Inv'
<1>1. TypeOK' /\ Dying BY TypeClient, CalmClient DEF TeardownStep, Inv
<1>2. UNCHANGED <<lock, stackpid, pid, listen, at, handle>> BY DEF TeardownUncertain, files
<1>3. FilesInv' BY <1>2 DEF Inv, FilesInv
<1>4. PICK after : Ended(a, "err", after) /\ Stopping(a) BY DEF TeardownUncertain
<1>5. pc' = [pc EXCEPT ![a] = "done"] \/ pc' = [pc EXCEPT ![a] = "err"]
  BY <1>4 DEF Ended, Go
<1>6. PICK label \in {"done", "ok", "err"} : pc' = [pc EXCEPT ![a] = label]
  BY <1>5
<1> QED BY <1>1, <1>2, <1>3, <1>4, <1>6, EndedFacts, Finishes

\* When the targets of a teardown are gone, and it may clean up, nothing that
\* the directory has to account for runs.
LEMMA NothingLeft ==
  ASSUME Inv, NEW a \in Actors, Stopping(a), todo[a] = {}, lock = lease[a],
         NEW h \in Generations, NEW c \in Components
  PROVE  ~Live(h, c)
<1> SUFFICES ASSUME Live(h, c) PROVE FALSE
  OBVIOUS
<1>1. lock = h BY LiveIs DEF Inv, RunningIsRecorded
<1>2. CASE a[1] = "owner"
  <2>1. a = Owner(a[2]) /\ a[2] \in Generations /\ proc[<<a[2], 0>>] = "up" /\ pc[a] = "stopping"
    BY <1>2, ActorFacts DEF Stopping, Alive
  <2>2. a[2] = h BY <1>1, <2>1 DEF Inv, OwnerInv
  <2> QED BY <2>1, <2>2 DEF Inv, OwnerInv, Live
<1>3. CASE a[1] # "owner"
  BY <1>1, <1>3, LiveIs DEF Inv, ClientInv, Stopping
<1> QED BY <1>2, <1>3

LEMMA TeardownDoneStep ==
  ASSUME Inv, NEW a \in Actors, TeardownDone(a)
  PROVE  Inv'
<1>1. TypeOK' /\ Dying BY TypeClient, CalmClient DEF TeardownStep, Inv
<1>2. UNCHANGED <<at, handle>> /\ Stopping(a) /\ todo[a] = {} BY DEF TeardownDone
<1>3. PICK l \in {"ok", "err"} : Ended(a, l, proc) BY DEF TeardownDone
<1>4. PICK label \in {"done", "ok", "err"} : pc' = [pc EXCEPT ![a] = label]
  <2>1. pc' = [pc EXCEPT ![a] = "done"] \/ pc' = [pc EXCEPT ![a] = l] BY <1>2, <1>3, EndedFacts
  <2> QED BY <2>1
<1>5. CASE UNCHANGED files
  <2>1. UNCHANGED <<lock, stackpid, pid, listen>> BY <1>5 DEF files
  <2>2. FilesInv' BY <2>1 DEF Inv, FilesInv
  <2> QED BY <1>1, <1>2, <1>3, <1>4, <2>1, <2>2, EndedFacts, Finishes
<1>6. CASE ~UNCHANGED files
  <2>1. cleanup_generation(a) /\ (a[1] = "owner" => Free) /\ lock = lease[a]
    BY <1>6 DEF TeardownDone, cleanup_generation
  <2>2. FilesInv' BY <2>1, CleanedFiles
  <2>3. NobodyBut(a)
    <3>1. CASE a[1] = "owner" BY <3>1, <2>1, FreeMeansNobody DEF NobodyBut
    <3>2. CASE a[1] # "owner" BY <3>2, <1>2, <1>3, EndedFacts
    <3> QED BY <3>1, <3>2
  <2>4. pc[a] = "stopping" BY <1>2 DEF Stopping
  <2>5. \A h \in Generations, c \in Components : ~Live(h, c)'
    BY <1>1, <1>2, <1>4, <2>1, <2>4, NothingLeft, DeadStays
  <2> QED BY <1>1, <1>2, <1>3, <1>4, <2>2, <2>3, <2>5, EndedFacts, Finishes
<1> QED BY <1>5, <1>6

-----------------------------------------------------------------------------
(* A launcher or a stop takes the transaction *)

LEMMA StopExpectedStep ==
  ASSUME Inv, NEW a \in Actors, a[1] # "owner", stop_expected_generation(a)
  PROVE  Inv'
<1>1. TypeOK /\ TypeOK' BY TypeStop DEF Inv
<1>2. UNCHANGED <<lock, stackpid, pid, listen, proc, at, handle>>
  BY DEF stop_expected_generation, files
<1>3. Dying BY <1>1, <1>2 DEF Dying, TypeOK, States
<1>4. FilesInv' BY <1>2 DEF Inv, FilesInv
<1>5. \A h \in Generations : Owner(h) # a BY ActorFacts
<1>6. pc[a] = "acquire" BY DEF stop_expected_generation
<1>7. CASE a[1] = "launcher" /\ lock # a[2]
  <2>1. pc' = [pc EXCEPT ![a] = "err"] /\ UNCHANGED <<txn, todo, lease>>
    BY <1>7 DEF stop_expected_generation, Go, job
  <2>2. \A b \in Actors : pc'[b] \in {pc[b], "err"} /\ (b # a => pc'[b] = pc[b])
    BY <1>1, <2>1 DEF TypeOK
  <2>3. \A g \in Detached : handle'[g] \subseteq {g} BY <1>2 DEF Inv, LauncherKeepsToItsOwn
  <2> QED BY <1>1, <1>2, <1>3, <1>5, <2>1, <2>2, <2>3, ActorFacts, Bystander
<1>8. CASE ~(a[1] = "launcher" /\ lock # a[2])
  <2>1. /\ txn' = a /\ pc' = [pc EXCEPT ![a] = "stopping"] /\ Free
        /\ todo' = [todo EXCEPT ![a] = StopTargets]
        /\ lease' = [lease EXCEPT ![a] = lock]
    BY <1>8 DEF stop_expected_generation, Go
  <2>2. /\ pc'[a] = "stopping" /\ todo'[a] = StopTargets /\ lease'[a] = lock
        /\ \A b \in Actors \ {a} : pc'[b] = pc[b] /\ todo'[b] = todo[b] /\ lease'[b] = lease[b]
    BY <1>1, <2>1 DEF TypeOK
  <2>3. /\ \A h \in Generations : ~(proc[<<h, 0>>] = "up" /\ pc[Owner(h)] \in Writing)
        /\ \A b \in Actors : b[1] # "owner" => pc[b] # "stopping"
    BY <2>1, FreeMeansNobody
  <2>4. \A h \in Generations : pc'[Owner(h)] = pc[Owner(h)]
    BY <2>2, <1>5, ActorFacts
  <2>5. NoNew BY <1>3, DyingIsNoNew
  <2>6. NoSpawn BY <1>2, <2>4, <2>5 DEF NoSpawn
  <2>7. WriterInv' BY <1>2, <2>3, <2>4 DEF WriterInv
  <2>8. \A t \in StopTargets : t[1] = lock
    BY DEF Inv, FilesInv, StopTargets, RecordedComponents, RecordedSupervisor
  <2>9. ASSUME NEW h \in Generations, NEW c \in Components, Live(h, c)
        PROVE  <<h, c>> \in StopTargets
    <3>1. pid[c] = h \/ OwnerAt(h, "spawned") BY <2>9, LiveIs DEF Inv, RunningIsRecorded
    <3>2. pid[c] = h BY <3>1, <2>3 DEF OwnerAt, Writing, Startup
    <3> QED BY <3>2, OrchestratorAssumption DEF StopTargets, RecordedComponents
  <2>10. ClientInv'
    <3> SUFFICES ASSUME NEW b \in Actors, b[1] # "owner", pc'[b] = "stopping"
                 PROVE  /\ txn' = b /\ lease'[b] = lock'
                        /\ \A t \in todo'[b] : t[1] = lock'
                        /\ \A g \in Generations, c \in Components :
                             lock' = g /\ Live(g, c)' => <<g, c>> \in todo'[b]
      BY LiveIsNext DEF ClientInv
    <3>1. b = a BY <2>2, <2>3
    <3>2. \A g \in Generations, c \in Components : Live(g, c)' => Live(g, c)
      BY <2>6, LiveFrame
    <3> QED BY <3>1, <3>2, <1>2, <2>1, <2>2, <2>8, <2>9
  <2>11. OwnerInv'
    <3>1. OwnersKept BY <2>2, <2>4, <1>5, ActorFacts DEF OwnersKept
    <3> QED BY <3>1, <2>5, OwnerFrame
  <2>12. HandoffInv' BY <1>2, <1>6, <2>2, <2>4, ActorFacts DEF Inv, HandoffInv
  <2>13. LauncherKeepsToItsOwn'
    <3>1. \A g \in Detached : Launcher(g) = a => \A p \in todo'[Launcher(g)] : p[1] = g
      BY <1>8, <2>2, <2>8, ActorFacts
    <3> QED BY <3>1, <1>2, <2>2, ActorFacts DEF Inv, LauncherKeepsToItsOwn
  <2>14. RunningIsRecorded' BY <2>6, RecordFrame
  <2> QED BY <1>1, <1>4, <2>7, <2>10, <2>11, <2>12, <2>13, <2>14 DEF Inv
<1> QED BY <1>7, <1>8

-----------------------------------------------------------------------------
(* The invariant and what follows from it *)

LEMMA Start == Init => Inv
<1> SUFFICES ASSUME Init PROVE Inv
  OBVIOUS
<1> USE DEF Init
<1>1. TypeOK BY OrchestratorAssumption DEF TypeOK, Labels, Components
<1>2. \A a \in Actors : pc[a] = "idle" /\ todo[a] = {} OBVIOUS
<1>3. WriterInv BY <1>2, ActorFacts DEF WriterInv, Writing, Startup
<1>4. FilesInv BY DEF FilesInv
<1>5. ClientInv BY <1>2 DEF ClientInv
<1>6. OwnerInv BY <1>2, ActorFacts DEF OwnerInv
<1>7. HandoffInv BY <1>2, ActorFacts DEF HandoffInv
<1>8. LauncherKeepsToItsOwn BY <1>2, ActorFacts DEF LauncherKeepsToItsOwn
<1>9. RunningIsRecorded BY ProcessFacts DEF RunningIsRecorded
<1> QED BY <1>1, <1>3, <1>4, <1>5, <1>6, <1>7, <1>8, <1>9 DEF Inv

LEMMA Stutters == Inv /\ UNCHANGED vars => Inv'
<1> SUFFICES ASSUME Inv, UNCHANGED vars PROVE Inv'
  OBVIOUS
<1>1. TypeOK' BY DEF Inv, TypeOK, vars, files, job
<1>2. Dying BY DEF Inv, TypeOK, Dying, States, vars
<1> QED BY <1>1, <1>2, Bystander DEF Inv, LauncherKeepsToItsOwn, vars, files, job

LEMMA Step == Inv /\ [Next]_vars => Inv'
<1> SUFFICES ASSUME Inv, [Next]_vars PROVE Inv'
  OBVIOUS
<1>1. ASSUME NEW g \in Generations, StartForeground(g) \/ Launch(g) PROVE Inv'
  BY <1>1, OwnerStarts, LaunchStep
<1>2. ASSUME NEW g \in Generations, OwnerStep(g) \/ StopSignalled(g) PROVE Inv'
  BY <1>2, AcquireStep, AlreadyRunningStep, SpawnStep, WritePidfileStep, PublishStep, CommitStep,
     StartupFailsStep, RollbackDoneStep, RollbackUncertainStep, AnnounceStep, AckSeenStep,
     ShutdownStep, BystandersStep DEF OwnerStep
<1>3. ASSUME NEW g \in Generations, LauncherStep(g) \/ ComponentExits(g) \/ OwnerKilled(g)
      PROVE  Inv'
  BY <1>3, BystandersStep
<1>4. ASSUME NEW s \in Stops, StopBegin(s) PROVE Inv'
  BY <1>4, StopBeginStep
<1>5. ASSUME NEW a \in Actors \ {Owner(g) : g \in Generations}, stop_expected_generation(a)
      PROVE  Inv'
  <2>1. a \in Actors /\ a[1] # "owner" BY ActorFacts
  <2> QED BY <1>5, <2>1, StopExpectedStep
<1>6. ASSUME NEW a \in Actors, TeardownStep(a) \/ ClientKilled(a) PROVE Inv'
  BY <1>6, BystandingClient, TeardownUncertainStep, TeardownDoneStep DEF TeardownStep
<1>7. CASE UNCHANGED vars BY <1>7, Stutters
<1> QED BY <1>1, <1>2, <1>3, <1>4, <1>5, <1>6, <1>7 DEF Next

\* The state of the files, of the processes and of every actor is always well
\* formed: no handover, crash, rollback or failed cleanup leaves a pid file, a
\* target or a lease that is none of the generations.
THEOREM OrchestratorTyped == Spec => []TypeOK
<1>1. Inv => TypeOK BY DEF Inv
<1> QED BY <1>1, Start, Step, PTL DEF Spec

\* Whoever starts, stops, rolls back or dies, with any number of owners,
\* launchers and stops: a component that runs is named by its pid file and its
\* generation by stack.lock (acquire_lock, cleanup_generation).
THEOREM RunningRecorded == Spec => []RunningIsRecorded
<1>1. Inv => RunningIsRecorded BY DEF Inv
<1> QED BY <1>1, Start, Step, PTL DEF Spec

\* The handle a launcher returns and the processes its rollback ends are of the
\* generation it assigned (read_stack_handle, stop_generation).
THEOREM LaunchersKeepToTheirOwn == Spec => []LauncherKeepsToItsOwn
<1>1. Inv => LauncherKeepsToItsOwn BY DEF Inv
<1> QED BY <1>1, Start, Step, PTL DEF Spec

LEMMA OrderFollows ==
  ASSUME Inv, NEW a \in Actors, Stopping(a), NEW t \in todo[a], NEW c \in Components,
         teardown_order(a, t), c > t[2]
  PROVE  proc[<<t[1], c>>] # "up" \/ Unrecorded(<<t[1], c>>)
<1> SUFFICES ASSUME proc[<<t[1], c>>] = "up", ~Unrecorded(<<t[1], c>>) PROVE FALSE
  OBVIOUS
<1>1. t[1] \in Generations /\ t[2] \in 0..N BY DEF Inv, TypeOK, Processes
<1>2. <<t[1], c>> \in todo[a]
  <2>1. CASE a[1] = "owner"
    <3>1. a = Owner(a[2]) /\ a[2] \in Generations /\ proc[<<a[2], 0>>] = "up" /\ pc[a] = "stopping"
      BY <2>1, ActorFacts DEF Stopping, Alive
    <3>2. t[1] = a[2] BY <3>1 DEF Inv, OwnerInv
    <3> QED BY <3>1, <3>2 DEF Inv, OwnerInv
  <2>2. CASE a[1] # "owner"
    <3>1. t[1] = lock BY <2>2 DEF Inv, ClientInv, Stopping
    <3> QED BY <1>1, <2>2, <3>1 DEF Inv, ClientInv, Stopping
  <2> QED BY <2>1, <2>2
<1>3. c <= t[2] BY <1>2 DEF teardown_order
<1>4. c \in Nat /\ t[2] \in Nat BY <1>1, OrchestratorAssumption DEF Components
<1> QED BY <1>3, <1>4

\* A teardown signals a process only when everything started after it is down,
\* for an owner, a launcher and a stop that work at the same time
\* (StopTargets::teardown_order, stop_inner).
THEOREM DependentsGoFirst == Spec => []DependentsFirst
<1>1. Inv => DependentsFirst BY OrderFollows DEF DependentsFirst
<1> QED BY <1>1, Start, Step, PTL DEF Spec

\* No step of another actor makes a stop report success.
LEMMA OnlyItself ==
  ASSUME Inv, [Next]_vars, NEW s \in Stops, pc'[Stop(s)] = "ok", pc[Stop(s)] # "ok"
  PROVE  TeardownDone(Stop(s)) /\ lock' = None
<1> USE ActorFacts DEF Inv, TypeOK, Go
<1>1. ASSUME NEW g \in Generations, StartForeground(g) \/ Launch(g) PROVE FALSE
  BY <1>1 DEF StartForeground, Launch, LauncherAt
<1>2. ASSUME NEW g \in Generations, OwnerStep(g) \/ StopSignalled(g) PROVE FALSE
  <2>1. pc' = pc \/ \E label : pc' = [pc EXCEPT ![Owner(g)] = label]
    BY <1>2 DEF OwnerStep, StopSignalled, acquire_lock, AlreadyRunning, Spawn, WritePidfile,
                PublishEndpoint, CommitComponent, StartupFails, RollbackDone, RollbackUncertain,
                WriteStackPid, WriteReady, AckSeen, AttachmentFails, ExitSeen, CollectOwned, Shutdown
  <2> QED BY <2>1
<1>3. ASSUME NEW g \in Generations, LauncherStep(g) \/ ComponentExits(g) \/ OwnerKilled(g)
      PROVE  FALSE
  <2>1. pc' = pc \/ (g \in Detached /\ \E label : pc' = [pc EXCEPT ![Launcher(g)] = label])
    BY <1>3 DEF LauncherStep, SeeReady, SeeAttached, HandoffFails, read_stack_handle,
                TerminateSupervisor, LauncherAt, ComponentExits, OwnerKilled
  <2> QED BY <2>1
<1>4. ASSUME NEW r \in Stops, StopBegin(r) PROVE FALSE
  BY <1>4 DEF StopBegin
<1>5. ASSUME NEW a \in Actors, stop_expected_generation(a) PROVE FALSE
  BY <1>5 DEF stop_expected_generation
<1>6. ASSUME NEW a \in Actors, TeardownStep(a) \/ ClientKilled(a)
      PROVE  TeardownDone(Stop(s)) /\ lock' = None
  <2>1. CASE TargetGone(a) \/ SignalSoft(a) \/ SignalHard(a)
    BY <2>1 DEF TargetGone, SignalSoft, SignalHard
  <2>2. CASE ClientKilled(a) \/ TeardownUncertain(a)
    BY <2>2 DEF ClientKilled, TeardownUncertain, Ended
  <2>3. CASE TeardownDone(a)
    <3>1. \/ pc' = [pc EXCEPT ![a] = "done"] \/ pc' = [pc EXCEPT ![a] = "err"]
          \/ lock' = None /\ pc' = [pc EXCEPT ![a] = "ok"]
      BY <2>3 DEF TeardownDone, Ended
    <3>2. a = Stop(s) BY <3>1
    <3> QED BY <2>3, <3>1, <3>2
  <2> QED BY <1>6, <2>1, <2>2, <2>3 DEF TeardownStep
<1>7. CASE UNCHANGED vars BY <1>7 DEF vars
<1> QED BY <1>1, <1>2, <1>3, <1>4, <1>5, <1>6, <1>7 DEF Next

\* A stop that reports success leaves nothing running but what no file ever
\* named (stop_expected_generation, cleanup_generation).
THEOREM StoppedIsStopped == Spec => StopMeansStopped
<1>1. ASSUME Inv, [Next]_vars, NEW s \in Stops, pc'[Stop(s)] = "ok", pc[Stop(s)] # "ok",
             NEW g \in Generations, NEW c \in Components
      PROVE  proc[<<g, c>>] = "up" => Unrecorded(<<g, c>>)
  <2>1. TeardownDone(Stop(s)) BY <1>1, OnlyItself
  <2>2. Stopping(Stop(s)) /\ todo[Stop(s)] = {} BY <2>1 DEF TeardownDone
  <2>3. lease[Stop(s)] = lock BY <1>1, <2>2, ActorFacts DEF Inv, ClientInv, Stopping
  <2> QED BY <1>1, <2>2, <2>3, NothingLeft, LiveIs, ActorFacts
<1>2. Inv /\ [Next]_vars =>
        [\A s \in Stops : pc'[Stop(s)] = "ok" /\ pc[Stop(s)] # "ok" =>
           \A g \in Generations, c \in Components :
             proc[<<g, c>>] = "up" => Unrecorded(<<g, c>>)]_vars
  BY <1>1
<1> QED BY <1>2, Start, Step, PTL DEF Spec, StopMeansStopped
===========================================================================
