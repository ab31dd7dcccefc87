--------------------------- MODULE AuthoritySync ---------------------------
(***************************************************************************)
(* The Sidecar's Authority client (authority_client/): the policy bundle   *)
(* stream, the freshness watcher, the enforcement-state publisher and the  *)
(* revocation stream, with the run rejection any of them may trigger.      *)
(*                                                                         *)
(* The policy task, the watcher and the publisher are futures of ONE tokio *)
(* task (join! in spawn_authority_client), so none of them runs between    *)
(* two steps of another that are not separated by an await.  The           *)
(* revocation stream is a task of its own, and requests read the shared    *)
(* state from other threads at any point.                                  *)
(***************************************************************************)
EXTENDS EnforcementState

CONSTANTS
  FailClosed,         \* revocation_fail_closed_on_disconnect
  RuntimeCredential,  \* the credential belongs to a run
  NoToken             \* no token is being inserted

ASSUME SyncAssumption ==
  /\ FailClosed \in BOOLEAN
  /\ RuntimeCredential \in BOOLEAN
  /\ NoToken \notin Tokens

VARIABLES
  cancel,     \* the CancellationToken shared by every task
  policy,     \* control state of PolicyBundleTask
  permit,     \* the stored permit of `swapped: Notify`
  watcher,    \* FreshnessWatcher: where it waits, and for which deadline
  publisher,  \* watch channel value, value taken, writes in flight, file
  rev,        \* RevocationTask: control state and the set being applied
  audit,      \* the audit sink's submission, another caller of reject()
  revoked     \* the Authority's own revocations (external): every token it
              \* revoked, and those it has since purged because they expired

taskVars == <<cancel, policy, permit, watcher, publisher, rev, audit, revoked>>
vars == <<stateVars, taskVars>>

PolicyStates ==
  {"connecting", "streaming", "swapped", "backoff", "rejecting", "stopped"}

WatcherState == [at : {"armed", "parked", "stopped"}, deadline : Nat]

PublisherState ==
  [at : {"running", "stopped"}, channel : Nat, seen : Nat,
   writing : SUBSET Nat, file : Nat]

RevState ==
  [at : {"connecting", "streaming", "applying", "backoff", "rejecting",
         "stopped"},
   ready : BOOLEAN, base : SUBSET Tokens, last : SUBSET Tokens,
   todo : SUBSET Tokens, cur : Tokens \cup {NoToken}, bad : BOOLEAN]

TaskTypeOK ==
  /\ cancel \in BOOLEAN
  /\ policy \in PolicyStates
  /\ permit \in BOOLEAN
  /\ watcher \in WatcherState
  /\ publisher \in PublisherState
  /\ rev \in RevState
  /\ audit \in {"running", "rejecting", "stopped"}
  /\ revoked \in [all : SUBSET Tokens, purged : SUBSET Tokens]

TypeOK == StateTypeOK /\ TaskTypeOK

Init ==
  /\ StateInit
  /\ cancel = FALSE
  /\ policy = "connecting"
  /\ permit = FALSE
  /\ watcher = [at |-> "parked", deadline |-> 0]
  /\ publisher = [at |-> "running", channel |-> 0, seen |-> 0,
                  writing |-> {}, file |-> 0]
  /\ rev = [at |-> "connecting", ready |-> FALSE, base |-> {}, last |-> {},
            todo |-> {}, cur |-> NoToken, bad |-> FALSE]
  /\ audit = "running"
  /\ revoked \in [all : SUBSET Tokens, purged : {{}}]

-----------------------------------------------------------------------------
(* Statuses the Authority ends a call with, and run rejection. *)

Statuses == {"unauthenticated", "other"}

rejects_run(status) == status = "unauthenticated" /\ RuntimeCredential

-----------------------------------------------------------------------------
(* PolicyBundleTask *)

\* What the Authority may send: no bundle at all, or one whose ttl, version,
\* mappings and policies are acceptable or not.
Bundles == [present : BOOLEAN, valid : BOOLEAN, ttl : TTLs \cup {0}]

compile_bundle(bundle) == bundle.ttl # 0 /\ bundle.valid

PolicyConnect ==
  /\ policy = "connecting"
  /\ policy' = "streaming"
  /\ UNCHANGED <<stateVars, cancel, permit, watcher, publisher, rev, audit,
                 revoked>>

\* apply_bundle up to the swap: a bundle that is missing or does not compile
\* leaves the enforced snapshot in place.
PolicyApply(bundle) ==
  /\ policy = "streaming"
  /\ IF bundle.present /\ compile_bundle(bundle)
     THEN /\ swap_snapshot(bundle.ttl)
          /\ policy' = "swapped"
     ELSE UNCHANGED <<stateVars, policy>>
  /\ UNCHANGED <<cancel, permit, watcher, publisher, rev, audit, revoked>>

\* The rest of apply_bundle: readiness, the watcher's permit, the publisher.
PolicyAnnounce ==
  /\ policy = "swapped"
  /\ mark_policy_bundle_swapped
  /\ permit' = TRUE
  /\ publisher' = [publisher EXCEPT !.channel = snapshot.gen]
  /\ policy' = "streaming"
  /\ UNCHANGED <<cancel, watcher, rev, audit, revoked>>

PolicyEnd(status) ==
  /\ policy \in {"connecting", "streaming"}
  /\ IF rejects_run(status)
     THEN policy' = "rejecting" /\ reject_run
     ELSE policy' = "backoff" /\ UNCHANGED stateVars
  /\ UNCHANGED <<cancel, permit, watcher, publisher, rev, audit, revoked>>

PolicyRetry ==
  /\ policy = "backoff"
  /\ policy' = "connecting"
  /\ UNCHANGED <<stateVars, cancel, permit, watcher, publisher, rev, audit,
                 revoked>>

\* Mutant: the run is rejected and nobody is told to stop.
Bug_ExitWithoutCancel ==
  /\ policy = "rejecting"
  /\ policy' = "stopped"
  /\ UNCHANGED <<stateVars, cancel, permit, watcher, publisher, rev, audit,
                 revoked>>

\* RunRejection::reject after reject_run: cancel, then return.
PolicyExit ==
  /\ policy = "rejecting"
  /\ cancel' = TRUE
  /\ policy' = "stopped"
  /\ UNCHANGED <<stateVars, permit, watcher, publisher, rev, audit, revoked>>

PolicyStop ==
  /\ cancel
  /\ policy \in {"connecting", "streaming", "backoff"}
  /\ policy' = "stopped"
  /\ UNCHANGED <<stateVars, cancel, permit, watcher, publisher, rev, audit,
                 revoked>>

\* The task's other futures run only while the policy future awaits.
PolicyAwaits == policy \notin {"swapped", "rejecting"}

-----------------------------------------------------------------------------
(* FreshnessWatcher *)

\* The head of the watcher's loop: sleep until the deadline of a live
\* Authority generation, otherwise wait for the next publication.
Rearm ==
  IF snapshot.gen > 0 /\ is_fresh(snapshot)
  THEN [at |-> "armed", deadline |-> snapshot.deadline]
  ELSE [at |-> "parked", deadline |-> 0]

WatcherNotified ==
  /\ PolicyAwaits
  /\ watcher.at \in {"armed", "parked"}
  /\ permit
  /\ permit' = FALSE
  /\ watcher' = Rearm
  /\ UNCHANGED <<stateVars, cancel, policy, publisher, rev, audit, revoked>>

\* Mutant: the deadline slept for is taken for the deadline of the snapshot.
Bug_DeadlineOfOldSnapshot ==
  /\ PolicyAwaits
  /\ watcher.at = "armed"
  /\ now >= watcher.deadline
  /\ readiness' = [readiness EXCEPT !.policy_bundle_fresh = FALSE]
  /\ watcher' = Rearm
  /\ UNCHANGED <<now, snapshot, bloom, baseline, cancel, policy, permit,
                 publisher, rev, audit, revoked>>

\* Mutant: the watcher re-arms without refreshing the flag.
Bug_DeadlineNotShown ==
  /\ PolicyAwaits
  /\ watcher.at = "armed"
  /\ now >= watcher.deadline
  /\ watcher' = Rearm
  /\ UNCHANGED <<stateVars, cancel, policy, permit, publisher, rev, audit,
                 revoked>>

WatcherDeadline ==
  /\ PolicyAwaits
  /\ watcher.at = "armed"
  /\ now >= watcher.deadline
  /\ refresh_policy_bundle_freshness
  /\ watcher' = Rearm
  /\ UNCHANGED <<cancel, policy, permit, publisher, rev, audit, revoked>>

WatcherStop ==
  /\ PolicyAwaits
  /\ cancel
  /\ watcher.at \in {"armed", "parked"}
  /\ watcher' = [watcher EXCEPT !.at = "stopped"]
  /\ UNCHANGED <<stateVars, cancel, policy, permit, publisher, rev, audit,
                 revoked>>

-----------------------------------------------------------------------------
(* Enforcement-state publisher: one write in flight, awaited before the     *)
(* channel is read again.                                                   *)

\* Mutant: the write is not awaited before the next value is taken.
Bug_TakeWithoutWaiting ==
  /\ PolicyAwaits
  /\ publisher.at = "running"
  /\ publisher.channel # publisher.seen
  /\ publisher' = [publisher EXCEPT !.seen = publisher.channel,
                                    !.writing = @ \cup {publisher.channel}]
  /\ UNCHANGED <<stateVars, cancel, policy, permit, watcher, rev, audit,
                 revoked>>

PublisherTake ==
  /\ PolicyAwaits
  /\ publisher.at = "running"
  /\ publisher.writing = {}
  /\ publisher.channel # publisher.seen
  /\ publisher' = [publisher EXCEPT !.seen = publisher.channel,
                                    !.writing = @ \cup {publisher.channel}]
  /\ UNCHANGED <<stateVars, cancel, policy, permit, watcher, rev, audit,
                 revoked>>

\* Mutant: the channel is marked as seen after the write, not before it.
Bug_SeenAfterWrite(gen, ok) ==
  /\ gen \in publisher.writing
  /\ publisher' = [publisher EXCEPT !.writing = @ \ {gen},
                                    !.seen = publisher.channel,
                                    !.file = IF ok THEN gen ELSE @]
  /\ UNCHANGED <<stateVars, cancel, policy, permit, watcher, rev, audit,
                 revoked>>

\* The blocking write replaces the file, or fails and is only logged.
PublisherWritten(gen, ok) ==
  /\ gen \in publisher.writing
  /\ publisher' = [publisher EXCEPT !.writing = @ \ {gen},
                                    !.file = IF ok THEN gen ELSE @]
  /\ UNCHANGED <<stateVars, cancel, policy, permit, watcher, rev, audit,
                 revoked>>

PublisherStop ==
  /\ PolicyAwaits
  /\ cancel
  /\ publisher.at = "running"
  /\ publisher.writing = {}
  /\ publisher' = [publisher EXCEPT !.at = "stopped"]
  /\ UNCHANGED <<stateVars, cancel, policy, permit, watcher, rev, audit,
                 revoked>>

-----------------------------------------------------------------------------
(* RevocationTask *)

RevConnect ==
  /\ rev.at = "connecting"
  /\ rev' = [rev EXCEPT !.at = "streaming", !.ready = FALSE,
                        !.base = revoked.all \ revoked.purged,
                        !.last = revoked.all \ revoked.purged]
  /\ UNCHANGED <<stateVars, cancel, policy, permit, watcher, publisher, audit,
                 revoked>>

\* The Authority sends its whole set on connect and after each change, so a
\* message holds what earlier messages of the stream held and was not purged.
\* A message may hold an event whose token id does not parse: the events before
\* it are applied.
RevReceive(set, good, bad) ==
  /\ rev.at = "streaming"
  /\ rev.last \ revoked.purged \subseteq set /\ set \subseteq revoked.all
  /\ good \subseteq set
  /\ ~bad => good = set
  /\ rev' \in {[rev EXCEPT !.at = "applying", !.last = set, !.todo = good,
                           !.cur = t, !.bad = bad] :
                 t \in IF good = {} THEN {NoToken} ELSE good}
  /\ UNCHANGED <<stateVars, cancel, policy, permit, watcher, publisher, audit,
                 revoked>>

\* AtomicBloom::insert sets the bits of the token one at a time.
RevInsertBit(b) ==
  /\ rev.at = "applying"
  /\ rev.cur \in Tokens
  /\ b \in Hash[rev.cur] \ bloom
  /\ set_bit(b)
  /\ UNCHANGED taskVars

\* Mutant: the insertion ends before the last bit of the token.
Bug_AddedTooEarly ==
  /\ rev.at = "applying"
  /\ rev.cur \in Tokens
  /\ rev' \in {[rev EXCEPT !.todo = @ \ {rev.cur}, !.cur = t] :
                 t \in IF rev.todo \subseteq {rev.cur} THEN {NoToken}
                       ELSE rev.todo \ {rev.cur}}
  /\ UNCHANGED <<stateVars, cancel, policy, permit, watcher, publisher, audit,
                 revoked>>

RevAdded ==
  /\ rev.at = "applying"
  /\ rev.cur \in Tokens
  /\ is_revoked(rev.cur)
  /\ LET rest == rev.todo \ {rev.cur}
     IN  rev' \in {[rev EXCEPT !.todo = rest, !.cur = t] :
                     t \in IF rest = {} THEN {NoToken} ELSE rest}
  /\ UNCHANGED <<stateVars, cancel, policy, permit, watcher, publisher, audit,
                 revoked>>

\* Mutant: the first message makes the stream ready before it is applied.
Bug_ReadyOnFirstMessage ==
  /\ rev.at = "applying"
  /\ ~rev.bad
  /\ IF rev.ready THEN UNCHANGED stateVars
                  ELSE set_revocation_ready(TRUE, rev.base \ revoked.purged)
  /\ rev' = [rev EXCEPT !.at = IF rev.todo = {} THEN "streaming" ELSE @,
                        !.ready = TRUE]
  /\ UNCHANGED <<cancel, policy, permit, watcher, publisher, audit, revoked>>

\* The set is applied: the first one of a connection makes it ready.
RevApplied ==
  /\ rev.at = "applying"
  /\ rev.todo = {}
  /\ ~rev.bad
  /\ IF rev.ready THEN UNCHANGED stateVars
                  ELSE set_revocation_ready(TRUE, rev.base \ revoked.purged)
  /\ rev' = [rev EXCEPT !.at = "streaming", !.ready = TRUE]
  /\ UNCHANGED <<cancel, policy, permit, watcher, publisher, audit, revoked>>

\* Mutant: the disconnect leaves readiness as it was.
Bug_DisconnectKeepsReady ==
  /\ rev' = [rev EXCEPT !.at = "backoff"]
  /\ UNCHANGED <<stateVars, cancel, policy, permit, watcher, publisher, audit,
                 revoked>>

\* After run_once returned without rejecting the run.
Disconnected ==
  /\ rev' = [rev EXCEPT !.at = "backoff"]
  /\ IF FailClosed THEN set_revocation_ready(FALSE, baseline)
                   ELSE UNCHANGED stateVars
  /\ UNCHANGED <<cancel, policy, permit, watcher, publisher, audit, revoked>>

\* apply_set failed on an event: the stream is dropped.
RevBadEvent ==
  /\ rev.at = "applying"
  /\ rev.todo = {}
  /\ rev.bad
  /\ Disconnected

RevEnd(status) ==
  /\ rev.at \in {"connecting", "streaming"}
  /\ IF rejects_run(status)
     THEN /\ reject_run
          /\ rev' = [rev EXCEPT !.at = "rejecting"]
          /\ UNCHANGED <<cancel, policy, permit, watcher, publisher, audit,
                         revoked>>
     ELSE Disconnected

RevRetry ==
  /\ rev.at = "backoff"
  /\ rev' = [rev EXCEPT !.at = "connecting"]
  /\ UNCHANGED <<stateVars, cancel, policy, permit, watcher, publisher, audit,
                 revoked>>

RevExit ==
  /\ rev.at = "rejecting"
  /\ cancel' = TRUE
  /\ rev' = [rev EXCEPT !.at = "stopped"]
  /\ UNCHANGED <<stateVars, policy, permit, watcher, publisher, audit, revoked>>

\* Cancellation seen by the select of `run`; when run_once sees it first the
\* stream counts as disconnected (RevEnd) and the backoff wait returns.
RevStop ==
  /\ cancel
  /\ rev.at \in {"connecting", "streaming", "backoff"}
  /\ rev' = [rev EXCEPT !.at = "stopped"]
  /\ UNCHANGED <<stateVars, cancel, policy, permit, watcher, publisher, audit,
                 revoked>>

-----------------------------------------------------------------------------
(* Other actors *)

\* The audit sink's submission was answered with the rejection of the run.
AuditReject ==
  /\ RuntimeCredential
  /\ audit = "running"
  /\ reject_run
  /\ audit' = "rejecting"
  /\ UNCHANGED <<cancel, policy, permit, watcher, publisher, rev, revoked>>

AuditExit ==
  /\ audit = "rejecting"
  /\ cancel' = TRUE
  /\ audit' = "stopped"
  /\ UNCHANGED <<stateVars, policy, permit, watcher, publisher, rev, revoked>>

Shutdown ==
  /\ ~cancel
  /\ cancel' = TRUE
  /\ UNCHANGED <<stateVars, policy, permit, watcher, publisher, rev, audit,
                 revoked>>

\* The Authority revokes another token.
AuthorityRevoke(t) ==
  /\ t \notin revoked.all
  /\ revoked' = [revoked EXCEPT !.all = @ \cup {t}]
  /\ UNCHANGED <<stateVars, cancel, policy, permit, watcher, publisher, rev,
                 audit>>

\* It drops the revocation of a token that has expired.
AuthorityPurge(t) ==
  /\ t \in revoked.all \ revoked.purged
  /\ revoked' = [revoked EXCEPT !.purged = @ \cup {t}]
  /\ UNCHANGED <<stateVars, cancel, policy, permit, watcher, publisher, rev,
                 audit>>

ClockTick == Tick /\ UNCHANGED taskVars

-----------------------------------------------------------------------------
PolicyNext ==
  \/ PolicyConnect
  \/ \E bundle \in Bundles : PolicyApply(bundle)
  \/ PolicyAnnounce
  \/ \E status \in Statuses : PolicyEnd(status)
  \/ PolicyRetry
  \/ PolicyExit
  \/ PolicyStop

WatcherNext == WatcherNotified \/ WatcherDeadline \/ WatcherStop

PublisherNext ==
  \/ PublisherTake
  \/ \E gen \in publisher.writing, ok \in BOOLEAN : PublisherWritten(gen, ok)
  \/ PublisherStop

RevNext ==
  \/ RevConnect
  \/ \E set, good \in SUBSET Tokens, bad \in BOOLEAN : RevReceive(set, good, bad)
  \/ \E b \in Bits : RevInsertBit(b)
  \/ RevAdded
  \/ RevApplied
  \/ RevBadEvent
  \/ \E status \in Statuses : RevEnd(status)
  \/ RevRetry
  \/ RevExit
  \/ RevStop

Next ==
  \/ PolicyNext
  \/ WatcherNext
  \/ PublisherNext
  \/ RevNext
  \/ AuditReject
  \/ AuditExit
  \/ Shutdown
  \/ \E t \in Tokens : AuthorityRevoke(t) \/ AuthorityPurge(t)
  \/ ClockTick

\* A task that is runnable is eventually polled: what it does between awaits,
\* a ready timer, permit or cancellation.  The two stream loops may be offered a
\* message at every poll; tokio's select! tries its branches in random order, so
\* a cancellation that is ready again and again is taken (strong fairness).
\* Nothing is assumed of the Authority, of the network or of the clock.
Fairness ==
  /\ WF_vars(PolicyAnnounce)
  /\ WF_vars(PolicyExit)
  /\ SF_vars(PolicyStop)
  /\ WF_vars(WatcherNotified \/ WatcherDeadline)
  /\ WF_vars(WatcherStop)
  /\ WF_vars(PublisherTake)
  /\ WF_vars(\E gen \in publisher.writing, ok \in BOOLEAN :
               PublisherWritten(gen, ok))
  /\ WF_vars(PublisherStop)
  /\ WF_vars((\E b \in Bits : RevInsertBit(b)) \/ RevAdded \/ RevApplied
               \/ RevBadEvent)
  /\ WF_vars(RevExit)
  /\ SF_vars(RevStop)
  /\ WF_vars(AuditExit)

Spec == Init /\ [][Next]_vars
FairSpec == Spec /\ Fairness
-----------------------------------------------------------------------------
(* Properties *)

\* The policy flags follow the published snapshot (readiness.rs:66-119): ready
\* only once an Authority generation is published and the run is live, fresh
\* only while ready; and once ready, a generation that has not expired is
\* reported fresh, whichever of a swap and a deadline the watcher saw first.
FlagsFollowSnapshot ==
  LET r == readiness
  IN  /\ r.policy_bundle_ready => snapshot.gen > 0 /\ ~r.run_rejected
      /\ r.policy_bundle_fresh => r.policy_bundle_ready
      /\ r.policy_bundle_ready /\ is_fresh(snapshot) /\ policy # "swapped"
           => r.policy_bundle_fresh

\* "Readiness means this Sidecar holds the Authority's set" (revocation.rs:143):
\* while revocation_ready, every token the Authority had revoked when the stream
\* that granted readiness opened, and had not purged by then, is answered as
\* revoked; when disconnects fail closed, that stream is the one now open.
ReadyHoldsAuthoritySet ==
  readiness.revocation_ready =>
    /\ \A t \in baseline : is_revoked(t)
    /\ FailClosed /\ rev.at \notin {"rejecting", "stopped"} =>
         /\ rev.at \in {"streaming", "applying"}
         /\ \A t \in rev.base \ revoked.purged : is_revoked(t)

\* Rejection is terminal (readiness.rs:21-24): no step of a task that raced with
\* it, such as a bundle being applied, makes the Sidecar ready again.
RejectionTerminal ==
  [][readiness.run_rejected =>
       readiness'.run_rejected /\ ~fully_ready(readiness')
       /\ ~readiness'.policy_bundle_fresh]_vars

\* "file replacements never reorder" (enforcement_publisher.rs:3-6): the state
\* file moves forward through the published generations and never ahead of the
\* snapshot that requests are enforced with.
FileNeverReorders ==
  [][publisher'.file >= publisher.file /\ publisher'.file <= snapshot'.gen]_vars

\* Every step of the client is a step, or a stutter, of the state's contract.
ImplementsState == StateSpec

AllStopped ==
  /\ policy = "stopped"
  /\ watcher.at = "stopped"
  /\ publisher.at = "stopped"
  /\ rev.at = "stopped"

\* Whichever Authority call notices the rejection, the Sidecar stops
\* (run_rejection.rs:10-15): every task of the client ends.
RejectedRunStops == readiness.run_rejected ~> AllStopped

\* A published state is handed to the writer (enforcement_publisher.rs:36-47),
\* one published while a write is in flight included, unless a newer one
\* replaces it or the Sidecar stops first.
PublishedIsTaken ==
  \A g \in 1..MaxGen :
    publisher.channel = g /\ publisher.seen # g
      ~> (g \in publisher.writing \/ publisher.channel # g \/ cancel)

StaleShown == readiness.policy_bundle_fresh /\ ~is_fresh(snapshot)
StaleResolved == ~readiness.policy_bundle_fresh \/ is_fresh(snapshot) \/ cancel

\* What the watcher provides of "clears policy_bundle_fresh when the enforced
\* generation expires" (freshness.rs:17, 34-39): once it sleeps
\* until the deadline of the enforced generation, with no publication left to
\* look at, the expiry of that generation is shown.
ArmedExpiryIsShown ==
  (/\ StaleShown
   /\ watcher.at = "armed" /\ watcher.deadline = snapshot.deadline
   /\ ~permit /\ policy # "swapped") ~> StaleResolved
=============================================================================
