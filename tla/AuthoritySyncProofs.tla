------------------------ MODULE AuthoritySyncProofs ------------------------
(***************************************************************************)
(* Theorems about the shared enforcement state and the Authority client    *)
(* that writes it, for any tokens, hash, TTLs and bounds: types, the       *)
(* filter and the readiness flags against what was published, and the      *)
(* terminal rejection of the run.                                          *)
(***************************************************************************)
EXTENDS AuthoritySync, TLAPS

USE StateAssumption, SyncAssumption

-----------------------------------------------------------------------------
(* The contract of the shared state *)

\* The operations of the shared state keep its types.
LEMMA StateOpsTyped ==
  ASSUME StateTypeOK
  PROVE  /\ Tick => StateTypeOK'
         /\ \A ttl \in TTLs : swap_snapshot(ttl) => StateTypeOK'
         /\ mark_policy_bundle_swapped => StateTypeOK'
         /\ refresh_policy_bundle_freshness => StateTypeOK'
         /\ reject_run => StateTypeOK'
         /\ \A base \in SUBSET Tokens, ready \in BOOLEAN :
              set_revocation_ready(ready, base) => StateTypeOK'
         /\ \A b \in Bits : set_bit(b) => StateTypeOK'
         /\ UNCHANGED stateVars => StateTypeOK'
<1> USE DEF StateTypeOK, Snapshot, ReadinessState
<1>1. Tick => StateTypeOK'
  BY DEF Tick
<1>2. ASSUME NEW ttl \in TTLs, swap_snapshot(ttl)
      PROVE  StateTypeOK'
  BY <1>2 DEF swap_snapshot
<1>3. mark_policy_bundle_swapped => StateTypeOK'
  BY DEF mark_policy_bundle_swapped
<1>4. refresh_policy_bundle_freshness => StateTypeOK'
  BY DEF refresh_policy_bundle_freshness, is_fresh
<1>5. reject_run => StateTypeOK'
  BY DEF reject_run
<1>6. ASSUME NEW base \in SUBSET Tokens, NEW ready \in BOOLEAN,
             set_revocation_ready(ready, base)
      PROVE  StateTypeOK'
  BY <1>6 DEF set_revocation_ready
<1>7. ASSUME NEW b \in Bits, set_bit(b)
      PROVE  StateTypeOK'
  BY <1>7 DEF set_bit
<1>8. UNCHANGED stateVars => StateTypeOK'
  BY DEF stateVars
<1> QED BY <1>1, <1>2, <1>3, <1>4, <1>5, <1>6, <1>7, <1>8

\* A step of the contract keeps the types of the shared state.
LEMMA StateStepTyped ==
  ASSUME StateTypeOK, [StateNext]_stateVars
  PROVE  StateTypeOK'
BY StateOpsTyped DEF StateNext, StateTypeOK

\* The shared state keeps its types.
THEOREM StateTyped == StateSpec => []StateTypeOK
<1>1. StateInit => StateTypeOK
  BY DEF StateInit, StateTypeOK, Snapshot, ReadinessState
<1> QED BY <1>1, StateStepTyped, PTL DEF StateSpec

-----------------------------------------------------------------------------
(* Readiness and the revocation filter *)

\* While revocations are ready, the filter holds the set that made them so.
BaselineHeld ==
  readiness.revocation_ready => \A t \in baseline : is_revoked(t)

\* Bits of the filter are never cleared, so a token once answered as revoked
\* stays so.
LEMMA FilterGrows ==
  ASSUME [StateNext]_stateVars
  PROVE  bloom \subseteq bloom'
BY DEF StateNext, Tick, swap_snapshot, mark_policy_bundle_swapped,
       refresh_policy_bundle_freshness, reject_run, set_revocation_ready,
       set_bit, stateVars

\* No operation of the state takes a rejection back.
LEMMA StateKeepsRejection ==
  ASSUME StateTypeOK, [StateNext]_stateVars
  PROVE  readiness.run_rejected => readiness'.run_rejected
BY DEF StateNext, Tick, swap_snapshot, mark_policy_bundle_swapped,
       refresh_policy_bundle_freshness, reject_run, set_revocation_ready,
       set_bit, stateVars, StateTypeOK, ReadinessState

LEMMA StepHoldsBaseline ==
  ASSUME StateTypeOK, BaselineHeld, [StateNext]_stateVars
  PROVE  BaselineHeld'
<1>1. bloom \subseteq bloom'
  BY FilterGrows
<1>2. ASSUME NEW base \in SUBSET Tokens, \A t \in base : is_revoked(t),
             set_revocation_ready(TRUE, base)
      PROVE  BaselineHeld'
  BY <1>2 DEF set_revocation_ready, BaselineHeld, is_revoked
<1>3. ASSUME set_revocation_ready(FALSE, baseline)
      PROVE  BaselineHeld'
  BY <1>3
  DEF set_revocation_ready, BaselineHeld, StateTypeOK, ReadinessState
<1>4. ASSUME \/ Tick
             \/ \E ttl \in TTLs : swap_snapshot(ttl)
             \/ mark_policy_bundle_swapped
             \/ refresh_policy_bundle_freshness
             \/ reject_run
             \/ \E b \in Bits : set_bit(b)
             \/ UNCHANGED stateVars
      PROVE  BaselineHeld'
  <2>1. readiness'.revocation_ready = readiness.revocation_ready
    BY <1>4
    DEF Tick, swap_snapshot, mark_policy_bundle_swapped,
        refresh_policy_bundle_freshness, reject_run, set_bit, stateVars,
        StateTypeOK, ReadinessState
  <2>2. baseline' = baseline
    BY <1>4
    DEF Tick, swap_snapshot, mark_policy_bundle_swapped,
        refresh_policy_bundle_freshness, reject_run, set_bit, stateVars
  <2> QED BY <1>1, <2>1, <2>2 DEF BaselineHeld, is_revoked
<1> QED BY <1>2, <1>3, <1>4 DEF StateNext

\* Every reader of the shared state that sees revocation_ready finds the whole
\* baseline in the filter.
THEOREM StateHoldsBaseline == StateSpec => []BaselineHeld
<1>1. StateInit => BaselineHeld
  BY DEF StateInit, BaselineHeld
<1>2. StateTypeOK /\ BaselineHeld /\ [StateNext]_stateVars => BaselineHeld'
  BY StepHoldsBaseline
<1> QED BY <1>1, <1>2, StateTyped, PTL DEF StateSpec

-----------------------------------------------------------------------------
(* Type correctness *)

\* Every step of the client keeps every type.
LEMMA StepTyped ==
  ASSUME TypeOK, Next
  PROVE  TypeOK'
<1> USE DEF TypeOK, TaskTypeOK, PolicyStates
<1>0. StateTypeOK
  OBVIOUS
<1>1. CASE PolicyConnect
  BY <1>1, <1>0, StateOpsTyped DEF PolicyConnect
<1>2. ASSUME NEW bundle \in Bundles, PolicyApply(bundle)
      PROVE  TypeOK'
  <2>1. CASE bundle.present /\ compile_bundle(bundle)
    <3>1. bundle.ttl \in TTLs
      BY <2>1 DEF Bundles, compile_bundle
    <3>2. StateTypeOK'
      BY <1>2, <2>1, <3>1, <1>0, StateOpsTyped DEF PolicyApply
    <3> QED BY <1>2, <2>1, <3>2 DEF PolicyApply
  <2>2. CASE ~(bundle.present /\ compile_bundle(bundle))
    BY <1>2, <2>2, <1>0, StateOpsTyped DEF PolicyApply
  <2> QED BY <2>1, <2>2
<1>3. CASE PolicyAnnounce
  <2>1. StateTypeOK' /\ snapshot.gen \in Nat
    BY <1>3, <1>0, StateOpsTyped DEF PolicyAnnounce, StateTypeOK, Snapshot
  <2>2. publisher' \in PublisherState
    BY <1>3, <2>1 DEF PolicyAnnounce, PublisherState
  <2>3. TaskTypeOK'
    BY <1>3, <2>2 DEF PolicyAnnounce
  <2> QED BY <2>1, <2>3
<1>4. ASSUME NEW status \in Statuses, PolicyEnd(status)
      PROVE  TypeOK'
  BY <1>4, <1>0, StateOpsTyped DEF PolicyEnd
<1>5. CASE PolicyRetry
  BY <1>5, <1>0, StateOpsTyped DEF PolicyRetry
<1>6. CASE PolicyExit
  BY <1>6, <1>0, StateOpsTyped DEF PolicyExit
<1>7. CASE PolicyStop
  BY <1>7, <1>0, StateOpsTyped DEF PolicyStop
<1>8. Rearm \in WatcherState
  BY <1>0 DEF Rearm, WatcherState, StateTypeOK, Snapshot
<1>9. CASE WatcherNotified
  BY <1>9, <1>0, <1>8, StateOpsTyped DEF WatcherNotified
<1>10. CASE WatcherDeadline
  BY <1>10, <1>0, <1>8, StateOpsTyped DEF WatcherDeadline
<1>11. CASE WatcherStop
  <2>1. StateTypeOK'
    BY <1>11, <1>0, StateOpsTyped DEF WatcherStop
  <2>2. watcher' \in WatcherState
    BY <1>11 DEF WatcherStop, WatcherState
  <2> QED BY <1>11, <2>1, <2>2 DEF WatcherStop
<1>12. CASE PublisherTake
  <2>1. StateTypeOK'
    BY <1>12, <1>0, StateOpsTyped DEF PublisherTake
  <2>2. publisher' \in PublisherState
    BY <1>12 DEF PublisherTake, PublisherState
  <2> QED BY <1>12, <2>1, <2>2 DEF PublisherTake
<1>13. ASSUME NEW gen \in publisher.writing, NEW ok \in BOOLEAN,
              PublisherWritten(gen, ok)
       PROVE  TypeOK'
  <2>1. StateTypeOK'
    BY <1>13, <1>0, StateOpsTyped DEF PublisherWritten
  <2>2. publisher' \in PublisherState
    BY <1>13 DEF PublisherWritten, PublisherState
  <2> QED BY <1>13, <2>1, <2>2 DEF PublisherWritten
<1>14. CASE PublisherStop
  <2>1. StateTypeOK'
    BY <1>14, <1>0, StateOpsTyped DEF PublisherStop
  <2>2. publisher' \in PublisherState
    BY <1>14 DEF PublisherStop, PublisherState
  <2> QED BY <1>14, <2>1, <2>2 DEF PublisherStop
<1>15. CASE RevConnect
  <2>1. StateTypeOK'
    BY <1>15, <1>0, StateOpsTyped DEF RevConnect
  <2>2. rev' \in RevState
    BY <1>15 DEF RevConnect, RevState
  <2> QED BY <1>15, <2>1, <2>2 DEF RevConnect
<1>16. ASSUME NEW set \in SUBSET Tokens, NEW good \in SUBSET Tokens,
              NEW bad \in BOOLEAN, RevReceive(set, good, bad)
       PROVE  TypeOK'
  <2>1. StateTypeOK'
    BY <1>16, <1>0, StateOpsTyped DEF RevReceive
  <2>2. PICK t \in Tokens \cup {NoToken} :
          rev' = [rev EXCEPT !.at = "applying", !.last = set, !.todo = good,
                             !.cur = t, !.bad = bad]
    BY <1>16 DEF RevReceive
  <2>3. rev' \in RevState
    BY <2>2 DEF RevState
  <2> QED BY <1>16, <2>1, <2>3 DEF RevReceive
<1>17. ASSUME NEW b \in Bits, RevInsertBit(b)
       PROVE  TypeOK'
  BY <1>17, <1>0, StateOpsTyped DEF RevInsertBit, taskVars
<1>18. CASE RevAdded
  <2>1. StateTypeOK'
    BY <1>18, <1>0, StateOpsTyped DEF RevAdded
  <2>2. PICK t \in rev.todo \cup {NoToken} :
          rev' = [rev EXCEPT !.todo = @ \ {rev.cur}, !.cur = t]
    BY <1>18 DEF RevAdded
  <2>3. rev' \in RevState
    BY <2>2 DEF RevState
  <2> QED BY <1>18, <2>1, <2>3 DEF RevAdded
<1>19. CASE RevApplied
  <2>1. StateTypeOK'
    <3>1. rev.base \ revoked.purged \in SUBSET Tokens
      BY DEF RevState
    <3> QED BY <1>19, <3>1, <1>0, StateOpsTyped DEF RevApplied
  <2>2. rev' \in RevState
    BY <1>19 DEF RevApplied, RevState
  <2> QED BY <1>19, <2>1, <2>2 DEF RevApplied
<1>20. ASSUME Disconnected
       PROVE  TypeOK'
  <2>1. baseline \in SUBSET Tokens
    BY DEF StateTypeOK
  <2>2. StateTypeOK'
    BY <1>20, <1>0, <2>1, StateOpsTyped DEF Disconnected
  <2>3. rev' \in RevState
    BY <1>20 DEF Disconnected, RevState
  <2> QED BY <1>20, <2>2, <2>3 DEF Disconnected
<1>21. CASE RevBadEvent
  BY <1>21, <1>20 DEF RevBadEvent
<1>22. ASSUME NEW status \in Statuses, RevEnd(status)
       PROVE  TypeOK'
  <2>1. CASE rejects_run(status)
    <3>1. StateTypeOK'
      BY <1>22, <2>1, <1>0, StateOpsTyped DEF RevEnd
    <3>2. rev' \in RevState
      BY <1>22, <2>1 DEF RevEnd, RevState
    <3> QED BY <1>22, <2>1, <3>1, <3>2 DEF RevEnd
  <2>2. CASE ~rejects_run(status)
    BY <1>22, <2>2, <1>20 DEF RevEnd
  <2> QED BY <2>1, <2>2
<1>23. CASE RevRetry
  <2>1. StateTypeOK'
    BY <1>23, <1>0, StateOpsTyped DEF RevRetry
  <2>2. rev' \in RevState
    BY <1>23 DEF RevRetry, RevState
  <2> QED BY <1>23, <2>1, <2>2 DEF RevRetry
<1>24. CASE RevExit
  <2>1. StateTypeOK'
    BY <1>24, <1>0, StateOpsTyped DEF RevExit
  <2>2. rev' \in RevState
    BY <1>24 DEF RevExit, RevState
  <2> QED BY <1>24, <2>1, <2>2 DEF RevExit
<1>25. CASE RevStop
  <2>1. StateTypeOK'
    BY <1>25, <1>0, StateOpsTyped DEF RevStop
  <2>2. rev' \in RevState
    BY <1>25 DEF RevStop, RevState
  <2> QED BY <1>25, <2>1, <2>2 DEF RevStop
<1>26. CASE AuditReject
  BY <1>26, <1>0, StateOpsTyped DEF AuditReject
<1>27. CASE AuditExit
  BY <1>27, <1>0, StateOpsTyped DEF AuditExit
<1>28. CASE Shutdown
  BY <1>28, <1>0, StateOpsTyped DEF Shutdown
<1>29. ASSUME NEW t \in Tokens, AuthorityRevoke(t) \/ AuthorityPurge(t)
       PROVE  TypeOK'
  BY <1>29, <1>0, StateOpsTyped DEF AuthorityRevoke, AuthorityPurge
<1>30. CASE ClockTick
  BY <1>30, <1>0, StateOpsTyped DEF ClockTick, taskVars
<1> HIDE DEF TypeOK, TaskTypeOK
<1> QED
  BY <1>1, <1>2, <1>3, <1>4, <1>5, <1>6, <1>7, <1>9, <1>10, <1>11, <1>12,
     <1>13, <1>14, <1>15, <1>16, <1>17, <1>18, <1>19, <1>21, <1>22, <1>23,
     <1>24, <1>25, <1>26, <1>27, <1>28, <1>29, <1>30
  DEF Next, PolicyNext, WatcherNext, PublisherNext, RevNext

\* The state of the client and of the shared enforcement state keeps its types
\* through every interleaving of the tasks.
THEOREM TypeCorrect == Spec => []TypeOK
<1>1. ASSUME Init PROVE TypeOK
  <2>1. StateTypeOK
    BY <1>1 DEF Init, StateInit, StateTypeOK, Snapshot, ReadinessState
  <2>2. watcher \in WatcherState /\ publisher \in PublisherState
    BY <1>1 DEF Init, WatcherState, PublisherState
  <2>3. rev \in RevState
    BY <1>1 DEF Init, RevState
  <2> QED BY <1>1, <2>1, <2>2, <2>3 DEF Init, TypeOK, TaskTypeOK, PolicyStates
<1>2. TypeOK /\ UNCHANGED vars => TypeOK'
  BY DEF TypeOK, TaskTypeOK, StateTypeOK, vars, stateVars, taskVars
<1>3. TypeOK /\ [Next]_vars => TypeOK'
  BY <1>2, StepTyped
<1> QED BY <1>1, <1>3, PTL DEF Spec

-----------------------------------------------------------------------------
(* The policy flags.  FlagsFollowSnapshot is not inductive: a bundle must be *)
(* published before it is announced, the announcement is the only step       *)
(* between a publication and its flag, and the watcher sleeps only for a     *)
(* generation of the Authority.                                              *)

PolicyInv ==
  /\ FlagsFollowSnapshot
  /\ snapshot.gen = 0 => snapshot.deadline = 0
  /\ policy = "swapped" => snapshot.gen > 0
  /\ snapshot.gen > 0 /\ policy # "swapped" /\ ~readiness.run_rejected
       => readiness.policy_bundle_ready
  /\ watcher.at = "armed" => snapshot.gen > 0

\* What PolicyInv reads.
policyReads == <<now, snapshot, policy, watcher, readiness.policy_bundle_ready,
                 readiness.policy_bundle_fresh, readiness.run_rejected>>

LEMMA PolicyInvUnread ==
  ASSUME PolicyInv, UNCHANGED policyReads
  PROVE  PolicyInv'
BY DEF PolicyInv, FlagsFollowSnapshot, is_fresh, policyReads

\* Writing revocation_ready leaves the policy flags alone.
LEMMA RevocationFlagOnly ==
  ASSUME StateTypeOK, NEW ready \in BOOLEAN, NEW base,
         set_revocation_ready(ready, base), UNCHANGED <<policy, watcher>>
  PROVE  UNCHANGED policyReads
BY DEF set_revocation_ready, StateTypeOK, ReadinessState, policyReads

\* A rejection, whoever makes it, clears both policy flags.
LEMMA RejectKeepsPolicyInv ==
  ASSUME TypeOK, PolicyInv, reject_run, UNCHANGED watcher,
         policy' = policy \/ policy' = "rejecting"
  PROVE  PolicyInv'
<1>1. /\ readiness'.run_rejected
      /\ ~readiness'.policy_bundle_ready
      /\ ~readiness'.policy_bundle_fresh
      /\ UNCHANGED <<now, snapshot>>
  BY DEF reject_run, TypeOK, StateTypeOK, ReadinessState
<1> QED BY <1>1 DEF PolicyInv, FlagsFollowSnapshot

\* Every step of the client keeps PolicyInv.
LEMMA StepPolicyInv ==
  ASSUME TypeOK, PolicyInv, Next
  PROVE  PolicyInv'
<1>0. /\ now \in Nat /\ snapshot \in Snapshot /\ readiness \in ReadinessState
      /\ StateTypeOK /\ watcher \in WatcherState
  BY DEF TypeOK, StateTypeOK, TaskTypeOK
<1>1. CASE PolicyConnect
  BY <1>1 DEF PolicyConnect, PolicyInv, FlagsFollowSnapshot, is_fresh, stateVars
<1>2. ASSUME NEW bundle \in Bundles, PolicyApply(bundle)
      PROVE  PolicyInv'
  <2>1. CASE bundle.present /\ compile_bundle(bundle)
    <3>1. /\ snapshot'.gen = snapshot.gen + 1 /\ snapshot'.gen > 0
          /\ policy' = "swapped" /\ UNCHANGED <<readiness, watcher>>
      BY <1>0, <1>2, <2>1 DEF PolicyApply, swap_snapshot, Snapshot
    <3> QED BY <3>1, <1>0 DEF PolicyInv, FlagsFollowSnapshot, Snapshot
  <2>2. CASE ~(bundle.present /\ compile_bundle(bundle))
    BY <1>2, <2>2, PolicyInvUnread DEF PolicyApply, stateVars, policyReads
  <2> QED BY <2>1, <2>2
<1>3. CASE PolicyAnnounce
  <2>1. policy = "swapped" /\ policy' = "streaming" /\ snapshot.gen > 0
        /\ UNCHANGED <<now, snapshot, watcher>>
    BY <1>3 DEF PolicyAnnounce, mark_policy_bundle_swapped, PolicyInv
  <2>2. CASE readiness.run_rejected
    <3>1. readiness' = readiness
      BY <1>3, <2>2 DEF PolicyAnnounce, mark_policy_bundle_swapped
    <3> QED BY <2>1, <2>2, <3>1 DEF PolicyInv, FlagsFollowSnapshot
  <2>3. CASE ~readiness.run_rejected
    <3>1. /\ readiness'.policy_bundle_ready /\ readiness'.policy_bundle_fresh
          /\ ~readiness'.run_rejected
      BY <1>0, <1>3, <2>3
      DEF PolicyAnnounce, mark_policy_bundle_swapped, ReadinessState
    <3> QED BY <2>1, <3>1 DEF PolicyInv, FlagsFollowSnapshot
  <2> QED BY <2>2, <2>3
<1>4. ASSUME NEW status \in Statuses, PolicyEnd(status)
      PROVE  PolicyInv'
  <2>1. CASE rejects_run(status)
    BY <1>4, <2>1, RejectKeepsPolicyInv DEF PolicyEnd
  <2>2. CASE ~rejects_run(status)
    BY <1>4, <2>2
    DEF PolicyEnd, PolicyInv, FlagsFollowSnapshot, is_fresh, stateVars
  <2> QED BY <2>1, <2>2
<1>5. CASE PolicyRetry
  BY <1>5 DEF PolicyRetry, PolicyInv, FlagsFollowSnapshot, is_fresh, stateVars
<1>6. CASE PolicyExit
  BY <1>6 DEF PolicyExit, PolicyInv, FlagsFollowSnapshot, is_fresh, stateVars
<1>7. CASE PolicyStop
  BY <1>7 DEF PolicyStop, PolicyInv, FlagsFollowSnapshot, is_fresh, stateVars
<1>8. Rearm.at = "armed" => snapshot.gen > 0
  BY DEF Rearm
<1>9. CASE WatcherNotified
  BY <1>8, <1>9
  DEF WatcherNotified, PolicyInv, FlagsFollowSnapshot, is_fresh, stateVars
<1>10. CASE WatcherDeadline
  <2>1. /\ policy # "swapped" /\ snapshot.gen > 0 /\ watcher' = Rearm
        /\ UNCHANGED <<now, snapshot, policy>>
    BY <1>10
    DEF WatcherDeadline, PolicyAwaits, refresh_policy_bundle_freshness, PolicyInv
  <2>2. /\ readiness'.policy_bundle_fresh
             = (~readiness.run_rejected /\ is_fresh(snapshot))
        /\ readiness'.run_rejected = readiness.run_rejected
        /\ readiness'.policy_bundle_ready = readiness.policy_bundle_ready
    BY <1>0, <1>10
    DEF WatcherDeadline, refresh_policy_bundle_freshness, ReadinessState
  <2> QED BY <2>1, <2>2, <1>8 DEF PolicyInv, FlagsFollowSnapshot, is_fresh
<1>11. CASE WatcherStop
  <2>1. watcher'.at # "armed"
    BY <1>0, <1>11 DEF WatcherStop, WatcherState
  <2> QED BY <1>11, <2>1
    DEF WatcherStop, PolicyInv, FlagsFollowSnapshot, is_fresh, stateVars
<1>12. CASE PublisherTake
  BY <1>12, PolicyInvUnread DEF PublisherTake, stateVars, policyReads
<1>13. ASSUME NEW gen \in publisher.writing, NEW ok \in BOOLEAN,
              PublisherWritten(gen, ok)
       PROVE  PolicyInv'
  BY <1>13, PolicyInvUnread DEF PublisherWritten, stateVars, policyReads
<1>14. CASE PublisherStop
  BY <1>14, PolicyInvUnread DEF PublisherStop, stateVars, policyReads
<1>15. CASE RevConnect
  BY <1>15, PolicyInvUnread DEF RevConnect, stateVars, policyReads
<1>16. ASSUME NEW set \in SUBSET Tokens, NEW good \in SUBSET Tokens,
              NEW bad \in BOOLEAN, RevReceive(set, good, bad)
       PROVE  PolicyInv'
  BY <1>16, PolicyInvUnread DEF RevReceive, stateVars, policyReads
<1>17. ASSUME NEW b \in Bits, RevInsertBit(b)
       PROVE  PolicyInv'
  BY <1>17, PolicyInvUnread DEF RevInsertBit, set_bit, taskVars, policyReads
<1>18. CASE RevAdded
  BY <1>18, PolicyInvUnread DEF RevAdded, stateVars, policyReads
<1>19. CASE RevApplied
  <2>1. UNCHANGED policyReads
    BY <1>0, <1>19, RevocationFlagOnly DEF RevApplied, stateVars, policyReads
  <2> QED BY <2>1, PolicyInvUnread
<1>20. ASSUME Disconnected PROVE PolicyInv'
  <2>1. UNCHANGED policyReads
    BY <1>0, <1>20, RevocationFlagOnly DEF Disconnected, stateVars, policyReads
  <2> QED BY <2>1, PolicyInvUnread
<1>21. CASE RevBadEvent
  BY <1>21, <1>20 DEF RevBadEvent
<1>22. ASSUME NEW status \in Statuses, RevEnd(status)
       PROVE  PolicyInv'
  BY <1>22, <1>20, RejectKeepsPolicyInv DEF RevEnd
<1>23. CASE RevRetry
  BY <1>23, PolicyInvUnread DEF RevRetry, stateVars, policyReads
<1>24. CASE RevExit
  BY <1>24, PolicyInvUnread DEF RevExit, stateVars, policyReads
<1>25. CASE RevStop
  BY <1>25, PolicyInvUnread DEF RevStop, stateVars, policyReads
<1>26. CASE AuditReject
  BY <1>26, RejectKeepsPolicyInv DEF AuditReject
<1>27. CASE AuditExit
  BY <1>27, PolicyInvUnread DEF AuditExit, stateVars, policyReads
<1>28. CASE Shutdown
  BY <1>28, PolicyInvUnread DEF Shutdown, stateVars, policyReads
<1>29. ASSUME NEW t \in Tokens, AuthorityRevoke(t) \/ AuthorityPurge(t)
       PROVE  PolicyInv'
  BY <1>29, PolicyInvUnread
  DEF AuthorityRevoke, AuthorityPurge, stateVars, policyReads
<1>30. CASE ClockTick
  <2>1. now' > now /\ UNCHANGED <<snapshot, readiness, policy, watcher>>
    BY <1>0, <1>30 DEF ClockTick, Tick, taskVars
  <2>2. now' \in Nat /\ snapshot.deadline \in Nat
    BY <1>0, <1>30 DEF ClockTick, Tick, Snapshot
  <2>3. now' < snapshot'.deadline => now < snapshot.deadline
    BY <1>0, <2>1, <2>2
  <2> QED BY <2>1, <2>3 DEF PolicyInv, FlagsFollowSnapshot, is_fresh
<1> QED
  BY <1>1, <1>2, <1>3, <1>4, <1>5, <1>6, <1>7, <1>9, <1>10, <1>11, <1>12,
     <1>13, <1>14, <1>15, <1>16, <1>17, <1>18, <1>19, <1>21, <1>22, <1>23,
     <1>24, <1>25, <1>26, <1>27, <1>28, <1>29, <1>30
  DEF Next, PolicyNext, WatcherNext, PublisherNext, RevNext

LEMMA PolicyInvariant == Spec => []PolicyInv
<1>1. Init => PolicyInv
  BY DEF Init, StateInit, PolicyInv, FlagsFollowSnapshot
<1>2. PolicyInv /\ UNCHANGED vars => PolicyInv'
  BY PolicyInvUnread DEF vars, stateVars, taskVars, policyReads
<1>3. TypeOK /\ PolicyInv /\ [Next]_vars => PolicyInv'
  BY <1>2, StepPolicyInv
<1> QED BY <1>1, <1>3, TypeCorrect, PTL DEF Spec

\* The flags follow the published snapshot, whichever of a swap, a deadline and
\* a rejection the tasks see first.
THEOREM FlagsCorrect == Spec => []FlagsFollowSnapshot
<1>1. PolicyInv => FlagsFollowSnapshot
  BY DEF PolicyInv
<1> QED BY <1>1, PolicyInvariant, PTL

-----------------------------------------------------------------------------
(* The revocation set.  What makes readiness sound is that the messages of a *)
(* stream lose only tokens the Authority purged, and that a set being        *)
(* applied leaves no token of it behind that is neither in the filter nor    *)
(* still to be added.                                                        *)

RevInv ==
  /\ rev.base \ revoked.purged \subseteq rev.last
  /\ rev.at = "applying" /\ ~rev.bad
       => \A t \in rev.last \ rev.todo : is_revoked(t)
  /\ rev.ready /\ rev.at \in {"streaming", "applying"}
       => \A t \in rev.base \ revoked.purged : is_revoked(t)
  /\ FailClosed /\ readiness.revocation_ready
       /\ rev.at \notin {"rejecting", "stopped"}
       => rev.ready /\ rev.at \in {"streaming", "applying"}

\* Only the revocation stream's own steps touch what RevInv reads.
LEMMA RevInvUnread ==
  ASSUME RevInv, UNCHANGED <<rev, revoked, bloom, readiness.revocation_ready>>
  PROVE  RevInv'
BY DEF RevInv, is_revoked

\* The operations on the policy flags leave revocation_ready alone.
LEMMA PolicyFlagsOnly ==
  ASSUME StateTypeOK,
         \/ mark_policy_bundle_swapped
         \/ refresh_policy_bundle_freshness
         \/ reject_run
  PROVE  UNCHANGED <<bloom, readiness.revocation_ready>>
BY DEF mark_policy_bundle_swapped, refresh_policy_bundle_freshness, reject_run,
       StateTypeOK, ReadinessState

\* Every step of the client keeps RevInv.
LEMMA StepRevInv ==
  ASSUME TypeOK, RevInv, Next
  PROVE  RevInv'
<1>0. StateTypeOK /\ rev \in RevState
      /\ revoked \in [all : SUBSET Tokens, purged : SUBSET Tokens]
  BY DEF TypeOK, TaskTypeOK
<1>1. CASE PolicyConnect
  BY <1>1, RevInvUnread DEF PolicyConnect, stateVars
<1>2. ASSUME NEW bundle \in Bundles, PolicyApply(bundle)
      PROVE  RevInv'
  BY <1>2, RevInvUnread DEF PolicyApply, swap_snapshot, stateVars
<1>3. CASE PolicyAnnounce
  BY <1>0, <1>3, PolicyFlagsOnly, RevInvUnread DEF PolicyAnnounce
<1>4. ASSUME NEW status \in Statuses, PolicyEnd(status)
      PROVE  RevInv'
  BY <1>0, <1>4, PolicyFlagsOnly, RevInvUnread DEF PolicyEnd, stateVars
<1>5. CASE PolicyRetry
  BY <1>5, RevInvUnread DEF PolicyRetry, stateVars
<1>6. CASE PolicyExit
  BY <1>6, RevInvUnread DEF PolicyExit, stateVars
<1>7. CASE PolicyStop
  BY <1>7, RevInvUnread DEF PolicyStop, stateVars
<1>9. CASE WatcherNotified
  BY <1>9, RevInvUnread DEF WatcherNotified, stateVars
<1>10. CASE WatcherDeadline
  BY <1>0, <1>10, PolicyFlagsOnly, RevInvUnread DEF WatcherDeadline
<1>11. CASE WatcherStop
  BY <1>11, RevInvUnread DEF WatcherStop, stateVars
<1>12. CASE PublisherTake
  BY <1>12, RevInvUnread DEF PublisherTake, stateVars
<1>13. ASSUME NEW gen \in publisher.writing, NEW ok \in BOOLEAN,
              PublisherWritten(gen, ok)
       PROVE  RevInv'
  BY <1>13, RevInvUnread DEF PublisherWritten, stateVars
<1>14. CASE PublisherStop
  BY <1>14, RevInvUnread DEF PublisherStop, stateVars
<1>15. CASE RevConnect
  <2>1. /\ rev'.at = "streaming" /\ rev'.ready = FALSE
        /\ rev'.base = revoked.all \ revoked.purged
        /\ rev'.last = revoked.all \ revoked.purged
        /\ UNCHANGED <<bloom, readiness, revoked>>
    BY <1>0, <1>15 DEF RevConnect, RevState, stateVars
  <2>2. ~(FailClosed /\ readiness.revocation_ready)
    BY <1>15 DEF RevConnect, RevInv
  <2> QED BY <2>1, <2>2 DEF RevInv
<1>16. ASSUME NEW set \in SUBSET Tokens, NEW good \in SUBSET Tokens,
              NEW bad \in BOOLEAN, RevReceive(set, good, bad)
       PROVE  RevInv'
  <2>1. PICK t \in Tokens \cup {NoToken} :
          rev' = [rev EXCEPT !.at = "applying", !.last = set, !.todo = good,
                             !.cur = t, !.bad = bad]
    BY <1>16 DEF RevReceive
  <2>2. /\ rev'.at = "applying" /\ rev'.last = set /\ rev'.todo = good
        /\ rev'.bad = bad /\ rev'.base = rev.base /\ rev'.ready = rev.ready
    BY <1>0, <2>1 DEF RevState
  <2>3. /\ rev.at = "streaming" /\ rev.last \ revoked.purged \subseteq set
        /\ ~bad => good = set
        /\ UNCHANGED <<bloom, readiness, revoked>>
    BY <1>16 DEF RevReceive, stateVars
  <2> QED BY <2>2, <2>3 DEF RevInv, is_revoked
<1>17. ASSUME NEW b \in Bits, RevInsertBit(b)
       PROVE  RevInv'
  <2>1. bloom \subseteq bloom' /\ UNCHANGED <<rev, readiness, revoked>>
    BY <1>17 DEF RevInsertBit, set_bit, taskVars
  <2> QED BY <2>1 DEF RevInv, is_revoked
<1>18. CASE RevAdded
  <2>1. PICK t \in rev.todo \cup {NoToken} :
          rev' = [rev EXCEPT !.todo = @ \ {rev.cur}, !.cur = t]
    BY <1>18 DEF RevAdded
  <2>2. /\ rev'.at = rev.at /\ rev'.last = rev.last /\ rev'.bad = rev.bad
        /\ rev'.todo = rev.todo \ {rev.cur} /\ rev'.base = rev.base
        /\ rev'.ready = rev.ready
    BY <1>0, <2>1 DEF RevState
  <2>3. is_revoked(rev.cur) /\ UNCHANGED <<bloom, readiness, revoked>>
    BY <1>18 DEF RevAdded, stateVars
  <2> QED BY <2>2, <2>3 DEF RevInv, is_revoked
<1>19. CASE RevApplied
  <2>1. /\ rev'.at = "streaming" /\ rev'.ready = TRUE
        /\ rev'.base = rev.base /\ rev'.last = rev.last
        /\ UNCHANGED <<bloom, revoked>>
    BY <1>0, <1>19 DEF RevApplied, RevState, set_revocation_ready, stateVars
  <2>2. \A t \in rev.base \ revoked.purged : is_revoked(t)
    BY <1>19 DEF RevApplied, RevInv
  <2> QED BY <2>1, <2>2 DEF RevInv, is_revoked
<1>20. ASSUME Disconnected PROVE RevInv'
  <2>1. /\ rev'.at = "backoff" /\ rev'.base = rev.base /\ rev'.last = rev.last
        /\ FailClosed => ~readiness'.revocation_ready
        /\ UNCHANGED revoked
    BY <1>0, <1>20
    DEF Disconnected, RevState, set_revocation_ready, StateTypeOK,
        ReadinessState
  <2> QED BY <2>1 DEF RevInv
<1>21. CASE RevBadEvent
  BY <1>21, <1>20 DEF RevBadEvent
<1>22. ASSUME NEW status \in Statuses, RevEnd(status)
       PROVE  RevInv'
  <2>1. CASE rejects_run(status)
    <3>1. /\ rev'.at = "rejecting" /\ rev'.base = rev.base
          /\ rev'.last = rev.last /\ UNCHANGED revoked
      BY <1>0, <1>22, <2>1 DEF RevEnd, RevState
    <3> QED BY <3>1 DEF RevInv
  <2>2. CASE ~rejects_run(status)
    BY <1>20, <1>22, <2>2 DEF RevEnd
  <2> QED BY <2>1, <2>2
<1>23. CASE RevRetry
  <2>1. /\ rev'.at = "connecting" /\ rev'.base = rev.base
        /\ rev'.last = rev.last /\ UNCHANGED <<readiness, revoked>>
    BY <1>0, <1>23 DEF RevRetry, RevState, stateVars
  <2>2. ~(FailClosed /\ readiness.revocation_ready)
    BY <1>23 DEF RevRetry, RevInv
  <2> QED BY <2>1, <2>2 DEF RevInv
<1>24. ASSUME RevExit \/ RevStop PROVE RevInv'
  <2>1. /\ rev'.at = "stopped" /\ rev'.base = rev.base /\ rev'.last = rev.last
        /\ UNCHANGED revoked
    BY <1>0, <1>24 DEF RevExit, RevStop, RevState
  <2> QED BY <2>1 DEF RevInv
<1>26. CASE AuditReject
  BY <1>0, <1>26, PolicyFlagsOnly, RevInvUnread DEF AuditReject
<1>27. CASE AuditExit
  BY <1>27, RevInvUnread DEF AuditExit, stateVars
<1>28. CASE Shutdown
  BY <1>28, RevInvUnread DEF Shutdown, stateVars
<1>29. ASSUME NEW t \in Tokens, AuthorityRevoke(t) \/ AuthorityPurge(t)
       PROVE  RevInv'
  <2>1. revoked.purged \subseteq revoked'.purged
    BY <1>0, <1>29 DEF AuthorityRevoke, AuthorityPurge
  <2>2. UNCHANGED <<rev, bloom, readiness>>
    BY <1>29 DEF AuthorityRevoke, AuthorityPurge, stateVars
  <2> QED BY <2>1, <2>2 DEF RevInv, is_revoked
<1>30. CASE ClockTick
  BY <1>30, RevInvUnread DEF ClockTick, Tick, taskVars
<1> QED
  BY <1>1, <1>2, <1>3, <1>4, <1>5, <1>6, <1>7, <1>9, <1>10, <1>11, <1>12,
     <1>13, <1>14, <1>15, <1>16, <1>17, <1>18, <1>19, <1>21, <1>22, <1>23,
     <1>24, <1>26, <1>27, <1>28, <1>29, <1>30
  DEF Next, PolicyNext, WatcherNext, PublisherNext, RevNext

LEMMA RevInvariant == Spec => []RevInv
<1>1. Init => RevInv
  BY DEF Init, StateInit, RevInv
<1>2. RevInv /\ UNCHANGED vars => RevInv'
  BY RevInvUnread DEF vars, stateVars, taskVars
<1>3. TypeOK /\ RevInv /\ [Next]_vars => RevInv'
  BY <1>2, StepRevInv
<1> QED BY <1>1, <1>3, TypeCorrect, PTL DEF Spec

-----------------------------------------------------------------------------
(* The client implements the contract of the shared state. *)

\* Each step of the client is a step of the contract or leaves the shared state
\* alone.  A bundle is marked or refreshed only after one was published
\* (PolicyInv), and readiness is granted for a set the filter holds (RevInv).
LEMMA StepImplementsState ==
  ASSUME TypeOK, PolicyInv, RevInv, Next
  PROVE  [StateNext]_stateVars
<1> USE DEF StateNext
<1>1. ASSUME NEW bundle \in Bundles, PolicyApply(bundle)
      PROVE  [StateNext]_stateVars
  <2>1. CASE bundle.present /\ compile_bundle(bundle)
    <3>1. bundle.ttl \in TTLs /\ swap_snapshot(bundle.ttl)
      BY <1>1, <2>1 DEF PolicyApply, Bundles, compile_bundle
    <3> QED BY <3>1
  <2>2. CASE ~(bundle.present /\ compile_bundle(bundle))
    BY <1>1, <2>2 DEF PolicyApply
  <2> QED BY <2>1, <2>2
<1>2. CASE PolicyAnnounce
  BY <1>2 DEF PolicyAnnounce, PolicyInv
<1>3. ASSUME NEW status \in Statuses, PolicyEnd(status)
      PROVE  [StateNext]_stateVars
  BY <1>3 DEF PolicyEnd
<1>4. CASE PolicyConnect \/ PolicyRetry \/ PolicyExit \/ PolicyStop
  BY <1>4 DEF PolicyConnect, PolicyRetry, PolicyExit, PolicyStop
<1>5. CASE WatcherDeadline
  BY <1>5 DEF WatcherDeadline, PolicyInv
<1>6. CASE WatcherNotified \/ WatcherStop
  BY <1>6 DEF WatcherNotified, WatcherStop
<1>7. CASE PublisherNext
  BY <1>7 DEF PublisherNext, PublisherTake, PublisherWritten, PublisherStop
<1>8. ASSUME NEW b \in Bits, RevInsertBit(b)
      PROVE  [StateNext]_stateVars
  BY <1>8 DEF RevInsertBit
<1>9. CASE RevApplied
  <2>1. CASE rev.ready
    BY <1>9, <2>1 DEF RevApplied
  <2>2. CASE ~rev.ready
    <3>1. rev.base \ revoked.purged \in SUBSET Tokens
      BY DEF TypeOK, TaskTypeOK, RevState
    <3>2. \A t \in rev.base \ revoked.purged : is_revoked(t)
      BY <1>9 DEF RevApplied, RevInv
    <3>3. set_revocation_ready(TRUE, rev.base \ revoked.purged)
      BY <1>9, <2>2 DEF RevApplied
    <3> QED BY <3>1, <3>2, <3>3
  <2> QED BY <2>1, <2>2
<1>10. ASSUME Disconnected PROVE [StateNext]_stateVars
  BY <1>10 DEF Disconnected
<1>11. CASE RevBadEvent
  BY <1>10, <1>11 DEF RevBadEvent
<1>12. ASSUME NEW status \in Statuses, RevEnd(status)
       PROVE  [StateNext]_stateVars
  BY <1>10, <1>12 DEF RevEnd
<1>13. ASSUME NEW set \in SUBSET Tokens, NEW good \in SUBSET Tokens,
              NEW bad \in BOOLEAN, RevReceive(set, good, bad)
       PROVE  [StateNext]_stateVars
  BY <1>13 DEF RevReceive
<1>14. CASE RevConnect \/ RevAdded \/ RevRetry \/ RevExit \/ RevStop
  BY <1>14 DEF RevConnect, RevAdded, RevRetry, RevExit, RevStop
<1>15. CASE AuditReject \/ AuditExit \/ Shutdown \/ ClockTick
  BY <1>15 DEF AuditReject, AuditExit, Shutdown, ClockTick
<1>16. ASSUME NEW t \in Tokens, AuthorityRevoke(t) \/ AuthorityPurge(t)
       PROVE  [StateNext]_stateVars
  BY <1>16 DEF AuthorityRevoke, AuthorityPurge
<1> HIDE DEF StateNext
<1> QED
  BY <1>1, <1>2, <1>3, <1>4, <1>5, <1>6, <1>7, <1>8, <1>9, <1>11, <1>12,
     <1>13, <1>14, <1>15, <1>16
  DEF Next, PolicyNext, WatcherNext, RevNext

LEMMA StutterImplementsState ==
  ASSUME TypeOK, PolicyInv, RevInv, [Next]_vars
  PROVE  [StateNext]_stateVars
<1>1. CASE UNCHANGED vars
  BY <1>1 DEF vars
<1> QED BY <1>1, StepImplementsState

\* Whatever the streams, the watcher, a rejection and a shutdown interleave to,
\* readers of the shared state see only what its contract allows.
THEOREM ClientImplementsState == Spec => ImplementsState
<1>1. Init => StateInit
  BY DEF Init
<1>2. TypeOK /\ PolicyInv /\ RevInv /\ [Next]_vars => [StateNext]_stateVars
  BY StutterImplementsState
<1> QED
  BY <1>1, <1>2, TypeCorrect, PolicyInvariant, RevInvariant, PTL
  DEF Spec, ImplementsState, StateSpec

\* While revocation_ready, the filter answers "revoked" for every token of the
\* set that made it so, and when disconnects fail closed that set is the one of
\* the stream now open.
THEOREM ReadinessCorrect == Spec => []ReadyHoldsAuthoritySet
<1>1. BaselineHeld /\ RevInv => ReadyHoldsAuthoritySet
  BY DEF BaselineHeld, RevInv, ReadyHoldsAuthoritySet
<1>2. Spec => []BaselineHeld
  BY ClientImplementsState, StateHoldsBaseline, PTL DEF ImplementsState
<1> QED BY <1>1, <1>2, RevInvariant, PTL

\* A rejected run stays rejected and is never ready or fresh again, also when a
\* bundle was being applied while another task rejected the run.
THEOREM RejectionIsTerminal == Spec => RejectionTerminal
<1> DEFINE Terminal ==
      readiness.run_rejected =>
        readiness'.run_rejected /\ ~fully_ready(readiness')
        /\ ~readiness'.policy_bundle_fresh
<1>1. ASSUME TypeOK, PolicyInv, PolicyInv', RevInv, [Next]_vars
      PROVE  Terminal
  <2>1. [StateNext]_stateVars
    BY <1>1, StutterImplementsState
  <2>2. readiness.run_rejected => readiness'.run_rejected
    BY <1>1, <2>1, StateKeepsRejection DEF TypeOK
  <2>3. readiness'.run_rejected => ~readiness'.policy_bundle_fresh
    BY <1>1 DEF PolicyInv, FlagsFollowSnapshot
  <2> QED BY <2>2, <2>3 DEF fully_ready
<1>2. TypeOK /\ PolicyInv /\ PolicyInv' /\ RevInv /\ [Next]_vars
        => [Terminal]_vars
  BY <1>1
<1>3. Spec => [][Terminal]_vars
  <2> HIDE DEF Terminal
  <2> QED BY <1>2, TypeCorrect, PolicyInvariant, RevInvariant, PTL DEF Spec
<1> QED BY <1>3 DEF RejectionTerminal

-----------------------------------------------------------------------------
(* The state file.  That it does not go back is not inductive: the write in *)
(* flight must be of the state taken last, which is not older than the file *)
(* nor newer than the channel and the snapshot.                             *)

FileInv ==
  /\ publisher.file <= publisher.seen
  /\ publisher.seen <= publisher.channel
  /\ publisher.channel <= snapshot.gen
  /\ publisher.writing \subseteq {publisher.seen}

\* Nobody but the policy task and the publisher touches the publisher, and only
\* a swap, which counts up, touches the snapshot.
LEMMA FileUntouched ==
  ASSUME TypeOK, FileInv, [Next]_vars,
         ~PolicyAnnounce, ~PublisherNext
  PROVE  publisher' = publisher /\ snapshot.gen <= snapshot'.gen
<1>1. publisher' = publisher
  BY DEF Next, PolicyNext, WatcherNext, RevNext, PolicyConnect, PolicyApply, PolicyEnd, PolicyRetry,
     PolicyExit, PolicyStop, WatcherNotified, WatcherDeadline, WatcherStop, RevConnect, RevReceive,
     RevInsertBit, RevAdded, RevApplied, RevBadEvent, RevEnd, Disconnected, RevRetry, RevExit, RevStop,
     AuditReject, AuditExit, Shutdown, AuthorityRevoke, AuthorityPurge, ClockTick, vars, taskVars
<1>2. \/ snapshot' = snapshot
      \/ \E bundle \in Bundles : swap_snapshot(bundle.ttl)
  BY DEF Next, PolicyNext, WatcherNext, RevNext, PolicyConnect, PolicyApply, PolicyEnd, PolicyRetry,
     PolicyExit, PolicyStop, WatcherNotified, WatcherDeadline, WatcherStop, RevConnect, RevReceive,
     RevInsertBit, RevAdded, RevApplied, RevBadEvent, RevEnd, Disconnected, RevRetry, RevExit, RevStop,
     AuditReject, AuditExit, Shutdown, AuthorityRevoke, AuthorityPurge, ClockTick, vars, stateVars,
     reject_run, refresh_policy_bundle_freshness, set_revocation_ready, set_bit, Tick
<1> QED BY <1>1, <1>2 DEF TypeOK, StateTypeOK, Snapshot, swap_snapshot

LEMMA StepFileInv ==
  ASSUME TypeOK, TypeOK', FileInv, [Next]_vars
  PROVE  FileInv' /\ publisher.file <= publisher'.file
<1>0. publisher \in PublisherState /\ snapshot.gen \in Nat
  BY DEF TypeOK, TaskTypeOK, StateTypeOK, Snapshot
<1> USE <1>0 DEF PublisherState, FileInv
<1>1. CASE PolicyAnnounce
  BY <1>1 DEF PolicyAnnounce, mark_policy_bundle_swapped
<1>2. CASE PublisherTake
  BY <1>2 DEF PublisherTake, stateVars
<1>3. ASSUME NEW gen \in publisher.writing, NEW ok \in BOOLEAN, PublisherWritten(gen, ok)
      PROVE  FileInv' /\ publisher.file <= publisher'.file
  BY <1>3 DEF PublisherWritten, stateVars
<1>4. CASE PublisherStop
  BY <1>4 DEF PublisherStop, stateVars
<1>5. CASE ~PolicyAnnounce /\ ~PublisherNext
  <2>1. publisher' = publisher /\ snapshot.gen <= snapshot'.gen /\ snapshot'.gen \in Nat
    BY <1>5, FileUntouched DEF TypeOK, StateTypeOK, Snapshot
  <2> QED BY <2>1
<1> QED BY <1>1, <1>2, <1>3, <1>4, <1>5 DEF PublisherNext

\* The state file moves forward through the published generations and is never
\* ahead of the snapshot requests are enforced with.
THEOREM FileMovesForward == Spec => FileNeverReorders
<1>1. Init => FileInv
  BY DEF Init, StateInit, FileInv
<1>2. TypeOK /\ TypeOK' /\ FileInv /\ [Next]_vars => FileInv'
  BY StepFileInv
<1>3. ASSUME TypeOK, TypeOK', FileInv, FileInv', [Next]_vars
      PROVE  publisher'.file >= publisher.file /\ publisher'.file <= snapshot'.gen
  BY <1>3, StepFileInv DEF FileInv, TypeOK, TaskTypeOK, PublisherState, StateTypeOK, Snapshot
<1>4. TypeOK /\ TypeOK' /\ FileInv /\ FileInv' /\ [Next]_vars
        => [publisher'.file >= publisher.file /\ publisher'.file <= snapshot'.gen]_vars
  BY <1>3
<1> QED BY <1>1, <1>2, <1>4, TypeCorrect, PTL DEF Spec, FileNeverReorders
=============================================================================
