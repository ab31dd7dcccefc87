--------------------------- MODULE PipelineProofs ---------------------------
(***************************************************************************)
(* What a call through the pipeline and the handler is promised, for any   *)
(* number of concurrent calls, tokens, agents and policy generations, and  *)
(* whatever the shared enforcement state does between their steps.         *)
(***************************************************************************)
EXTENDS Pipeline, SequenceTheorems, TLAPS

USE PipelineAssumption

-----------------------------------------------------------------------------
(* What the shared state promises its readers *)

\* A step of the contract keeps the types of the shared state.
LEMMA StateStepTyped ==
  ASSUME StateTypeOK, [StateNext]_stateVars
  PROVE  StateTypeOK'
<1> USE StateAssumption DEF StateTypeOK, Snapshot, ReadinessState
<1>1. CASE Tick BY <1>1 DEF Tick
<1>2. CASE \E ttl \in TTLs : swap_snapshot(ttl) BY <1>2 DEF swap_snapshot
<1>3. CASE mark_policy_bundle_swapped BY <1>3 DEF mark_policy_bundle_swapped
<1>4. CASE refresh_policy_bundle_freshness BY <1>4 DEF refresh_policy_bundle_freshness, is_fresh
<1>5. CASE reject_run BY <1>5 DEF reject_run
<1>6. CASE \/ set_revocation_ready(FALSE, baseline)
           \/ \E base \in SUBSET Tokens : set_revocation_ready(TRUE, base)
  BY <1>6 DEF set_revocation_ready
<1>7. CASE (\E b \in Bits : set_bit(b)) \/ UNCHANGED stateVars BY <1>7 DEF set_bit, stateVars
<1> QED BY <1>1, <1>2, <1>3, <1>4, <1>5, <1>6, <1>7 DEF StateNext

\* Bits of the filter are never cleared.
LEMMA FilterGrows ==
  ASSUME [StateNext]_stateVars
  PROVE  bloom \subseteq bloom'
BY DEF StateNext, stateVars, Tick, swap_snapshot, mark_policy_bundle_swapped,
       refresh_policy_bundle_freshness, reject_run, set_revocation_ready, set_bit

\* While revocations are ready, the filter holds the set that made them so.
BaselineHeld ==
  readiness.revocation_ready => \A t \in baseline : is_revoked(t)

LEMMA StepHoldsBaseline ==
  ASSUME StateTypeOK, BaselineHeld, [StateNext]_stateVars
  PROVE  BaselineHeld'
<1>1. bloom \subseteq bloom' BY FilterGrows
<1>2. \/ /\ readiness'.revocation_ready \in {readiness.revocation_ready, FALSE}
         /\ baseline' = baseline
      \/ \A t \in baseline' : is_revoked(t)
  BY DEF StateNext, stateVars, Tick, swap_snapshot, mark_policy_bundle_swapped,
       refresh_policy_bundle_freshness, reject_run, set_revocation_ready, set_bit,
         StateTypeOK, ReadinessState
<1> QED BY <1>1, <1>2 DEF BaselineHeld, is_revoked

-----------------------------------------------------------------------------
(***************************************************************************)
(* The inductive invariant.  None of the properties is inductive: each     *)
(* speaks of calls that were sent or audited, and what makes it true was   *)
(* established several awaits earlier.  So the invariant follows a call:   *)
(* up to its validation it admits nothing (EarlyInv); what it knew to be   *)
(* revoked when it passed the readiness gate is in the filter when it      *)
(* looks there (KnownInv); from its validation on its token is none of     *)
(* those and belongs to the one agent (PassedInv); from its verdict on its *)
(* pin admits it (VerdictInv); and what it will be audited as follows from *)
(* whether it was sent (SentInv, AuditInv).                                *)
(***************************************************************************)
Early == {"idle", "pinned", "admitted", "ready"}

Enforcing == {"validated", "counted", "signalled", "evaluating", "admissible", "injecting"}

\* A call that has passed validation and was not denied since.
Passed(r) == pc[r] \in Enforcing \/ Admits(call[r].decision) \/ r \in sent

EarlyInv(r) == pc[r] \in Early => ~Admits(call[r].decision)

KnownInv(r) == pc[r] = "ready" => \A t \in call[r].known : is_revoked(t)

PassedInv(r) ==
  Passed(r) =>
    /\ call[r].token \in Tokens
    /\ call[r].token \notin call[r].known
    /\ tenant = Agent[call[r].token]

VerdictInv(r) == Admits(call[r].decision) \/ r \in sent => Admits(PolicyOf[call[r].pin.gen])

\* A decision that matches what was sent.
Truthful(r, d) ==
  /\ Admits(d) => r \in sent
  /\ d \in {"Deny", "StepUp", "Defer"} => r \notin sent

SentInv(r) ==
  /\ r \in sent => pc[r] \in {"dispatching", "responding", "done", "dropped"}
  /\ pc[r] = "dispatching" => r \in sent /\ Admits(call[r].decision)
  /\ pc[r] = "responding" => Truthful(r, call[r].decision)

AuditInv(r) ==
  IF pc[r] # "done" THEN audits[r] = <<>>
  ELSE \/ audits[r] = <<>> /\ ~listening
       \/ \E d \in Decisions, v \in Nat :
            /\ audits[r] = <<[decision |-> d, version |-> v]>>
            /\ Truthful(r, d)
            /\ Admits(d) => Admits(PolicyOf[v])

CallInv(r) ==
  EarlyInv(r) /\ KnownInv(r) /\ PassedInv(r) /\ VerdictInv(r) /\ SentInv(r) /\ AuditInv(r)

\* The session's count is the largest that was given out.
CountInv ==
  /\ \A r \in Requests : call[r].count <= session.count
  /\ CountsAreDistinct

Inv == TypeOK /\ BaselineHeld /\ CountInv /\ \A r \in Requests : CallInv(r)

-----------------------------------------------------------------------------
(* Types *)

LEMMA InitTyped == Init => TypeOK
BY StateAssumption
DEF Init, TypeOK, StateInit, StateTypeOK, Snapshot, ReadinessState, CallRecord, PCs, Decisions

\* What the two ways to move on leave typed.
LEMMA GotoTyped ==
  ASSUME TypeOK, NEW r \in Requests, NEW at \in PCs, Goto(r, at)
  PROVE  /\ pc' \in [Requests -> PCs]
         /\ pc'[r] = at
         /\ \A s \in Requests \ {r} : pc'[s] = pc[s]
BY DEF TypeOK, Goto

LEMMA CallTyped ==
  ASSUME TypeOK, NEW r \in Requests, NEW c \in CallRecord, call' = [call EXCEPT ![r] = c]
  PROVE  /\ call' \in [Requests -> CallRecord]
         /\ call'[r] = c
         /\ \A s \in Requests \ {r} : call'[s] = call[s]
BY DEF TypeOK

LEMMA DecisionTyped ==
  ASSUME TypeOK, NEW r \in Requests, NEW d \in Decisions, call' = [call EXCEPT ![r].decision = d]
  PROVE  /\ call' \in [Requests -> CallRecord]
         /\ call'[r] = [call[r] EXCEPT !.decision = d]
         /\ \A s \in Requests \ {r} : call'[s] = call[s]
<1>1. call[r] \in CallRecord
  BY DEF TypeOK
<1>2. [call[r] EXCEPT !.decision = d] \in CallRecord
  BY <1>1 DEF CallRecord
<1>3. call' = [call EXCEPT ![r] = [call[r] EXCEPT !.decision = d]]
  OBVIOUS
<1> QED BY <1>2, <1>3, CallTyped

LEMMA ReturnTyped ==
  ASSUME TypeOK, NEW r \in Requests, NEW d \in Decisions, Return(r, d)
  PROVE  pc' \in [Requests -> PCs] /\ call' \in [Requests -> CallRecord]
BY GotoTyped, DecisionTyped DEF Return, PCs

LEMMA EnforceTyped ==
  ASSUME TypeOK, NEW r \in Requests, Enforce(r)
  PROVE  TypeOK'
<1>0. UNCHANGED stateVars
  BY DEF Enforce, Pin, PinnedGenerationAdmission, CheckReadiness, ValidateCapability,
     record_action, signals, EnterStage2, EvaluateVerdict, advance_provenance, InjectCredentials, Conclude
<1>a. StateTypeOK'
  BY <1>0, StateStepTyped DEF TypeOK
<1>b. {"pinned", "admitted", "ready", "validated", "counted", "signalled", "evaluating", "admissible",
       "injecting", "concluding", "rehydrating", "responding"} \subseteq PCs
  BY DEF PCs
<1>c. {"Deny", "Abort"} \subseteq Decisions /\ Verdicts \subseteq Decisions
  BY DEF Decisions, Verdicts
<1>d. StateTypeOK
  BY DEF TypeOK
<1>e. call[r] \in CallRecord
  BY DEF TypeOK
<1>1. ASSUME NEW t \in Tokens \cup {NoToken}, Pin(r, t) PROVE TypeOK'
  <2>1. [call[r] EXCEPT !.token = t, !.pin = snapshot] \in CallRecord
    BY <1>d, <1>e DEF StateTypeOK, CallRecord
  <2>2. call' = [call EXCEPT ![r] = [call[r] EXCEPT !.token = t, !.pin = snapshot]]
    BY <1>1 DEF Pin, TypeOK
  <2> QED BY <1>1, <1>a, <1>b, <2>1, <2>2, GotoTyped, CallTyped DEF Pin, TypeOK
<1>2. ASSUME NEW n \in BOOLEAN, PinnedGenerationAdmission(r, n) PROVE TypeOK'
  BY <1>a, <1>b, <1>c, <1>2, GotoTyped, ReturnTyped DEF PinnedGenerationAdmission, TypeOK
<1>3. CASE CheckReadiness(r)
  <2>1. CASE check_readiness
    <3>1. baseline \cup {t \in Tokens : is_revoked(t)} \subseteq Tokens
      BY <1>d DEF StateTypeOK
    <3>2. [call[r] EXCEPT !.known = baseline \cup {t \in Tokens : is_revoked(t)}] \in CallRecord
      BY <1>e, <3>1 DEF CallRecord
    <3> QED BY <1>3, <1>a, <1>b, <2>1, <3>2, GotoTyped, CallTyped DEF CheckReadiness, TypeOK
  <2>2. CASE ~check_readiness
    BY <1>3, <1>a, <1>c, <2>2, ReturnTyped DEF CheckReadiness, TypeOK
  <2> QED BY <2>1, <2>2
<1>4. CASE ValidateCapability(r)
  <2>1. tenant' \in Agents \cup {NoAgent}
    BY <1>4 DEF ValidateCapability, TypeOK, Agents
  <2> QED BY <1>4, <1>a, <1>b, <1>c, <2>1, GotoTyped, ReturnTyped DEF ValidateCapability, TypeOK
<1>5. CASE record_action(r)
  <2>1. session.count + 1 \in Nat
    BY DEF TypeOK
  <2>2. [call[r] EXCEPT !.count = session.count + 1] \in CallRecord
    BY <1>e, <2>1 DEF CallRecord
  <2> QED BY <1>5, <1>a, <1>b, <2>1, <2>2, GotoTyped, CallTyped DEF record_action, TypeOK
<1>6. CASE signals(r)
  <2> DEFINE parent == IF session.chain = <<>> THEN "None" ELSE session.chain[Len(session.chain)]
  <2>1. parent \in Requests \cup {"None"}
    BY DEF TypeOK
  <2>2. [call[r] EXCEPT !.parent = parent] \in CallRecord
    BY <1>e, <2>1 DEF CallRecord
  <2>3. call' = [call EXCEPT ![r] = [call[r] EXCEPT !.parent = parent]]
    BY <1>6 DEF signals
  <2> HIDE DEF parent
  <2> QED BY <1>6, <1>a, <1>b, <2>2, <2>3, GotoTyped, CallTyped DEF signals, TypeOK
<1>7. ASSUME NEW v \in Verdicts, record_outcome(r, v)
      PROVE  session' \in [count : Nat, outcomes : Seq(Requests \X Verdicts), chain : Seq(Requests)]
  <2>1. Append(session.outcomes, <<r, v>>) \in Seq(Requests \X Verdicts)
    BY DEF TypeOK
  <2> QED BY <1>7, <2>1 DEF record_outcome, TypeOK
<1>8. "Deny" \in Verdicts
  BY DEF Verdicts
<1>9. ASSUME NEW i \in BOOLEAN, EnterStage2(r, i) PROVE TypeOK'
  BY <1>a, <1>b, <1>c, <1>7, <1>8, <1>9, GotoTyped, ReturnTyped DEF EnterStage2, TypeOK
<1>10. ASSUME NEW v \in Verdicts, EvaluateVerdict(r, v) PROVE TypeOK'
  BY <1>a, <1>b, <1>c, <1>7, <1>10, GotoTyped, ReturnTyped, DecisionTyped DEF EvaluateVerdict, TypeOK
<1>11. CASE advance_provenance(r)
  <2>1. Append(session.chain, r) \in Seq(Requests)
    BY DEF TypeOK
  <2> QED BY <1>11, <1>a, <1>b, <2>1, GotoTyped DEF advance_provenance, TypeOK
<1>12. ASSUME NEW f \in BOOLEAN, InjectCredentials(r, f) PROVE TypeOK'
  BY <1>a, <1>b, <1>c, <1>12, GotoTyped, ReturnTyped DEF InjectCredentials, TypeOK
<1>13. CASE Conclude(r)
  <2>1. reject_expired_pin(r) \in Decisions
    BY <1>c DEF reject_expired_pin, TypeOK, CallRecord
  <2> QED BY <1>13, <1>a, <1>b, <2>1, GotoTyped, DecisionTyped DEF Conclude, TypeOK
<1> QED BY <1>1, <1>2, <1>3, <1>4, <1>5, <1>6, <1>9, <1>10, <1>11, <1>12, <1>13 DEF Enforce

LEMMA HandleTyped ==
  ASSUME TypeOK, NEW r \in Requests, Handle(r)
  PROVE  TypeOK'
<1>0. UNCHANGED stateVars
  BY DEF Handle, Gate, Dispatched, emit_audit, ClientGone
<1>a. StateTypeOK'
  BY <1>0, StateStepTyped DEF TypeOK
<1>b. {"dispatching", "responding", "done", "dropped"} \subseteq PCs
  BY DEF PCs
<1>c. call[r].decision \in Decisions /\ {"Deny", "Abort"} \subseteq Decisions
  BY DEF TypeOK, CallRecord, Decisions, Verdicts
<1>1. ASSUME NEW h \in BOOLEAN, NEW b \in BOOLEAN, NEW a \in BOOLEAN, Gate(r, h, b, a) PROVE TypeOK'
  <2>1. pre_dispatch_gate(r, h, b, a) \in Decisions
    BY <1>c DEF pre_dispatch_gate
  <2>2. call' \in [Requests -> CallRecord]
    BY <1>1, <2>1, DecisionTyped DEF Gate
  <2>3. pc' \in [Requests -> PCs] /\ sent' \subseteq Requests
    BY <1>1, <1>b, GotoTyped DEF Gate, TypeOK
  <2> QED BY <1>1, <1>a, <2>2, <2>3 DEF Gate, TypeOK
<1>2. ASSUME NEW d \in BOOLEAN, Dispatched(r, d) PROVE TypeOK'
  <2> DEFINE decision == IF d THEN call[r].decision ELSE "Abort"
  <2>1. decision \in Decisions
    BY <1>c
  <2>2. call' = [call EXCEPT ![r].decision = decision]
    BY <1>2 DEF Dispatched
  <2> HIDE DEF decision
  <2> QED BY <1>2, <1>a, <1>b, <2>1, <2>2, GotoTyped, DecisionTyped DEF Dispatched, TypeOK
<1>3. CASE emit_audit(r)
  <2>1. audit_payload_from_decision(r) \in AuditRecord
    BY DEF audit_payload_from_decision, AuditRecord, TypeOK, CallRecord, Snapshot
  <2>2. audits' \in [Requests -> Seq(AuditRecord)]
    BY <1>3, <2>1 DEF emit_audit, TypeOK
  <2> QED BY <1>3, <1>a, <1>b, <2>2, GotoTyped DEF emit_audit, AdapterEnds, TypeOK
<1>4. CASE ClientGone(r)
  BY <1>a, <1>b, <1>4, GotoTyped DEF ClientGone, TypeOK
<1> QED BY <1>1, <1>2, <1>3, <1>4 DEF Handle

LEMMA TypeStep == TypeOK /\ [Next]_vars => TypeOK'
<1> SUFFICES ASSUME TypeOK, [Next]_vars PROVE TypeOK'
  OBVIOUS
<1>1. CASE StateChanges
  BY <1>1, StateStepTyped DEF StateChanges, callVars, TypeOK
<1>2. CASE UNCHANGED vars
  BY <1>2, StateStepTyped DEF vars, callVars, TypeOK
<1> QED BY <1>1, <1>2, EnforceTyped, HandleTyped DEF Next

\* The calls and the shared state are well typed, whatever interleaves.
THEOREM PipelineTyped == Spec => []TypeOK
BY InitTyped, TypeStep, PTL DEF Spec

-----------------------------------------------------------------------------
(* A step of one call leaves the others what they were *)

\* What the invariant of a call reads, besides the shared state: nothing of it
\* changes when another call moves, except that the first agent may be set and
\* the signing adapter may end.
LEMMA OtherCalls ==
  ASSUME Inv, NEW s \in Requests,
         pc'[s] = pc[s], call'[s] = call[s], audits'[s] = audits[s], s \in sent' <=> s \in sent,
         bloom \subseteq bloom', tenant # NoAgent => tenant' = tenant, listening' => listening
  PROVE  CallInv(s)'
<1>0. CallInv(s)
  BY DEF Inv
<1>1. EarlyInv(s)' /\ VerdictInv(s)' /\ SentInv(s)' /\ AuditInv(s)'
  BY <1>0 DEF CallInv, EarlyInv, VerdictInv, SentInv, AuditInv, Truthful
<1>2. KnownInv(s)'
  BY <1>0 DEF CallInv, KnownInv, is_revoked
<1>3. PassedInv(s)'
  BY <1>0 DEF CallInv, PassedInv, Passed
<1> QED BY <1>1, <1>2, <1>3 DEF CallInv

\* Every step of a call either keeps the first agent or is the first to set it.
LEMMA TenantKept ==
  ASSUME NEW r \in Requests, Enforce(r) \/ Handle(r)
  PROVE  tenant # NoAgent => tenant' = tenant
BY DEF Enforce, Pin, PinnedGenerationAdmission, CheckReadiness, ValidateCapability,
   record_action, signals, EnterStage2, EvaluateVerdict, advance_provenance, InjectCredentials, Conclude,
   Handle, Gate, Dispatched, emit_audit, ClientGone

\* No call opens the audit channel again.
LEMMA ChannelKept ==
  ASSUME NEW r \in Requests, Enforce(r) \/ Handle(r)
  PROVE  listening' => listening
BY DEF Enforce, Pin, PinnedGenerationAdmission, CheckReadiness, ValidateCapability,
   record_action, signals, EnterStage2, EvaluateVerdict, advance_provenance, InjectCredentials, Conclude,
   Handle, Gate, Dispatched, emit_audit, AdapterEnds, ClientGone

LEMMA CallsApart ==
  ASSUME TypeOK, NEW r \in Requests, Enforce(r) \/ Handle(r), NEW s \in Requests \ {r}
  PROVE  pc'[s] = pc[s] /\ call'[s] = call[s] /\ audits'[s] = audits[s] /\ (s \in sent' <=> s \in sent)
<1> USE DEF TypeOK, Goto, Return
<1>1. CASE Enforce(r)
  <2>1. pc'[s] = pc[s]
    BY <1>1 DEF Enforce, Pin, PinnedGenerationAdmission, CheckReadiness, ValidateCapability, record_action,
       signals, EnterStage2, EvaluateVerdict, advance_provenance, InjectCredentials, Conclude
  <2>2. call'[s] = call[s]
    BY <1>1 DEF Enforce, Pin, PinnedGenerationAdmission, CheckReadiness, ValidateCapability, record_action,
       signals, EnterStage2, EvaluateVerdict, advance_provenance, InjectCredentials, Conclude
  <2>3. UNCHANGED <<audits, sent>>
    BY <1>1 DEF Enforce, Pin, PinnedGenerationAdmission, CheckReadiness, ValidateCapability, record_action,
       signals, EnterStage2, EvaluateVerdict, advance_provenance, InjectCredentials, Conclude
  <2> QED BY <2>1, <2>2, <2>3
<1>2. CASE Handle(r)
  BY <1>2 DEF Handle, Gate, Dispatched, emit_audit, ClientGone
<1> QED BY <1>1, <1>2

LEMMA StateOfCalls ==
  ASSUME NEW r \in Requests, Enforce(r) \/ Handle(r)
  PROVE  UNCHANGED stateVars
BY DEF Enforce, Pin, PinnedGenerationAdmission, CheckReadiness, ValidateCapability,
   record_action, signals, EnterStage2, EvaluateVerdict, advance_provenance, InjectCredentials, Conclude,
   Handle, Gate, Dispatched, emit_audit, ClientGone

-----------------------------------------------------------------------------
(* The call that moves *)

\* What a decision that admits nothing leaves to show.
LEMMA ReturnInv ==
  ASSUME Inv, NEW r \in Requests, NEW d \in Decisions, ~Admits(d), Return(r, d),
         UNCHANGED <<sent, audits>>, pc[r] \in Early \cup Enforcing
  PROVE  CallInv(r)'
<1>0. TypeOK /\ CallInv(r)
  BY DEF Inv
<1>1. call'[r].decision = d /\ pc'[r] = "concluding"
  BY <1>0, DecisionTyped, GotoTyped DEF Return, PCs, TypeOK, CallRecord
<1>2. r \notin sent
  BY <1>0 DEF CallInv, SentInv, Early, Enforcing
<1>3. audits'[r] = <<>>
  BY <1>0 DEF CallInv, AuditInv, Early, Enforcing
<1> QED BY <1>1, <1>2, <1>3
        DEF CallInv, EarlyInv, KnownInv, PassedInv, Passed, Enforcing, Early, VerdictInv, SentInv, AuditInv

\* A call that moves on without a decision keeps what it has; what is left to
\* show is what its new place asks for.
LEMMA MovesOn ==
  ASSUME Inv, NEW r \in Requests, NEW at \in Early \cup Enforcing, Goto(r, at),
         call'[r].decision = call[r].decision, call'[r].pin = call[r].pin,
         pc[r] \in Early \cup Enforcing, UNCHANGED <<sent, audits>>,
         at \in Enforcing \/ ~Admits(call[r].decision),
         KnownInv(r)', PassedInv(r)'
  PROVE  CallInv(r)'
<1>0. TypeOK /\ CallInv(r) /\ at \in PCs
  BY DEF Inv, PCs, Early, Enforcing
<1>1. pc'[r] = at
  BY <1>0, GotoTyped
<1>2. r \notin sent /\ audits'[r] = <<>>
  BY <1>0 DEF CallInv, SentInv, AuditInv, Early, Enforcing
<1>3. EarlyInv(r)'
  BY <1>0, <1>1 DEF CallInv, EarlyInv, Early, Enforcing
<1>4. VerdictInv(r)'
  BY <1>0, <1>2 DEF CallInv, VerdictInv
<1>5. SentInv(r)' /\ AuditInv(r)'
  BY <1>1, <1>2 DEF SentInv, AuditInv, Early, Enforcing
<1> QED BY <1>3, <1>4, <1>5 DEF CallInv

LEMMA EnforceInv ==
  ASSUME Inv, NEW r \in Requests, Enforce(r)
  PROVE  CallInv(r)'
<1>0. TypeOK /\ CallInv(r) /\ call[r] \in CallRecord /\ pc[r] \in PCs
  BY DEF Inv, TypeOK
<1>a. {"Deny", "Abort"} \subseteq Decisions /\ ~Admits("Deny") /\ ~Admits("Abort")
  BY DEF Decisions, Admits, Verdicts
<1>b. UNCHANGED stateVars
  BY StateOfCalls
<1>c. pc[r] \in Early => ~Passed(r)
  BY <1>0 DEF CallInv, EarlyInv, SentInv, Passed, Early, Enforcing
<1>1. ASSUME NEW t \in Tokens \cup {NoToken}, Pin(r, t) PROVE CallInv(r)'
  <2>1. call'[r] = [call[r] EXCEPT !.token = t, !.pin = snapshot] /\ pc'[r] = "pinned"
    BY <1>0, <1>1 DEF Pin, Goto, TypeOK
  <2>2. call'[r].decision = call[r].decision
    BY <1>0, <2>1 DEF CallRecord
  <2>3. ~Admits(call[r].decision) /\ r \notin sent /\ audits[r] = <<>>
    BY <1>0, <1>1 DEF Pin, CallInv, EarlyInv, SentInv, AuditInv, Early
  <2> QED BY <1>1, <2>1, <2>2, <2>3
          DEF Pin, CallInv, EarlyInv, KnownInv, PassedInv, Passed, Enforcing, VerdictInv, SentInv, AuditInv
<1>2. ASSUME NEW n \in BOOLEAN, PinnedGenerationAdmission(r, n) PROVE CallInv(r)'
  <2>1. CASE Goto(r, "admitted") /\ UNCHANGED call
    <3>1. pc'[r] = "admitted"
      BY <1>0, <2>1 DEF Goto, TypeOK
    <3>2. PassedInv(r)' /\ KnownInv(r)' /\ ~Admits(call[r].decision)
      BY <1>2, <1>c, <2>1, <3>1
      DEF PinnedGenerationAdmission, PassedInv, Passed, KnownInv, Early, Enforcing
    <3> QED BY <1>2, <2>1, <3>2, MovesOn DEF PinnedGenerationAdmission, Early
  <2>2. CASE Return(r, "Deny")
    BY <1>2, <1>a, <2>2, ReturnInv DEF PinnedGenerationAdmission, Early
  <2> QED BY <1>2, <2>1, <2>2 DEF PinnedGenerationAdmission
<1>3. CASE CheckReadiness(r)
  <2>1. CASE check_readiness
    <3>1. call'[r] = [call[r] EXCEPT !.known = baseline \cup {t \in Tokens : is_revoked(t)}]
          /\ pc'[r] = "ready"
      BY <1>0, <1>3, <2>1 DEF CheckReadiness, Goto, TypeOK
    <3>2. /\ call'[r].decision = call[r].decision
          /\ call'[r].pin = call[r].pin
          /\ call'[r].known = baseline \cup {t \in Tokens : is_revoked(t)}
      BY <1>0, <3>1 DEF CallRecord
    <3>3. \A t \in call'[r].known : is_revoked(t)
      BY <2>1, <3>2 DEF Inv, BaselineHeld, check_readiness, fully_ready
    <3>4. KnownInv(r)'
      BY <1>b, <3>3 DEF KnownInv, is_revoked, stateVars
    <3>5. PassedInv(r)' /\ ~Admits(call[r].decision)
      BY <1>3, <1>c, <3>1, <3>2 DEF CheckReadiness, PassedInv, Passed, Early, Enforcing
    <3> QED BY <1>3, <2>1, <3>2, <3>4, <3>5, MovesOn DEF CheckReadiness, Early
  <2>2. CASE ~check_readiness
    BY <1>3, <1>a, <2>2, ReturnInv DEF CheckReadiness, Early
  <2> QED BY <2>1, <2>2
<1>4. CASE ValidateCapability(r)
  <2>1. CASE Goto(r, "validated") /\ UNCHANGED call /\ call[r].token \in Tokens /\ ~is_revoked(call[r].token)
             /\ tenant' = Agent[call[r].token]
    <3>1. pc'[r] = "validated"
      BY <1>0, <2>1 DEF Goto, TypeOK
    <3>2. call[r].token \notin call[r].known
      BY <1>0, <1>4, <2>1 DEF ValidateCapability, CallInv, KnownInv
    <3>3. PassedInv(r)' /\ KnownInv(r)'
      BY <2>1, <3>1, <3>2 DEF PassedInv, KnownInv
    <3> QED BY <1>4, <2>1, <3>3, MovesOn DEF ValidateCapability, Early, Enforcing
  <2>2. CASE Return(r, "Deny")
    BY <1>4, <1>a, <2>2, ReturnInv DEF ValidateCapability, Early
  <2> QED BY <1>4, <2>1, <2>2 DEF ValidateCapability
<1>5. CASE record_action(r)
  <2>1. call'[r] = [call[r] EXCEPT !.count = session.count + 1] /\ pc'[r] = "counted"
    BY <1>0, <1>5 DEF record_action, Goto, TypeOK
  <2>2. /\ call'[r].decision = call[r].decision /\ call'[r].pin = call[r].pin
        /\ call'[r].token = call[r].token /\ call'[r].known = call[r].known
    BY <1>0, <2>1 DEF CallRecord
  <2>3. PassedInv(r)' /\ KnownInv(r)'
    BY <1>0, <1>5, <2>1, <2>2 DEF record_action, CallInv, PassedInv, Passed, Enforcing, KnownInv
  <2> QED BY <1>5, <2>2, <2>3, MovesOn DEF record_action, Enforcing
<1>6. CASE signals(r)
  <2> DEFINE parent == IF session.chain = <<>> THEN "None" ELSE session.chain[Len(session.chain)]
  <2>1. call'[r] = [call[r] EXCEPT !.parent = parent] /\ pc'[r] = "signalled"
    BY <1>0, <1>6 DEF signals, Goto, TypeOK
  <2> HIDE DEF parent
  <2>2. /\ call'[r].decision = call[r].decision /\ call'[r].pin = call[r].pin
        /\ call'[r].token = call[r].token /\ call'[r].known = call[r].known
    BY <1>0, <2>1 DEF CallRecord
  <2>3. PassedInv(r)' /\ KnownInv(r)'
    BY <1>0, <1>6, <2>1, <2>2 DEF signals, CallInv, PassedInv, Passed, Enforcing, KnownInv
  <2> QED BY <1>6, <2>2, <2>3, MovesOn DEF signals, Enforcing
<1>7. ASSUME NEW i \in BOOLEAN, EnterStage2(r, i) PROVE CallInv(r)'
  <2>1. CASE Goto(r, "evaluating") /\ UNCHANGED call
    <3>1. pc'[r] = "evaluating"
      BY <1>0, <2>1 DEF Goto, TypeOK
    <3>2. PassedInv(r)' /\ KnownInv(r)'
      BY <1>0, <1>7, <2>1, <3>1 DEF EnterStage2, CallInv, PassedInv, Passed, Enforcing, KnownInv
    <3> QED BY <1>7, <2>1, <3>2, MovesOn DEF EnterStage2, Enforcing
  <2>2. CASE Return(r, "Deny")
    BY <1>7, <1>a, <2>2, ReturnInv DEF EnterStage2, Enforcing
  <2> QED BY <1>7, <2>1, <2>2 DEF EnterStage2
<1>8. ASSUME NEW v \in Verdicts, EvaluateVerdict(r, v) PROVE CallInv(r)'
  <2>0. v \in Decisions
    BY DEF Decisions
  <2>1. CASE Admits(v)
    <3>1. call'[r] = [call[r] EXCEPT !.decision = v] /\ pc'[r] = "admissible"
      BY <1>0, <1>8, <2>1 DEF EvaluateVerdict, Goto, TypeOK
    <3>2. /\ call'[r].decision = v /\ call'[r].pin = call[r].pin
          /\ call'[r].token = call[r].token /\ call'[r].known = call[r].known
      BY <1>0, <3>1 DEF CallRecord
    <3>3. Admits(PolicyOf[call[r].pin.gen])
      BY <1>8, <1>a, <2>1 DEF EvaluateVerdict
    <3>4. PassedInv(r)' /\ KnownInv(r)'
      BY <1>0, <1>8, <3>1, <3>2 DEF EvaluateVerdict, CallInv, PassedInv, Passed, Enforcing, KnownInv
    <3>5. r \notin sent /\ audits[r] = <<>>
      BY <1>0, <1>8 DEF EvaluateVerdict, CallInv, SentInv, AuditInv
    <3> QED BY <1>8, <3>1, <3>2, <3>3, <3>4, <3>5
            DEF EvaluateVerdict, CallInv, EarlyInv, Early, VerdictInv, SentInv, AuditInv
  <2>2. CASE ~Admits(v)
    BY <1>8, <2>0, <2>2, ReturnInv DEF EvaluateVerdict, Enforcing
  <2> QED BY <2>1, <2>2
<1>9. CASE advance_provenance(r)
  <2>1. pc'[r] = "injecting"
    BY <1>0, <1>9 DEF advance_provenance, Goto, TypeOK
  <2>2. PassedInv(r)' /\ KnownInv(r)'
    BY <1>0, <1>9, <2>1 DEF advance_provenance, CallInv, PassedInv, Passed, Enforcing, KnownInv
  <2> QED BY <1>9, <2>2, MovesOn DEF advance_provenance, Enforcing
<1>10. ASSUME NEW f \in BOOLEAN, InjectCredentials(r, f) PROVE CallInv(r)'
  <2>1. CASE Goto(r, "concluding") /\ UNCHANGED call
    <3>1. pc'[r] = "concluding"
      BY <1>0, <2>1 DEF Goto, TypeOK
    <3> QED BY <1>0, <1>10, <2>1, <3>1
            DEF InjectCredentials, CallInv, EarlyInv, Early, KnownInv, PassedInv, Passed, Enforcing,
                VerdictInv, SentInv, AuditInv
  <2>2. CASE Return(r, "Abort")
    BY <1>10, <1>a, <2>2, ReturnInv DEF InjectCredentials, Enforcing
  <2> QED BY <1>10, <2>1, <2>2 DEF InjectCredentials
<1>11. CASE Conclude(r)
  <2> DEFINE d == reject_expired_pin(r)
  <2>0. d \in Decisions /\ (Admits(d) => d = call[r].decision)
    BY <1>0, <1>a DEF reject_expired_pin, CallRecord
  <2>1. call'[r] = [call[r] EXCEPT !.decision = d]
        /\ pc'[r] = IF Admits(d) THEN "rehydrating" ELSE "responding"
    BY <1>0, <1>11 DEF Conclude, Goto, TypeOK
  <2> HIDE DEF d
  <2>2. /\ call'[r].decision = d /\ call'[r].pin = call[r].pin
        /\ call'[r].token = call[r].token /\ call'[r].known = call[r].known
    BY <1>0, <2>0, <2>1 DEF CallRecord
  <2>3. r \notin sent /\ audits[r] = <<>>
    BY <1>0, <1>11 DEF Conclude, CallInv, SentInv, AuditInv
  <2> QED BY <1>0, <1>11, <2>0, <2>1, <2>2, <2>3
          DEF Conclude, CallInv, EarlyInv, Early, KnownInv, PassedInv, Passed, Enforcing, VerdictInv,
              SentInv, Truthful, AuditInv
<1> QED BY <1>1, <1>2, <1>3, <1>4, <1>5, <1>6, <1>7, <1>8, <1>9, <1>10, <1>11 DEF Enforce

LEMMA HandleInv ==
  ASSUME Inv, NEW r \in Requests, Handle(r)
  PROVE  CallInv(r)'
<1>0. TypeOK /\ CallInv(r) /\ call[r] \in CallRecord /\ pc[r] \in PCs
  BY DEF Inv, TypeOK
<1>1. ASSUME NEW h \in BOOLEAN, NEW b \in BOOLEAN, NEW a \in BOOLEAN, Gate(r, h, b, a) PROVE CallInv(r)'
  <2> DEFINE d == pre_dispatch_gate(r, h, b, a)
  <2>0. Admits(d) => d = call[r].decision
    BY DEF pre_dispatch_gate, Admits
  <2>1. call'[r] = [call[r] EXCEPT !.decision = d]
    BY <1>0, <1>1 DEF Gate, TypeOK
  <2>2. pc'[r] = IF Admits(d) THEN "dispatching" ELSE "responding"
    BY <1>0, <1>1 DEF Gate, Goto, TypeOK
  <2>3. r \notin sent /\ audits[r] = <<>> /\ audits' = audits /\ tenant' = tenant /\ pc[r] = "rehydrating"
    BY <1>0, <1>1 DEF Gate, CallInv, SentInv, AuditInv
  <2>4. r \in sent' <=> Admits(d)
    BY <1>1, <2>3 DEF Gate
  <2> HIDE DEF d
  <2>5. /\ call'[r].decision = d /\ call'[r].pin = call[r].pin
        /\ call'[r].token = call[r].token /\ call'[r].known = call[r].known
    BY <1>0, <2>1 DEF CallRecord
  <2> QED BY <1>0, <2>0, <2>2, <2>3, <2>4, <2>5
          DEF CallInv, EarlyInv, Early, KnownInv, PassedInv, Passed, Enforcing, VerdictInv,
              SentInv, Truthful, AuditInv
<1>2. ASSUME NEW v \in BOOLEAN, Dispatched(r, v) PROVE CallInv(r)'
  <2> DEFINE d == IF v THEN call[r].decision ELSE "Abort"
  <2>1. call'[r] = [call[r] EXCEPT !.decision = d] /\ pc'[r] = "responding"
    BY <1>0, <1>2 DEF Dispatched, Goto, TypeOK
  <2>2. r \in sent /\ Admits(call[r].decision) /\ audits[r] = <<>>
    BY <1>0, <1>2 DEF Dispatched, CallInv, SentInv, AuditInv
  <2>3. d \notin {"Deny", "StepUp", "Defer"}
    BY <2>2 DEF Admits
  <2> HIDE DEF d
  <2>4. /\ call'[r].decision = d /\ call'[r].pin = call[r].pin
        /\ call'[r].token = call[r].token /\ call'[r].known = call[r].known
    BY <1>0, <2>1 DEF CallRecord
  <2> QED BY <1>0, <1>2, <2>1, <2>2, <2>3, <2>4
          DEF Dispatched, CallInv, EarlyInv, Early, KnownInv, PassedInv, Passed, VerdictInv,
              SentInv, Truthful, AuditInv
<1>3. CASE emit_audit(r)
  <2> DEFINE d == call[r].decision
             v == call[r].pin.gen
  <2>1. d \in Decisions /\ v \in Nat
    BY <1>0 DEF CallRecord, Snapshot
  <2>2. audits[r] = <<>> /\ Truthful(r, d) /\ (Admits(d) => Admits(PolicyOf[v]))
    BY <1>0, <1>3 DEF emit_audit, CallInv, SentInv, AuditInv, VerdictInv
  <2>3. audits'[r] = IF listening' THEN <<[decision |-> d, version |-> v]>> ELSE <<>>
    BY <1>0, <1>3, <2>2 DEF emit_audit, audit_payload_from_decision, TypeOK
  <2>4. pc'[r] = "done"
    BY <1>0, <1>3 DEF emit_audit, Goto, TypeOK
  <2>5. AuditInv(r)'
    BY <1>3, <2>1, <2>2, <2>3, <2>4 DEF emit_audit, AuditInv, Truthful
  <2> QED BY <1>0, <1>3, <2>4, <2>5
          DEF emit_audit, CallInv, EarlyInv, Early, KnownInv, PassedInv, Passed, Enforcing, VerdictInv, SentInv
<1>4. CASE ClientGone(r)
  <2>1. pc'[r] = "dropped"
    BY <1>0, <1>4 DEF ClientGone, Goto, TypeOK
  <2> QED BY <1>0, <1>4, <2>1
          DEF ClientGone, CallInv, EarlyInv, Early, KnownInv, PassedInv, Passed, Enforcing, VerdictInv,
              SentInv, AuditInv
<1> QED BY <1>1, <1>2, <1>3, <1>4 DEF Handle

\* Only record_action gives a count, and the next one.
LEMMA CountStep ==
  ASSUME Inv, NEW r \in Requests, Enforce(r) \/ Handle(r)
  PROVE  CountInv'
<1>0. TypeOK /\ CountInv /\ call[r] \in CallRecord /\ \A s \in Requests : call[s].count \in Nat
  BY DEF Inv, TypeOK, CallRecord
<1>1. \A s \in Requests \ {r} : call'[s] = call[s]
  BY <1>0, CallsApart
<1>2. CASE record_action(r)
  <2>1. call'[r] = [call[r] EXCEPT !.count = session.count + 1]
    BY <1>0, <1>2 DEF record_action, TypeOK
  <2>2. call'[r].count = session.count + 1
    BY <1>0, <2>1 DEF CallRecord
  <2>3. session'.count = session.count + 1 /\ session.count \in Nat
    BY <1>0, <1>2 DEF record_action, TypeOK
  <2> QED BY <1>0, <1>1, <2>2, <2>3 DEF CountInv, CountsAreDistinct
<1>3. CASE ~record_action(r)
  <2>1. call'[r].count = call[r].count
    <3>1. \/ call' = call
          \/ \E t, p : call' = [call EXCEPT ![r] = [call[r] EXCEPT !.token = t, !.pin = p]]
          \/ \E k : call' = [call EXCEPT ![r] = [call[r] EXCEPT !.known = k]]
          \/ \E p : call' = [call EXCEPT ![r] = [call[r] EXCEPT !.parent = p]]
          \/ \E d : call' = [call EXCEPT ![r] = [call[r] EXCEPT !.decision = d]]
      <4>1. ASSUME NEW t \in Tokens \cup {NoToken}, Pin(r, t)
            PROVE  call' = [call EXCEPT ![r] = [call[r] EXCEPT !.token = t, !.pin = snapshot]]
        BY <1>0, <4>1 DEF Pin, TypeOK
      <4> QED
        BY <1>3, <4>1 DEF Return, Enforce, PinnedGenerationAdmission, CheckReadiness, ValidateCapability,
         signals, EnterStage2, EvaluateVerdict, advance_provenance, InjectCredentials, Conclude,
         Handle, Gate, Dispatched, emit_audit, ClientGone
    <3>2. call \in [Requests -> CallRecord]
      BY <1>0 DEF TypeOK
    <3>3. ASSUME NEW t, NEW p, call' = [call EXCEPT ![r] = [call[r] EXCEPT !.token = t, !.pin = p]]
          PROVE  call'[r].count = call[r].count
      BY <1>0, <3>2, <3>3 DEF CallRecord
    <3>4. ASSUME NEW k, call' = [call EXCEPT ![r] = [call[r] EXCEPT !.known = k]]
          PROVE  call'[r].count = call[r].count
      BY <1>0, <3>2, <3>4 DEF CallRecord
    <3>5. ASSUME NEW p, call' = [call EXCEPT ![r] = [call[r] EXCEPT !.parent = p]]
          PROVE  call'[r].count = call[r].count
      BY <1>0, <3>2, <3>5 DEF CallRecord
    <3>6. ASSUME NEW d, call' = [call EXCEPT ![r] = [call[r] EXCEPT !.decision = d]]
          PROVE  call'[r].count = call[r].count
      BY <1>0, <3>2, <3>6 DEF CallRecord
    <3> QED BY <3>1, <3>3, <3>4, <3>5, <3>6, ZenonT(60)
  <2>2. session'.count = session.count
    BY <1>0, <1>3 DEF Enforce, Pin, PinnedGenerationAdmission, CheckReadiness, ValidateCapability,
       signals, EnterStage2, EvaluateVerdict, record_outcome, advance_provenance, InjectCredentials, Conclude,
       Handle, Gate, Dispatched, emit_audit, ClientGone, TypeOK
  <2>3. \A s \in Requests : call'[s].count = call[s].count
    BY <1>1, <2>1, Zenon
  <2>4. /\ \A s \in Requests : call[s].count <= session.count
        /\ CountsAreDistinct
    BY <1>0 DEF CountInv
  <2> QED BY <2>2, <2>3, <2>4, Zenon DEF CountInv, CountsAreDistinct
<1> QED BY <1>2, <1>3

-----------------------------------------------------------------------------
(* The invariant and the theorems *)

LEMMA InvInit == Init => Inv
<1> SUFFICES ASSUME Init PROVE Inv
  OBVIOUS
<1>1. TypeOK /\ BaselineHeld
  BY InitTyped DEF Init, StateInit, BaselineHeld
<1>2. CountInv
  BY DEF Init, CountInv, CountsAreDistinct
<1>3. ASSUME NEW r \in Requests PROVE CallInv(r)
  BY DEF Init, CallInv, EarlyInv, KnownInv, PassedInv, Passed, Enforcing, VerdictInv, SentInv, AuditInv, Admits
<1> QED BY <1>1, <1>2, <1>3 DEF Inv

LEMMA InvStep == Inv /\ [Next]_vars => Inv'
<1> SUFFICES ASSUME Inv, [Next]_vars PROVE Inv'
  OBVIOUS
<1>0. TypeOK /\ StateTypeOK /\ BaselineHeld /\ CountInv
  BY DEF Inv, TypeOK
<1>1. TypeOK'
  BY <1>0, TypeStep
<1>2. CASE [StateNext]_stateVars /\ UNCHANGED callVars
  <2>1. bloom \subseteq bloom' /\ BaselineHeld'
    BY <1>0, <1>2, FilterGrows, StepHoldsBaseline
  <2>2. \A s \in Requests : CallInv(s)'
    BY <1>0, <1>2, <2>1, OtherCalls DEF callVars
  <2>3. CountInv'
    BY <1>0, <1>2 DEF CountInv, CountsAreDistinct, callVars
  <2> QED BY <1>1, <2>1, <2>2, <2>3 DEF Inv
<1>3. ASSUME NEW r \in Requests, Enforce(r) \/ Handle(r) PROVE Inv'
  <2>1. UNCHANGED stateVars
    BY <1>3, StateOfCalls
  <2>2. BaselineHeld'
    BY <1>0, <2>1, StepHoldsBaseline
  <2>3. bloom \subseteq bloom'
    BY <2>1 DEF stateVars
  <2>4. ASSUME NEW s \in Requests \ {r} PROVE CallInv(s)'
    BY <1>0, <1>3, <2>3, CallsApart, TenantKept, ChannelKept, OtherCalls
  <2>5. CallInv(r)'
    BY <1>3, EnforceInv, HandleInv
  <2> QED BY <1>1, <1>3, <2>2, <2>4, <2>5, CountStep DEF Inv
<1> QED BY <1>2, <1>3 DEF Next, StateChanges, vars

LEMMA InvAlways == Spec => []Inv
BY InvInit, InvStep, PTL DEF Spec

\* No call reaches a connector with a token it had to know as revoked, however
\* long before its dispatch it looked, for any calls, tokens and hash.
THEOREM RevokedNotSent == Spec => []RevokedNeverDispatched
<1>1. Inv => RevokedNeverDispatched
  BY DEF Inv, TypeOK, CallInv, PassedInv, Passed, RevokedNeverDispatched
<1> QED BY <1>1, InvAlways, PTL

\* A call is sent, or audited as admitted, only under a generation that admits
\* it, for any number of generations swapped in meanwhile.
THEOREM OneGeneration == Spec => []OneGenerationPerCall
<1>1. ASSUME Inv, NEW r \in Requests
      PROVE  /\ r \in sent => Admits(PolicyOf[call[r].pin.gen])
             /\ \A i \in DOMAIN audits[r] :
                  Admits(audits[r][i].decision) => Admits(PolicyOf[audits[r][i].version])
  <2>1. CallInv(r)
    BY <1>1 DEF Inv
  <2>2. r \in sent => Admits(PolicyOf[call[r].pin.gen])
    BY <2>1 DEF CallInv, VerdictInv
  <2>3. CASE pc[r] # "done"
    BY <2>1, <2>2, <2>3 DEF CallInv, AuditInv
  <2>4. CASE pc[r] = "done"
    <3>1. CASE audits[r] = <<>>
      BY <2>2, <3>1
    <3>2. CASE audits[r] # <<>>
      <4>1. PICK d \in Decisions, v \in Nat : /\ audits[r] = <<[decision |-> d, version |-> v]>>
                                              /\ Admits(d) => Admits(PolicyOf[v])
        BY <2>1, <2>4, <3>2 DEF CallInv, AuditInv
      <4>2. DOMAIN audits[r] = {1} /\ audits[r][1].decision = d /\ audits[r][1].version = v
        BY <4>1
      <4> QED BY <2>2, <4>1, <4>2
    <3> QED BY <3>1, <3>2
  <2> QED BY <2>3, <2>4
<1>2. Inv => OneGenerationPerCall
  BY <1>1 DEF OneGenerationPerCall
<1> QED BY <1>2, InvAlways, PTL

\* Calls of two agents are never both sent, however they race for the first
\* place.
THEOREM OneTenant == Spec => []SingleTenant
<1>1. Inv => SingleTenant
  BY DEF Inv, TypeOK, CallInv, PassedInv, Passed, SingleTenant
<1> QED BY <1>1, InvAlways, PTL

\* No two calls of the session are evaluated with one count.
THEOREM CountsDiffer == Spec => []CountsAreDistinct
<1>1. Inv => CountsAreDistinct
  BY DEF Inv, CountInv
<1> QED BY <1>1, InvAlways, PTL

\* A finished call has one payload, which says whether it was sent, or none if
\* the signing adapter ended before it did.
THEOREM AuditIsTruthful == Spec => []AuditMatchesDispatch
<1>1. ASSUME Inv, NEW r \in Requests, pc[r] = "done"
      PROVE  /\ Len(audits[r]) = 1 \/ (audits[r] = <<>> /\ ~listening)
             /\ \A i \in DOMAIN audits[r] : Truthful(r, audits[r][i].decision)
  <2>1. AuditInv(r)
    BY <1>1 DEF Inv, CallInv
  <2>2. CASE audits[r] = <<>> /\ ~listening
    BY <2>2
  <2>3. CASE \E d \in Decisions, v \in Nat : audits[r] = <<[decision |-> d, version |-> v]>> /\ Truthful(r, d)
    <3>1. PICK d \in Decisions, v \in Nat : audits[r] = <<[decision |-> d, version |-> v]>> /\ Truthful(r, d)
      BY <2>3
    <3>2. Len(audits[r]) = 1 /\ DOMAIN audits[r] = {1} /\ audits[r][1].decision = d
      BY <3>1
    <3> QED BY <3>1, <3>2
  <2> QED BY <1>1, <2>1, <2>2, <2>3 DEF AuditInv
<1>2. Inv => AuditMatchesDispatch
  BY <1>1 DEF AuditMatchesDispatch, Truthful
<1> QED BY <1>2, InvAlways, PTL

\* No step admits a call whose pin has expired.
THEOREM AdmittedWhileFresh == Spec => NoAdmissionOnExpiredPin
<1>1. ASSUME Inv, [Next]_vars, NEW r \in Requests, pc[r] # "rehydrating", pc'[r] = "rehydrating"
      PROVE  is_fresh(call[r].pin)
  <2>0. TypeOK
    BY <1>1 DEF Inv
  <2>1. PICK s \in Requests : Enforce(s) \/ Handle(s)
    BY <1>1 DEF Next, StateChanges, callVars, vars
  <2>2. s = r
    BY <1>1, <2>0, <2>1, CallsApart
  <2>3. Conclude(r)
    BY <1>1, <2>0, <2>1, <2>2
    DEF TypeOK, Goto, Return, Enforce, Pin, PinnedGenerationAdmission, CheckReadiness, ValidateCapability,
        record_action, signals, EnterStage2, EvaluateVerdict, advance_provenance, InjectCredentials,
        Handle, Gate, Dispatched, emit_audit, ClientGone
  <2>4. Admits(reject_expired_pin(r))
    BY <1>1, <2>0, <2>3 DEF Conclude, Goto, TypeOK
  <2> QED BY <2>4 DEF reject_expired_pin, Admits
<1>2. Inv /\ [Next]_vars =>
        [\A r \in Requests :
           pc[r] # "rehydrating" /\ pc'[r] = "rehydrating" => is_fresh(call[r].pin)]_vars
  BY <1>1
<1> QED BY <1>2, InvAlways, PTL DEF Spec, NoAdmissionOnExpiredPin

\* No step sends a call once the run is rejected.
THEOREM RejectedSendsNothing == Spec => NoDispatchAfterRejection
<1>1. ASSUME [Next]_vars, readiness.run_rejected PROVE sent' = sent
  <2>1. ASSUME NEW r \in Requests, NEW h \in BOOLEAN, NEW b \in BOOLEAN, NEW a \in BOOLEAN, Gate(r, h, b, a)
        PROVE  sent' = sent
    BY <1>1, <2>1 DEF Gate, pre_dispatch_gate, Admits
  <2> QED
    BY <1>1, <2>1
    DEF Next, StateChanges, callVars, vars, Enforce, Pin, PinnedGenerationAdmission, CheckReadiness,
        ValidateCapability, record_action, signals, EnterStage2, EvaluateVerdict, advance_provenance,
        InjectCredentials, Conclude, Handle, Dispatched, emit_audit, ClientGone
<1> QED BY <1>1, PTL DEF Spec, NoDispatchAfterRejection
=============================================================================
