------------------------------ MODULE Pipeline ------------------------------
(***************************************************************************)
(* One agent call through RequestHandler::handle and                       *)
(* EnforcementPipeline::enforce, interleaved with the other calls of the   *)
(* same session and with every change of the shared enforcement state.     *)
(*                                                                         *)
(* A call is a task of its own: each action below is the code between two  *)
(* reads or writes of state that others change, or between two awaits.     *)
(* The client may go away at any await, and hyper then drops the future.   *)
(***************************************************************************)
EXTENDS EnforcementState, Sequences

CONSTANTS
  Requests,  \* calls made by the agent, all in one session
  NoToken,   \* the capability map has no token for the call
  NoAgent,   \* no agent has been observed yet
  Expiry,    \* Expiry[t]: claims.expiry
  Agent,     \* Agent[t]: claims.agent_id
  PolicyOf   \* PolicyOf[g]: the verdict of generation g on these calls

Verdicts == {"Allow", "Modify", "Deny", "StepUp", "Defer"}

Decisions == Verdicts \cup {"Abort", "None"}

ASSUME PipelineAssumption ==
  /\ NoToken \notin Tokens
  /\ Expiry \in [Tokens -> Nat]
  /\ NoAgent \notin {Agent[t] : t \in Tokens}
  /\ PolicyOf \in [0..MaxGen -> Verdicts]

VARIABLES
  pc,       \* where each call is
  call,     \* what each call carries: its token, pin, count, parent, decision
  tenant,   \* first_agent_id of the capability validator
  session,  \* the session's record: action count, outcomes, provenance chain
  sent,     \* calls that reached a connector
  audits,   \* audit payloads the channel took for each call
  listening \* the signing adapter held the channel's receiver at the last send

callVars == <<pc, call, tenant, session, sent, audits, listening>>
vars == <<stateVars, callVars>>

Agents == {Agent[t] : t \in Tokens}

PCs == {"idle", "pinned", "admitted", "ready", "validated", "counted",
        "signalled", "evaluating", "admissible", "injecting", "concluding",
        "rehydrating", "dispatching", "responding", "done", "dropped"}

CallRecord ==
  [token : Tokens \cup {NoToken}, pin : Snapshot, known : SUBSET Tokens,
   count : Nat, parent : Requests \cup {"None"}, decision : Decisions]

AuditRecord == [decision : Decisions, version : Nat]

TypeOK ==
  /\ StateTypeOK
  /\ pc \in [Requests -> PCs]
  /\ call \in [Requests -> CallRecord]
  /\ tenant \in Agents \cup {NoAgent}
  /\ session \in [count : Nat, outcomes : Seq(Requests \X Verdicts), chain : Seq(Requests)]
  /\ sent \in SUBSET Requests
  /\ audits \in [Requests -> Seq(AuditRecord)]
  /\ listening \in BOOLEAN

Init ==
  /\ StateInit
  /\ pc = [r \in Requests |-> "idle"]
  /\ call = [r \in Requests |->
       [token |-> NoToken, pin |-> [gen |-> 0, deadline |-> 0], known |-> {},
        count |-> 0, parent |-> "None", decision |-> "None"]]
  /\ tenant = NoAgent
  /\ session = [count |-> 0, outcomes |-> <<>>, chain |-> <<>>]
  /\ sent = {}
  /\ audits = [r \in Requests |-> <<>>]
  /\ listening = TRUE

-----------------------------------------------------------------------------
Goto(r, at) == pc' = [pc EXCEPT ![r] = at]

\* Return a decision from enforce_inner; the final pin check comes next.
Return(r, decision) ==
  /\ Goto(r, "concluding")
  /\ call' = [call EXCEPT ![r].decision = decision]

Admits(decision) == decision \in {"Allow", "Modify"}

\* The decision of check_readiness: every flag but freshness.
check_readiness == fully_ready(readiness)

-----------------------------------------------------------------------------
(* EnforcementPipeline::enforce *)

\* The capability map gives the call its token, or none.
Pin(r, t) ==
  /\ pc[r] = "idle"
  /\ call' = [call EXCEPT ![r].token = t, ![r].pin = snapshot]
  /\ Goto(r, "pinned")
  /\ UNCHANGED <<stateVars, tenant, session, sent, audits, listening>>

\* pinned_generation_admission, then the pinned normalizer, which may not
\* know the request.
PinnedGenerationAdmission(r, normalizes) ==
  /\ pc[r] = "pinned"
  /\ IF check_readiness /\ is_fresh(call[r].pin) /\ normalizes
     THEN Goto(r, "admitted") /\ UNCHANGED call
     ELSE Return(r, "Deny")
  /\ UNCHANGED <<stateVars, tenant, session, sent, audits, listening>>

\* The readiness gate in front of capability validation.
CheckReadiness(r) ==
  /\ pc[r] = "admitted"
  /\ IF check_readiness
     THEN /\ Goto(r, "ready")
          /\ call' = [call EXCEPT ![r].known =
                        baseline \cup {t \in Tokens : is_revoked(t)}]
     ELSE Return(r, "Deny")
  /\ UNCHANGED <<stateVars, tenant, session, sent, audits, listening>>

\* Mutant: the revocation filter is not consulted.
Bug_RevocationSkipped(r) ==
  LET t == call[r].token
      valid == t \in Tokens /\ now < Expiry[t]
  IN  /\ pc[r] = "ready"
      /\ tenant' = IF valid /\ tenant = NoAgent THEN Agent[t] ELSE tenant
      /\ IF valid /\ tenant' = Agent[t]
         THEN Goto(r, "validated") /\ UNCHANGED call
         ELSE Return(r, "Deny")
      /\ UNCHANGED <<stateVars, session, sent, audits, listening>>

\* Mutant: every agent becomes the Sidecar's agent.
Bug_TenantReplaced(r) ==
  LET t == call[r].token
      valid == t \in Tokens /\ now < Expiry[t] /\ ~is_revoked(t)
  IN  /\ pc[r] = "ready"
      /\ tenant' = IF valid THEN Agent[t] ELSE tenant
      /\ IF valid THEN Goto(r, "validated") /\ UNCHANGED call
         ELSE Return(r, "Deny")
      /\ UNCHANGED <<stateVars, session, sent, audits, listening>>

\* CapabilityValidator::enforce: token, expiry, revocation, single tenancy.
ValidateCapability(r) ==
  LET t == call[r].token
      valid == t \in Tokens /\ now < Expiry[t] /\ ~is_revoked(t)
  IN  /\ pc[r] = "ready"
      /\ tenant' = IF valid /\ tenant = NoAgent THEN Agent[t] ELSE tenant
      /\ IF valid /\ tenant' = Agent[t]
         THEN Goto(r, "validated") /\ UNCHANGED call
         ELSE Return(r, "Deny")
      /\ UNCHANGED <<stateVars, session, sent, audits, listening>>

record_action(r) ==
  /\ pc[r] = "validated"
  /\ session' = [session EXCEPT !.count = @ + 1]
  /\ call' = [call EXCEPT ![r].count = session.count + 1]
  /\ Goto(r, "counted")
  /\ UNCHANGED <<stateVars, tenant, sent, audits, listening>>

\* Mutant: the count of the session's signals is used as it is.
Bug_CountFromSignals(r) ==
  /\ pc[r] = "counted"
  /\ call' = [call EXCEPT ![r].count = session.count]
  /\ Goto(r, "signalled")
  /\ UNCHANGED <<stateVars, tenant, session, sent, audits, listening>>

\* signals(), whose count is overwritten by the one record_action returned.
signals(r) ==
  /\ pc[r] = "counted"
  /\ call' = [call EXCEPT ![r].parent =
                IF session.chain = <<>> THEN "None"
                ELSE session.chain[Len(session.chain)]]
  /\ Goto(r, "signalled")
  /\ UNCHANGED <<stateVars, tenant, session, sent, audits, listening>>

record_outcome(r, outcome) ==
  session' = [session EXCEPT !.outcomes = Append(@, <<r, outcome>>)]

\* Stage 2 up to the evaluation: scope, availability, freshness of the pin.
EnterStage2(r, inScope) ==
  /\ pc[r] = "signalled"
  /\ IF inScope /\ is_fresh(call[r].pin)
     THEN Goto(r, "evaluating") /\ UNCHANGED <<call, session>>
     ELSE Return(r, "Deny") /\ record_outcome(r, "Deny")
  /\ UNCHANGED <<stateVars, tenant, sent, audits, listening>>

\* Mutant: the live policy is evaluated instead of the pinned one.
Bug_LivePolicy(r, verdict) ==
  /\ pc[r] = "evaluating"
  /\ verdict \in {PolicyOf[snapshot.gen], "Deny"}
  /\ record_outcome(r, verdict)
  /\ IF Admits(verdict)
     THEN /\ call' = [call EXCEPT ![r].decision = verdict]
          /\ Goto(r, "admissible")
     ELSE Return(r, verdict)
  /\ UNCHANGED <<stateVars, tenant, sent, audits, listening>>

\* The verdict of the pinned policy, or a timeout or an error, which deny.
EvaluateVerdict(r, verdict) ==
  /\ pc[r] = "evaluating"
  /\ verdict \in {PolicyOf[call[r].pin.gen], "Deny"}
  /\ record_outcome(r, verdict)
  /\ IF Admits(verdict)
     THEN /\ call' = [call EXCEPT ![r].decision = verdict]
          /\ Goto(r, "admissible")
     ELSE Return(r, verdict)
  /\ UNCHANGED <<stateVars, tenant, sent, audits, listening>>

advance_provenance(r) ==
  /\ pc[r] = "admissible"
  /\ session' = [session EXCEPT !.chain = Append(@, r)]
  /\ Goto(r, "injecting")
  /\ UNCHANGED <<stateVars, call, tenant, sent, audits, listening>>

\* The credential injector answers: credentials, none for the connector, or a
\* failure.
InjectCredentials(r, fetched) ==
  /\ pc[r] = "injecting"
  /\ IF fetched THEN Goto(r, "concluding") /\ UNCHANGED call
                ELSE Return(r, "Abort")
  /\ UNCHANGED <<stateVars, tenant, session, sent, audits, listening>>

\* Mutant: the pin is not checked again after the awaits.
Bug_PinNotRechecked(r) == call[r].decision

reject_expired_pin(r) ==
  IF Admits(call[r].decision) /\ ~is_fresh(call[r].pin)
  THEN "Deny" ELSE call[r].decision

Conclude(r) ==
  /\ pc[r] = "concluding"
  /\ call' = [call EXCEPT ![r].decision = reject_expired_pin(r)]
  /\ Goto(r, IF Admits(reject_expired_pin(r)) THEN "rehydrating"
             ELSE "responding")
  /\ UNCHANGED <<stateVars, tenant, session, sent, audits, listening>>

-----------------------------------------------------------------------------
(* RequestHandler::handle *)

\* Mutant: the gate does not look at the rejection of the run.
Bug_GateIgnoresRejection(r, rehydrated, blocked, applies) ==
  IF ~rehydrated THEN "Deny"
  ELSE IF blocked THEN "Abort"
  ELSE IF call[r].decision = "Modify" /\ ~applies THEN "Deny"
  ELSE call[r].decision

\* What pre_dispatch_gate and dispatch_modify make of the decision.
pre_dispatch_gate(r, rehydrated, blocked, applies) ==
  IF readiness.run_rejected \/ ~rehydrated THEN "Deny"
  ELSE IF blocked THEN "Abort"
  ELSE IF call[r].decision = "Modify" /\ ~applies THEN "Deny"
  ELSE call[r].decision

\* Rehydration has answered; the gate runs and the connector is called.
Gate(r, rehydrated, blocked, applies) ==
  LET decision == pre_dispatch_gate(r, rehydrated, blocked, applies)
  IN  /\ pc[r] = "rehydrating"
      /\ call' = [call EXCEPT ![r].decision = decision]
      /\ IF Admits(decision)
         THEN Goto(r, "dispatching") /\ sent' = sent \cup {r}
         ELSE Goto(r, "responding") /\ UNCHANGED sent
      /\ UNCHANGED <<stateVars, tenant, session, audits, listening>>

\* Mutant: a call that was sent and not delivered is reported as denied.
Bug_UndeliveredIsDenied(r, delivered) ==
  /\ pc[r] = "dispatching"
  /\ call' = [call EXCEPT ![r].decision = IF delivered THEN @ ELSE "Deny"]
  /\ Goto(r, "responding")
  /\ UNCHANGED <<stateVars, tenant, session, sent, audits, listening>>

\* The connector answers or times out, and the response's secrets are handled
\* or cannot be: the last two abort the call.
Dispatched(r, delivered) ==
  /\ pc[r] = "dispatching"
  /\ call' = [call EXCEPT ![r].decision = IF delivered THEN @ ELSE "Abort"]
  /\ Goto(r, "responding")
  /\ UNCHANGED <<stateVars, tenant, session, sent, audits, listening>>

\* The payload names the version of the pin.
audit_payload_from_decision(r) ==
  [decision |-> call[r].decision, version |-> call[r].pin.gen]

\* Since the last payload run_signing_adapter may have returned and dropped its
\* receiver: the Sidecar exits, as after a rejection of the run, or the sink has
\* ended.  Only the next send notices.
AdapterEnds == listening' \in {listening, FALSE}

\* The response is ready and its payload sent; a channel nobody listens to any
\* more refuses it, which is logged, and the call ends all the same.
emit_audit(r) ==
  /\ pc[r] = "responding"
  /\ AdapterEnds
  /\ audits' = IF listening'
               THEN [audits EXCEPT ![r] = Append(@, audit_payload_from_decision(r))]
               ELSE audits
  /\ Goto(r, "done")
  /\ UNCHANGED <<stateVars, call, tenant, session, sent>>

\* The client closed the connection while the call awaited.
ClientGone(r) ==
  /\ pc[r] \in {"evaluating", "injecting", "rehydrating", "dispatching",
                "responding"}
  /\ Goto(r, "dropped")
  /\ UNCHANGED <<stateVars, call, tenant, session, sent, audits, listening>>

-----------------------------------------------------------------------------
Enforce(r) ==
  \/ \E t \in Tokens \cup {NoToken} : Pin(r, t)
  \/ \E normalizes \in BOOLEAN : PinnedGenerationAdmission(r, normalizes)
  \/ CheckReadiness(r)
  \/ ValidateCapability(r)
  \/ record_action(r)
  \/ signals(r)
  \/ \E inScope \in BOOLEAN : EnterStage2(r, inScope)
  \/ \E verdict \in Verdicts : EvaluateVerdict(r, verdict)
  \/ advance_provenance(r)
  \/ \E fetched \in BOOLEAN : InjectCredentials(r, fetched)
  \/ Conclude(r)

Handle(r) ==
  \/ \E rehydrated, blocked, applies \in BOOLEAN :
       Gate(r, rehydrated, blocked, applies)
  \/ \E delivered \in BOOLEAN : Dispatched(r, delivered)
  \/ emit_audit(r)
  \/ ClientGone(r)

StateChanges == StateNext /\ UNCHANGED callVars

Next == StateChanges \/ \E r \in Requests : Enforce(r) \/ Handle(r)

Spec == Init /\ [][Next]_vars

-----------------------------------------------------------------------------
(* Properties *)

\* No call reaches a connector with a token that was known to be revoked when
\* the call passed its readiness gate: neither one already in the filter nor
\* one of the set that the Authority held when the stream opened.
RevokedNeverDispatched ==
  \A r \in sent : call[r].token \notin call[r].known

\* A call is dispatched, or audited as admitted, only under a generation that
\* admits it, and the audit names that generation: a snapshot swapped in while
\* the call ran lends it neither its verdict nor its version.
OneGenerationPerCall ==
  \A r \in Requests :
    /\ r \in sent => Admits(PolicyOf[call[r].pin.gen])
    /\ \A i \in DOMAIN audits[r] :
         Admits(audits[r][i].decision) => Admits(PolicyOf[audits[r][i].version])

\* A call is admitted only while its pin is fresh, however long the evaluation
\* or the credential injector took (snapshot.rs:12-13).
NoAdmissionOnExpiredPin ==
  [][\A r \in Requests :
       pc[r] # "rehydrating" /\ pc'[r] = "rehydrating"
         => is_fresh(call[r].pin)]_vars

\* Once the Authority has rejected the run no call reaches a connector, a call
\* that was admitted and then awaited rehydration included.
NoDispatchAfterRejection ==
  [][readiness.run_rejected => sent' = sent]_vars

\* The Sidecar serves one agent (capability_validation.rs:158-173): calls of
\* two agents racing for the first place are never both dispatched.
SingleTenant ==
  \A r, s \in sent : Agent[call[r].token] = Agent[call[s].token]

\* Each counted call is evaluated with a count of its own, also when another
\* call is counted before its signals are read (pipeline/mod.rs:438-442).
CountsAreDistinct ==
  \A r, s \in Requests :
    r # s /\ call[r].count > 0 => call[r].count # call[s].count

\* What the audit says of a finished call is what happened to it: admitted only
\* if it was dispatched, denied only if it was not.  A finished call has exactly
\* one payload unless the signing adapter had ended before it, whether other
\* calls were cancelled, aborted or rejected meanwhile.
AuditMatchesDispatch ==
  \A r \in Requests :
    pc[r] = "done" =>
      /\ Len(audits[r]) = 1 \/ (audits[r] = <<>> /\ ~listening)
      /\ \A i \in DOMAIN audits[r] :
           LET d == audits[r][i].decision
           IN  /\ Admits(d) => r \in sent
               /\ d \in {"Deny", "StepUp", "Defer"} => r \notin sent

=============================================================================
