----------------------------- MODULE Composite ------------------------------
(***************************************************************************)
(* An atomic Composio request: EnforcementPipeline::enforce_composite and  *)
(* RequestHandler::handle_composio_actions.  The actions of the request    *)
(* are evaluated one after the other under one pinned snapshot, while the  *)
(* shared state changes; the request is dispatched once or not at all, and *)
(* every action is audited.                                                *)
(*                                                                         *)
(* The stages of one action are those of Pipeline; here an action passes   *)
(* the readiness gate, has the token that the capability map selects for   *)
(* it validated, and concludes (verdict, credentials, pin).                *)
(***************************************************************************)
EXTENDS EnforcementState, Sequences, SequencesExt

CONSTANTS
  NoToken,     \* the capability map has no token for the action, or one that
               \* fails another check than that of its revocation
  Credentials, \* header sets the credential injector may return
  NoCred,      \* no credentials: the action was not admitted
  MaxActions   \* bound: actions of the request

ASSUME CompositeAssumption ==
  /\ NoToken \notin Tokens
  /\ NoCred \notin Credentials
  /\ MaxActions \in Nat

Decisions == {"Allow", "Modify", "Deny", "StepUp", "Defer", "Abort"}

VARIABLES
  pc,        \* where the request is
  actions,   \* number of decoded actions
  pin,       \* the pinned snapshot
  admitted,  \* managed_transport_admission accepted the request
  token,     \* the token of the action under evaluation
  children,  \* CompositeActionResult of the actions evaluated so far
  blocker,   \* blocker_index, from 1; 0: the request may be dispatched
  sent,      \* times the connector was called
  emitted,   \* children whose payload was sent
  audits,    \* audit payloads the channel took, in order
  listening, \* the signing adapter holds the channel's receiver
  known,     \* tokens known to be revoked when the action under evaluation
             \* passed the readiness gate (history)
  concluded  \* the clock when the last action concluded (history)

batchVars == <<pc, actions, pin, admitted, token, children, blocker, sent,
               emitted, audits, listening, known, concluded>>
vars == <<stateVars, batchVars>>

\* The decision of an action, its credentials, the decision its audit payload
\* reports, and whether its token was known to be revoked (history).
Child == [decision : Decisions, cred : Credentials \cup {NoCred},
          audit : Decisions, revoked : BOOLEAN]

TypeOK ==
  /\ StateTypeOK
  /\ pc \in {"idle", "next", "ready", "evaluating", "dispatching", "auditing",
             "done", "dropped"}
  /\ actions \in 0..MaxActions
  /\ pin \in Snapshot
  /\ admitted \in BOOLEAN
  /\ token \in Tokens \cup {NoToken}
  /\ children \in Seq(Child) /\ Len(children) <= actions + 1
  /\ blocker \in 0..Len(children)
  /\ sent \in {0, 1}
  /\ emitted \in 0..Len(children)
  /\ audits \in Seq(Decisions) /\ Len(audits) <= emitted
  /\ listening \in BOOLEAN
  /\ known \in SUBSET Tokens
  /\ concluded \in Nat

Init ==
  /\ StateInit
  /\ pc = "idle" /\ actions \in 0..MaxActions
  /\ pin = snapshot /\ admitted = FALSE /\ token = NoToken
  /\ children = <<>> /\ blocker = 0
  /\ sent = 0 /\ emitted = 0 /\ audits = <<>> /\ listening = TRUE
  /\ known = {} /\ concluded = 0

-----------------------------------------------------------------------------
Denied(revoked) ==
  [decision |-> "Deny", cred |-> NoCred, audit |-> "Deny", revoked |-> revoked]

\* The pin, the empty request and managed_transport_admission.
Begin(normalizes) ==
  /\ pc = "idle"
  /\ pin' = snapshot
  /\ admitted' = (fully_ready(readiness) /\ is_fresh(snapshot) /\ normalizes)
  /\ IF actions = 0
     THEN children' = <<Denied(FALSE)>> /\ blocker' = 1 /\ pc' = "auditing"
     ELSE pc' = "next" /\ UNCHANGED <<children, blocker>>
  /\ UNCHANGED <<stateVars, actions, token, sent, emitted, audits, listening,
                 known, concluded>>

\* The next action: the admission of the request and the readiness gate.
ActionBegin ==
  /\ pc = "next"
  /\ Len(children) < actions
  /\ IF admitted /\ fully_ready(readiness)
     THEN /\ pc' = "ready"
          /\ known' = baseline \cup {t \in Tokens : is_revoked(t)}
          /\ UNCHANGED children
     ELSE children' = Append(children, Denied(FALSE)) /\ UNCHANGED <<pc, known>>
  /\ UNCHANGED <<stateVars, actions, pin, admitted, token, blocker, sent,
                 emitted, audits, listening, concluded>>

\* What the capability check of an action with token t comes to.
Validated(t, valid) ==
  /\ pc = "ready"
  /\ IF valid
     THEN pc' = "evaluating" /\ token' = t /\ UNCHANGED <<children, known>>
     ELSE /\ pc' = "next"
          /\ children' = Append(children, Denied(t \in known))
          /\ known' = {}
          /\ UNCHANGED token
  /\ UNCHANGED <<stateVars, actions, pin, admitted, blocker, sent, emitted,
                 audits, listening, concluded>>

\* Mutant: the token is validated for the first action only.
Bug_ValidatedOnce(t) ==
  Validated(t, t # NoToken /\ (children # <<>> \/ ~is_revoked(t)))

\* CapabilityValidator::enforce for the token selected for this action, from a
\* map that may have been reloaded since the one before.
ValidateCapability(t) == Validated(t, t # NoToken /\ ~is_revoked(t))

reject_expired_pin(decision) ==
  IF decision \in {"Allow", "Modify"} /\ ~is_fresh(pin) THEN "Deny" ELSE decision

\* The policy and the credential injector have answered.
ActionConclude(verdict, cred) ==
  LET d == reject_expired_pin(verdict)
  IN  /\ pc = "evaluating"
      /\ (cred # NoCred) <=> (verdict \in {"Allow", "Modify"})
      /\ children' = Append(children,
                       [decision |-> d, audit |-> d,
                        cred |-> IF d = verdict THEN cred ELSE NoCred,
                        revoked |-> token \in known])
      /\ concluded' = now
      /\ pc' = "next"
      /\ token' = NoToken /\ known' = {}
      /\ UNCHANGED <<stateVars, actions, pin, admitted, blocker, sent, emitted,
                     audits, listening>>

-----------------------------------------------------------------------------
(* The transport disposition *)

Positions(cs, D) == {i \in DOMAIN cs : cs[i].decision \in D}
First(S) == CHOOSE i \in S : \A j \in S : i <= j

Blockers(cs) == Positions(cs, Decisions \ {"Allow"})

\* Mutant: credentials are not compared.
Bug_CredentialsIgnored(cs) == FALSE

admitted_credentials_disagree(cs) ==
  \E i, j \in DOMAIN cs :
    /\ {cs[i].decision, cs[j].decision} \subseteq {"Allow", "Modify"}
    /\ cs[i].cred # cs[j].cred

AtomicAbort(c) == [c EXCEPT !.decision = "Abort", !.audit = "Abort"]

Rewrite(cs, D) ==
  [i \in DOMAIN cs |-> IF cs[i].decision \in D THEN AtomicAbort(cs[i]) ELSE cs[i]]

\* The action whose decision answers the request: an operational abort before
\* any other blocker.
BlockerOf(cs) ==
  LET aborts == Positions(cs, {"Abort"})
  IN  First(IF aborts # {} THEN aborts ELSE Blockers(cs))

\* Mutant: the siblings of a blocked action keep their decision.
Bug_SiblingsKept(cs) == cs

\* The siblings of a blocked action do not stay admitted.
Aborted(cs) ==
  IF Positions(cs, {"Abort"}) # {}
  THEN Rewrite(cs, {"Allow", "Modify"})
  ELSE Rewrite(cs, {"Allow"})

Settle ==
  /\ pc = "next"
  /\ Len(children) = actions
  /\ \/ /\ Blockers(children) = {}
        /\ ~admitted_credentials_disagree(children)
        /\ sent' = sent + 1
        /\ pc' = "dispatching"
        /\ UNCHANGED <<children, blocker>>
     \/ /\ Blockers(children) = {}
        /\ admitted_credentials_disagree(children)
        /\ children' = Rewrite(children, {"Allow"})
        /\ blocker' = 1
        /\ pc' = "auditing"
        /\ UNCHANGED sent
     \/ /\ Blockers(children) # {}
        /\ children' = Aborted(children)
        /\ blocker' = BlockerOf(children)
        /\ pc' = "auditing"
        /\ UNCHANGED sent
  /\ UNCHANGED <<stateVars, actions, pin, admitted, token, emitted, audits,
                 listening, known, concluded>>

-----------------------------------------------------------------------------
(* RequestHandler::handle_composio_actions *)

\* The connector's answer is copied to the audit of every action: a failed
\* dispatch is reported as an abort.
Dispatched(delivered) ==
  /\ pc = "dispatching"
  /\ children' = IF delivered THEN children
                 ELSE [i \in DOMAIN children |-> [children[i] EXCEPT !.audit = "Abort"]]
  /\ pc' = "auditing"
  /\ UNCHANGED <<stateVars, actions, pin, admitted, token, blocker, sent,
                 emitted, audits, listening, known, concluded>>

\* The payload of the next child is sent; a channel nobody listens to any more
\* refuses it, which is logged.
emit_audit ==
  /\ pc = "auditing"
  /\ emitted' = emitted + 1
  /\ audits' = IF listening THEN Append(audits, children[emitted'].audit)
               ELSE audits
  /\ pc' = IF emitted' = Len(children) THEN "done" ELSE "auditing"
  /\ UNCHANGED <<stateVars, actions, pin, admitted, token, children, blocker,
                 sent, listening, known, concluded>>

\* The client closed the connection while the request awaited.
ClientGone ==
  /\ pc \in {"evaluating", "dispatching", "auditing"}
  /\ pc' = "dropped"
  /\ UNCHANGED <<stateVars, actions, pin, admitted, token, children, blocker,
                 sent, emitted, audits, listening, known, concluded>>

\* run_signing_adapter returns and drops its receiver: the Sidecar exits, or
\* the sink has ended.
AdapterEnds ==
  /\ listening
  /\ listening' = FALSE
  /\ UNCHANGED <<stateVars, pc, actions, pin, admitted, token, children,
                 blocker, sent, emitted, audits, known, concluded>>

-----------------------------------------------------------------------------
Batch ==
  \/ \E normalizes \in BOOLEAN : Begin(normalizes)
  \/ ActionBegin
  \/ \E t \in Tokens \cup {NoToken} : ValidateCapability(t)
  \/ \E verdict \in Decisions, cred \in Credentials \cup {NoCred} :
       ActionConclude(verdict, cred)
  \/ Settle
  \/ \E delivered \in BOOLEAN : Dispatched(delivered)
  \/ emit_audit
  \/ ClientGone
  \/ AdapterEnds

StateChanges == StateNext /\ UNCHANGED batchVars

Next == StateChanges \/ Batch

Spec == Init /\ [][Next]_vars

-----------------------------------------------------------------------------
(* Properties *)

\* The request is dispatched only as a whole: every action was allowed, with
\* the same credentials, and none of them was allowed by default.
DispatchedAsAWhole ==
  sent > 0 =>
    /\ Len(children) = actions /\ actions > 0
    /\ \E c \in Credentials :
         \A i \in DOMAIN children :
           children[i].decision = "Allow" /\ children[i].cred = c

\* A request that was not dispatched has no action audited as allowed; one that
\* was has all of them audited alike, as allowed or, if the connector failed, as
\* aborted; and when the handler is done every action has its payload, unless
\* the signing adapter ended before.
BlockedIsAuditedBlocked ==
  /\ sent = 0 => "Allow" \notin ToSet(audits)
  /\ sent > 0 => ToSet(audits) \in {{}, {"Allow"}, {"Abort"}}
  /\ pc = "done" /\ listening => Len(audits) = Len(children)

\* Each action has a token of its own, and a request is dispatched only if none
\* of these was known to be revoked, in the filter or in the set that the
\* Authority held when the stream opened, when its action passed the readiness
\* gate: a token that validated for one action and is revoked before the next
\* action with it blocks both.
RevokedBatchBlocked ==
  sent > 0 => \A i \in DOMAIN children : ~children[i].revoked

\* A dispatched request's pin was fresh when its last action concluded.
BatchWasFresh == sent > 0 => concluded < pin.deadline

=============================================================================
