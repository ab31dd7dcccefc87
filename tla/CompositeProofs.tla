-------------------------- MODULE CompositeProofs ---------------------------
(***************************************************************************)
(* A Composio request of any number of actions is dispatched as a whole or *)
(* not at all, under a fresh pin and tokens that were not revoked, and is  *)
(* audited as what happened to it, whatever the shared state does between  *)
(* its actions.                                                            *)
(*                                                                         *)
(* The second part is about the session store, which keeps what the        *)
(* requests of a session did: the two parts share no variable.             *)
(***************************************************************************)
EXTENDS Composite, SessionStore, SequenceTheorems, FiniteSetTheorems,
        WellFoundedInduction, TLAPS

USE CompositeAssumption

\* A step of the contract keeps the types of the shared state.
LEMMA StateStepTyped ==
  ASSUME StateTypeOK, [StateNext]_stateVars
  PROVE  StateTypeOK'
<1> USE StateAssumption DEF StateTypeOK, Snapshot, ReadinessState
<1>1. CASE Tick BY <1>1 DEF Tick
<1>2. CASE \E ttl \in TTLs : swap_snapshot(ttl) BY <1>2 DEF swap_snapshot
<1>3. CASE mark_policy_bundle_swapped BY <1>3 DEF mark_policy_bundle_swapped
<1>4. CASE refresh_policy_bundle_freshness BY <1>4 DEF refresh_policy_bundle_freshness, is_fresh
<1>5. CASE reject_run BY <1>5 DEF reject_run
<1>6. CASE \/ set_revocation_ready(FALSE, baseline)
           \/ \E base \in SUBSET Tokens : set_revocation_ready(TRUE, base)
  BY <1>6 DEF set_revocation_ready
<1>7. CASE (\E b \in Bits : set_bit(b)) \/ UNCHANGED stateVars BY <1>7 DEF set_bit, stateVars
<1> QED BY <1>1, <1>2, <1>3, <1>4, <1>5, <1>6, <1>7 DEF StateNext

\* Bits of the filter are never cleared.
LEMMA FilterGrows ==
  ASSUME [StateNext]_stateVars
  PROVE  bloom \subseteq bloom'
BY DEF StateNext, stateVars, Tick, swap_snapshot, mark_policy_bundle_swapped,
       refresh_policy_bundle_freshness, reject_run, set_revocation_ready, set_bit

\* While revocations are ready, the filter holds the set that made them so.
BaselineHeld ==
  readiness.revocation_ready => \A t \in baseline : is_revoked(t)

LEMMA StepHoldsBaseline ==
  ASSUME StateTypeOK, BaselineHeld, [StateNext]_stateVars
  PROVE  BaselineHeld'
<1>1. bloom \subseteq bloom' BY FilterGrows
<1>2. \/ /\ readiness'.revocation_ready \in {readiness.revocation_ready, FALSE}
         /\ baseline' = baseline
      \/ \A t \in baseline' : is_revoked(t)
  BY DEF StateNext, stateVars, Tick, swap_snapshot, mark_policy_bundle_swapped,
         refresh_policy_bundle_freshness, reject_run, set_revocation_ready, set_bit,
         StateTypeOK, ReadinessState
<1> QED BY <1>1, <1>2 DEF BaselineHeld, is_revoked

Admitted == {"Allow", "Modify"}

\* While the actions are evaluated nothing is sent and there is one to come, or
\* the last one is in.
EvaluationInv ==
  /\ pc = "idle" => sent = 0 /\ children = <<>>
  /\ pc \in {"next", "ready", "evaluating"} =>
       /\ sent = 0 /\ emitted = 0 /\ audits = <<>> /\ actions > 0
       /\ Len(children) <= actions
       /\ \A i \in DOMAIN children : children[i].audit = children[i].decision
  /\ pc \in {"ready", "evaluating"} => Len(children) < actions
  /\ pc = "dispatching" =>
       /\ sent > 0 /\ emitted = 0 /\ audits = <<>>
       /\ \A i \in DOMAIN children : children[i].audit = "Allow"

\* What an action knew to be revoked when it passed its gate is in the filter
\* when its token is looked up, and a token that validated is none of it.
TokenInv ==
  /\ pc = "ready" => \A t \in known : is_revoked(t)
  /\ pc = "evaluating" => token \in Tokens /\ token \notin known

\* An admitted action has credentials, and its token was not known as revoked.
CredentialInv ==
  \A i \in DOMAIN children :
    children[i].decision \in Admitted =>
      children[i].cred \in Credentials /\ ~children[i].revoked

\* What is known of the last action when the next one begins.
LastInv ==
  pc = "next" /\ children # <<>> /\ children[Len(children)].decision = "Allow"
    => concluded < pin.deadline

\* What a dispatched request was like when it was sent.
SentInv ==
  sent > 0 =>
    /\ pc \in {"dispatching", "auditing", "done", "dropped"}
    /\ DispatchedAsAWhole
    /\ RevokedBatchBlocked
    /\ BatchWasFresh
    /\ \E d \in {"Allow", "Abort"} : \A i \in DOMAIN children : children[i].audit = d

\* The payloads taken so far are those of the first actions, and of every one
\* that was sent while the adapter listens.
AuditInv ==
  /\ \A i \in DOMAIN audits : audits[i] = children[i].audit
  /\ listening => Len(audits) = emitted
  /\ pc = "auditing" => emitted < Len(children)
  /\ pc = "done" => emitted = Len(children)
  /\ pc \in {"auditing", "done"} /\ sent = 0 =>
       \A i \in DOMAIN children : children[i].audit # "Allow"
  /\ sent = 0 => \A i \in DOMAIN audits : audits[i] # "Allow"

BatchInv ==
  /\ TypeOK /\ BaselineHeld /\ EvaluationInv /\ TokenInv
  /\ CredentialInv /\ LastInv /\ SentInv /\ AuditInv

-----------------------------------------------------------------------------
(* Sequences of results *)

\* A sequence with an element appended.
LEMMA AppendFacts ==
  ASSUME NEW S, NEW s \in Seq(S), NEW e \in S
  PROVE  /\ Append(s, e) \in Seq(S)
         /\ Len(Append(s, e)) = Len(s) + 1
         /\ DOMAIN Append(s, e) = 1..(Len(s) + 1)
         /\ Append(s, e)[Len(s) + 1] = e
         /\ \A i \in 1..Len(s) : Append(s, e)[i] = s[i]
BY AppendProperties, LenProperties

\* A sequence of one element.
LEMMA SingletonFacts ==
  ASSUME NEW S, NEW e \in S
  PROVE  <<e>> \in Seq(S) /\ Len(<<e>>) = 1 /\ DOMAIN <<e>> = {1} /\ <<e>>[1] = e
OBVIOUS

\* A sequence of results whose results are replaced one by one.
LEMMA PointwiseFacts ==
  ASSUME NEW S, NEW s \in Seq(S), NEW t, t = [i \in DOMAIN s |-> t[i]],
         \A i \in DOMAIN s : t[i] \in S
  PROVE  t \in Seq(S) /\ Len(t) = Len(s) /\ DOMAIN t = DOMAIN s
<1>1. Len(s) \in Nat /\ DOMAIN s = 1..Len(s)
  BY LenProperties
<1>2. t \in [1..Len(s) -> S]
  BY <1>1
<1>3. t \in Seq(S)
  BY <1>1, <1>2, IsASeq
<1>4. Len(t) = Len(s)
  BY <1>1, <1>2, <1>3, LenProperties
<1> QED BY <1>1, <1>2, <1>3, <1>4

\* The first of some positions is one of them.
LEMMA FirstIsMember ==
  ASSUME NEW S \in SUBSET Nat, S # {}
  PROVE  First(S) \in S
<1> DEFINE Less == {p \in Nat \X Nat : p[1] < p[2]}
<1>1. OpToRel(<, Nat) = Less
  BY DEF OpToRel
<1>2. PICK n \in S : \A m \in S : ~(<<m, n>> \in Less)
  <2> HIDE DEF Less
  <2> QED BY <1>1, NatLessThanWellFounded, WFMin
<1>3. ASSUME NEW m \in S
      PROVE  n <= m
  <2>1. n \in Nat /\ m \in Nat
    OBVIOUS
  <2>2. m < n => <<m, n>> \in Less
    BY <2>1
  <2> QED BY <1>2, <2>1, <2>2
<1> QED BY <1>3 DEF First

\* Rewriting actions as aborted leaves none of them admitted.
LEMMA RewriteFacts ==
  ASSUME NEW cs \in Seq(Child), NEW D
  PROVE  /\ Rewrite(cs, D) \in Seq(Child)
         /\ Len(Rewrite(cs, D)) = Len(cs) /\ DOMAIN Rewrite(cs, D) = DOMAIN cs
         /\ \A i \in DOMAIN cs :
              IF cs[i].decision \in D
              THEN /\ Rewrite(cs, D)[i].decision = "Abort"
                   /\ Rewrite(cs, D)[i].audit = "Abort"
              ELSE Rewrite(cs, D)[i] = cs[i]
<1> DEFINE t == Rewrite(cs, D)
<1>1. t = [i \in DOMAIN cs |-> t[i]]
  BY DEF Rewrite
<1>2. ASSUME NEW i \in DOMAIN cs
      PROVE  /\ t[i] \in Child
             /\ cs[i].decision \in D => t[i].decision = "Abort" /\ t[i].audit = "Abort"
             /\ cs[i].decision \notin D => t[i] = cs[i]
  <2>1. cs[i] \in Child
    BY ElementOfSeq, LenProperties
  <2> QED BY <2>1 DEF Rewrite, AtomicAbort, Child, Decisions
<1>3. t \in Seq(Child) /\ Len(t) = Len(cs) /\ DOMAIN t = DOMAIN cs
  <2> HIDE DEF t
  <2> QED BY <1>1, <1>2, PointwiseFacts
<1> QED BY <1>2, <1>3
-----------------------------------------------------------------------------
(* The steps *)

\* Changes of the shared state do not touch the request.
LEMMA StatePreserves ==
  ASSUME BatchInv, [StateNext]_stateVars, UNCHANGED batchVars
  PROVE  BatchInv'
<1> USE DEF batchVars
<1>0. StateTypeOK' /\ BaselineHeld' /\ bloom \subseteq bloom'
  BY StateStepTyped, StepHoldsBaseline, FilterGrows DEF BatchInv, TypeOK
<1>1. TypeOK'
  BY <1>0 DEF BatchInv, TypeOK
<1>2. EvaluationInv' /\ CredentialInv' /\ LastInv' /\ AuditInv'
  BY DEF BatchInv, EvaluationInv, CredentialInv, LastInv, AuditInv
<1>3. SentInv'
  BY DEF BatchInv, SentInv, DispatchedAsAWhole, RevokedBatchBlocked, BatchWasFresh
<1>4. TokenInv'
  BY <1>0 DEF BatchInv, TokenInv, is_revoked
<1> QED BY <1>0, <1>1, <1>2, <1>3, <1>4 DEF BatchInv

\* A step of the request leaves the shared state what it was.
LEMMA StateKeptTyped ==
  ASSUME BatchInv, UNCHANGED stateVars
  PROVE  StateTypeOK' /\ BaselineHeld'
BY DEF BatchInv, TypeOK, stateVars, StateTypeOK, BaselineHeld, is_revoked

\* The invariant's facts in the form the steps below use them.
LEMMA BatchFacts ==
  ASSUME BatchInv
  PROVE  /\ TypeOK /\ EvaluationInv /\ CredentialInv /\ LastInv /\ SentInv /\ AuditInv
         /\ Len(children) \in Nat /\ DOMAIN children = 1..Len(children)
         /\ \A i \in DOMAIN children : children[i] \in Child
         /\ Len(audits) \in Nat /\ DOMAIN audits = 1..Len(audits)
         /\ emitted \in Nat /\ Len(audits) <= emitted /\ emitted <= Len(children)
         /\ sent = 0 \/ sent = 1
         /\ actions \in Nat /\ now \in Nat /\ pin.deadline \in Nat
         /\ concluded \in Nat
BY LenProperties, ElementOfSeq DEF BatchInv, TypeOK, StateTypeOK, Snapshot

\* The result of an action that is refused before the policy is asked.
LEMMA DeniedFacts ==
  ASSUME NEW revoked \in BOOLEAN
  PROVE  /\ Denied(revoked) \in Child
         /\ Denied(revoked).decision = "Deny" /\ Denied(revoked).audit = "Deny"
BY DEF Denied, Child, Decisions

\* Begin: the empty request is refused, any other is evaluated.
LEMMA BeginPreserves ==
  ASSUME BatchInv, NEW normalizes \in BOOLEAN, Begin(normalizes)
  PROVE  BatchInv'
<1> USE BatchFacts DEF Begin
<1>0. /\ pc = "idle" /\ sent = 0 /\ children = <<>> /\ Len(audits) <= 0 /\ emitted = 0
      /\ StateTypeOK' /\ BaselineHeld' /\ pin' \in Snapshot
  BY StateKeptTyped DEF EvaluationInv, TypeOK, StateTypeOK
<1>1. audits = <<>>
  BY <1>0, EmptySeq, LenProperties DEF TypeOK
<1>2. CASE actions = 0
  <2>1. /\ children' \in Seq(Child) /\ Len(children') = 1
        /\ DOMAIN children' = {1} /\ children'[1] = Denied(FALSE)
    BY <1>2, DeniedFacts, SingletonFacts
  <2>2. TypeOK'
    BY <1>0, <1>1, <1>2, <2>1 DEF TypeOK
  <2>3. EvaluationInv' /\ CredentialInv' /\ LastInv' /\ SentInv' /\ TokenInv'
    BY <1>0, <1>2, <2>1, DeniedFacts
    DEF EvaluationInv, CredentialInv, LastInv, SentInv, TokenInv, Admitted
  <2>4. AuditInv'
    <3>1. children'[1].audit # "Allow"
      BY <2>1, DeniedFacts
    <3>2. pc' = "auditing" /\ audits' = <<>> /\ emitted' = 0 /\ DOMAIN audits' = {} /\ Len(audits') = 0
      BY <1>0, <1>1, <1>2
    <3>3. \A i \in DOMAIN children' : children'[i].audit # "Allow"
      BY <2>1, <3>1
    <3>4. /\ \A i \in DOMAIN audits' : audits'[i] = children'[i].audit /\ audits'[i] # "Allow"
          /\ emitted' < Len(children') /\ Len(audits') = emitted'
      BY <2>1, <3>2
    <3> QED BY <3>2, <3>3, <3>4 DEF AuditInv
  <2> QED BY <1>0, <2>2, <2>3, <2>4 DEF BatchInv
<1>3. CASE actions # 0
  <2>1. TypeOK'
    BY <1>0, <1>1, <1>3 DEF TypeOK
  <2> QED BY <2>1, <1>0, <1>1, <1>3
          DEF BatchInv, EvaluationInv, TokenInv, CredentialInv, LastInv, SentInv, AuditInv
<1> QED BY <1>2, <1>3

\* An action that is refused or concluded is appended; the facts about the
\* actions before it stay.
LEMMA ResultAppended ==
  ASSUME BatchInv, pc \in {"next", "ready", "evaluating"}, Len(children) < actions,
         NEW c \in Child, children' = Append(children, c), pc' = "next",
         c.audit = c.decision,
         c.decision \in Admitted => c.cred \in Credentials /\ ~c.revoked,
         known' \in SUBSET Tokens, token' \in Tokens \cup {NoToken},
         concluded' \in Nat, c.decision = "Allow" => concluded' < pin.deadline,
         UNCHANGED <<stateVars, actions, pin, admitted, blocker, sent, emitted,
                     audits, listening>>
  PROVE  BatchInv'
<1> USE BatchFacts
<1>0. sent = 0 /\ emitted = 0 /\ audits = <<>> /\ actions > 0
  BY DEF EvaluationInv
<1>a. StateTypeOK' /\ BaselineHeld'
  BY StateKeptTyped
<1>1. /\ children' \in Seq(Child) /\ Len(children') = Len(children) + 1
      /\ DOMAIN children' = 1..(Len(children) + 1)
      /\ children'[Len(children) + 1] = c
      /\ \A i \in DOMAIN children : children'[i] = children[i]
  BY AppendFacts DEF TypeOK
<1>2. TypeOK'
  BY <1>0, <1>a, <1>1 DEF TypeOK
<1>3. EvaluationInv' /\ TokenInv'
  BY <1>0, <1>1 DEF EvaluationInv, TokenInv
<1>4. CredentialInv'
  BY <1>1 DEF CredentialInv
<1>5. LastInv'
  BY <1>1 DEF LastInv
<1>6. SentInv' /\ AuditInv'
  BY <1>0 DEF SentInv, AuditInv
<1> QED BY <1>a, <1>2, <1>3, <1>4, <1>5, <1>6 DEF BatchInv

\* ActionBegin: a gate that closed denies the action; what is known as revoked
\* when it is open is in the filter.
LEMMA ActionBeginPreserves ==
  ASSUME BatchInv, ActionBegin
  PROVE  BatchInv'
<1> USE BatchFacts
<1>1. CASE admitted /\ fully_ready(readiness)
  <2>1. /\ pc = "next" /\ pc' = "ready" /\ Len(children) < actions
        /\ known' = baseline \cup {t \in Tokens : is_revoked(t)}
        /\ UNCHANGED <<stateVars, children, actions, pin, admitted, token, blocker,
                       sent, emitted, audits, listening, concluded>>
    BY <1>1 DEF ActionBegin
  <2>2. StateTypeOK' /\ BaselineHeld'
    BY <2>1, StateKeptTyped
  <2>3. known' \subseteq Tokens
    BY <2>1 DEF TypeOK, StateTypeOK
  <2>4. TypeOK'
    BY <2>1, <2>2, <2>3 DEF TypeOK
  <2>5. \A t \in known' : is_revoked(t)
    BY <1>1, <2>1 DEF BatchInv, BaselineHeld, fully_ready
  <2>6. TokenInv'
    BY <2>1, <2>5 DEF TokenInv, is_revoked, stateVars
  <2> QED BY <2>1, <2>2, <2>4, <2>6
          DEF BatchInv, EvaluationInv, CredentialInv, LastInv, SentInv, AuditInv
<1>2. CASE ~(admitted /\ fully_ready(readiness))
  <2>1. /\ pc = "next" /\ pc' = "next" /\ Len(children) < actions
        /\ children' = Append(children, Denied(FALSE))
        /\ UNCHANGED <<stateVars, actions, pin, admitted, token, blocker, sent,
                       emitted, audits, listening, known, concluded>>
    BY <1>2 DEF ActionBegin
  <2>2. known \in SUBSET Tokens /\ token \in Tokens \cup {NoToken}
    BY DEF TypeOK
  <2> DEFINE c == Denied(FALSE)
  <2>3. c \in Child /\ c.decision = "Deny" /\ c.audit = "Deny"
    BY DeniedFacts
  <2> HIDE DEF c
  <2>4. children' = Append(children, c)
    BY <2>1 DEF c
  <2> QED BY <2>1, <2>2, <2>3, <2>4, ResultAppended DEF Admitted
<1> QED BY <1>1, <1>2

\* ValidateCapability: a token in the filter denies the action, so that one that
\* validates is none of those known as revoked when the gate was passed.
LEMMA ValidatePreserves ==
  ASSUME BatchInv, NEW t \in Tokens \cup {NoToken}, ValidateCapability(t)
  PROVE  BatchInv'
<1> USE BatchFacts
<1>0. pc = "ready" /\ Len(children) < actions /\ \A u \in known : is_revoked(u)
  BY DEF ValidateCapability, Validated, EvaluationInv, TokenInv, BatchInv
<1>1. CASE t # NoToken /\ ~is_revoked(t)
  <2>1. /\ pc' = "evaluating" /\ token' = t
        /\ UNCHANGED <<stateVars, children, actions, pin, admitted, blocker, sent,
                       emitted, audits, listening, known, concluded>>
    BY <1>1 DEF ValidateCapability, Validated
  <2>2. StateTypeOK' /\ BaselineHeld'
    BY <2>1, StateKeptTyped
  <2>3. TypeOK'
    BY <2>1, <2>2 DEF TypeOK
  <2>4. TokenInv'
    BY <1>0, <1>1, <2>1 DEF TokenInv
  <2> QED BY <1>0, <2>1, <2>2, <2>3, <2>4
          DEF BatchInv, EvaluationInv, CredentialInv, LastInv, SentInv, AuditInv
<1>2. CASE ~(t # NoToken /\ ~is_revoked(t))
  <2> DEFINE b == t \in known
             c == Denied(b)
  <2>1. /\ pc' = "next" /\ children' = Append(children, c) /\ known' = {}
        /\ UNCHANGED <<stateVars, actions, pin, admitted, token, blocker, sent,
                       emitted, audits, listening, concluded>>
    BY <1>2 DEF ValidateCapability, Validated
  <2>2. c \in Child /\ c.decision = "Deny" /\ c.audit = "Deny"
    <3>1. b \in BOOLEAN
      OBVIOUS
    <3> HIDE DEF b
    <3> QED BY <3>1, DeniedFacts
  <2>3. known' \in SUBSET Tokens /\ token' \in Tokens \cup {NoToken}
    BY <2>1 DEF TypeOK
  <2> HIDE DEF c
  <2> QED BY <1>0, <2>1, <2>2, <2>3, ResultAppended DEF Admitted
<1> QED BY <1>1, <1>2

\* ActionConclude: an admitted action has credentials and a fresh pin.
LEMMA ActionConcludePreserves ==
  ASSUME BatchInv, NEW verdict \in Decisions,
         NEW cred \in Credentials \cup {NoCred}, ActionConclude(verdict, cred)
  PROVE  BatchInv'
<1> USE BatchFacts
<1> DEFINE d == reject_expired_pin(verdict)
           b == token \in known
           c == [decision |-> d, audit |-> d,
                 cred |-> IF d = verdict THEN cred ELSE NoCred,
                 revoked |-> b]
<1>1. /\ d \in Decisions
      /\ d \in Admitted => d = verdict /\ now < pin.deadline
  BY DEF reject_expired_pin, Decisions, is_fresh, Admitted
<1>2. /\ pc = "evaluating" /\ pc' = "next" /\ children' = Append(children, c)
      /\ concluded' = now /\ token' = NoToken /\ known' = {}
      /\ verdict \in Admitted => cred # NoCred
      /\ UNCHANGED <<stateVars, actions, pin, admitted, blocker, sent, emitted,
                     audits, listening>>
  BY DEF ActionConclude, Admitted
<1>3. token \notin known /\ Len(children) < actions
  BY <1>2 DEF EvaluationInv, TokenInv, BatchInv
<1>4. /\ c \in Child /\ c.audit = c.decision
      /\ c.decision \in Admitted => c.cred \in Credentials /\ ~c.revoked
      /\ c.decision = "Allow" => concluded' < pin.deadline
  <2>1. b \in BOOLEAN /\ ~b
    BY <1>3
  <2> HIDE DEF b, d
  <2> QED BY <1>1, <1>2, <2>1 DEF Child, Admitted
<1> HIDE DEF c
<1> QED BY <1>2, <1>3, <1>4, ResultAppended

\* A request that is blocked: the results are rewritten, none stays allowed.
LEMMA BlockedPreserves ==
  ASSUME BatchInv, pc = "next", Len(children) = actions, pc' = "auditing",
         NEW D, "Allow" \in D, children' = Rewrite(children, D),
         blocker' \in 1..Len(children),
         UNCHANGED <<stateVars, actions, pin, admitted, token, sent, emitted,
                     audits, listening, known, concluded>>
  PROVE  BatchInv'
<1> USE BatchFacts
<1>0. sent = 0 /\ emitted = 0 /\ audits = <<>> /\ actions > 0
  BY DEF EvaluationInv
<1>a. StateTypeOK' /\ BaselineHeld'
  BY StateKeptTyped
<1>1. /\ children' \in Seq(Child) /\ Len(children') = Len(children)
      /\ DOMAIN children' = DOMAIN children
      /\ \A i \in DOMAIN children :
           IF children[i].decision \in D
           THEN children'[i].decision = "Abort" /\ children'[i].audit = "Abort"
           ELSE children'[i] = children[i]
  BY RewriteFacts DEF TypeOK
<1>2. TypeOK'
  BY <1>0, <1>a, <1>1 DEF TypeOK
<1>3. CredentialInv'
  BY <1>1 DEF CredentialInv, Admitted
<1>4. \A i \in DOMAIN children' : children'[i].audit # "Allow"
  BY <1>1 DEF EvaluationInv
<1>5. EvaluationInv' /\ TokenInv' /\ LastInv' /\ SentInv' /\ AuditInv'
  BY <1>0, <1>1, <1>4 DEF EvaluationInv, TokenInv, LastInv, SentInv, AuditInv
<1> QED BY <1>a, <1>2, <1>3, <1>5 DEF BatchInv

\* The positions of some decisions are positions.
LEMMA PositionsFacts ==
  ASSUME BatchInv, NEW D, Positions(children, D) # {}
  PROVE  First(Positions(children, D)) \in 1..Len(children)
<1>1. Positions(children, D) \subseteq 1..Len(children)
  BY BatchFacts DEF Positions
<1>2. Positions(children, D) \in SUBSET Nat
  BY <1>1
<1> QED BY <1>1, <1>2, FirstIsMember

\* Settle: the request is sent when nothing blocks it, and blocked otherwise.
LEMMA SettlePreserves ==
  ASSUME BatchInv, Settle
  PROVE  BatchInv'
<1> USE BatchFacts
<1>0. /\ pc = "next" /\ Len(children) = actions /\ sent = 0 /\ audits = <<>>
      /\ actions > 0 /\ emitted = 0
      /\ UNCHANGED <<stateVars, actions, pin, admitted, token, emitted, audits,
                     listening, known, concluded>>
  BY DEF Settle, EvaluationInv
<1>a. StateTypeOK' /\ BaselineHeld'
  BY <1>0, StateKeptTyped
<1>1. CASE /\ Blockers(children) = {}
           /\ ~admitted_credentials_disagree(children)
           /\ sent' = sent + 1
           /\ pc' = "dispatching"
           /\ UNCHANGED <<children, blocker>>
  <2>1. \A i \in DOMAIN children : children[i].decision = "Allow"
    BY <1>1 DEF Blockers, Positions, Child
  <2>2. \A i, j \in DOMAIN children : children[i].cred = children[j].cred
    BY <1>1, <2>1 DEF admitted_credentials_disagree
  <2>3. 1 \in DOMAIN children /\ Len(children) \in DOMAIN children
    BY <1>0
  <2>4. children[1].cred \in Credentials /\ \A i \in DOMAIN children : ~children[i].revoked
    BY <2>1, <2>3 DEF CredentialInv, Admitted
  <2>5. \A i \in DOMAIN children :
          children[i].decision = "Allow" /\ children[i].cred = children[1].cred
    BY <2>1, <2>2, <2>3
  <2>6. children # <<>>
    BY <1>0
  <2>7. concluded < pin.deadline /\ \A i \in DOMAIN children : children[i].audit = "Allow"
    BY <1>0, <2>1, <2>3, <2>6 DEF LastInv, EvaluationInv
  <2>8. TypeOK'
    BY <1>0, <1>a, <1>1 DEF TypeOK
  <2>9. DispatchedAsAWhole'
    BY <1>0, <1>1, <2>4, <2>5 DEF DispatchedAsAWhole
  <2>10. SentInv'
    BY <1>0, <1>1, <2>4, <2>7, <2>9 DEF SentInv, RevokedBatchBlocked, BatchWasFresh
  <2>11. EvaluationInv' /\ TokenInv' /\ CredentialInv' /\ LastInv' /\ AuditInv'
    BY <1>0, <1>1, <2>7 DEF EvaluationInv, TokenInv, CredentialInv, LastInv, AuditInv
  <2> QED BY <1>a, <2>8, <2>10, <2>11 DEF BatchInv
<1>2. CASE /\ children' = Rewrite(children, {"Allow"})
           /\ blocker' = 1
           /\ pc' = "auditing"
           /\ UNCHANGED sent
  BY <1>0, <1>2, BlockedPreserves
<1>3. CASE /\ Blockers(children) # {}
           /\ children' = Aborted(children)
           /\ blocker' = BlockerOf(children)
           /\ pc' = "auditing"
           /\ UNCHANGED sent
  <2>1. blocker' \in 1..Len(children)
    BY <1>3, PositionsFacts DEF BlockerOf, Blockers
  <2>2. CASE Positions(children, {"Abort"}) # {}
    <3>1. children' = Rewrite(children, {"Allow", "Modify"})
      BY <1>3, <2>2 DEF Aborted
    <3> QED BY <1>0, <1>3, <2>1, <3>1, BlockedPreserves
  <2>3. CASE Positions(children, {"Abort"}) = {}
    <3>1. children' = Rewrite(children, {"Allow"})
      BY <1>3, <2>3 DEF Aborted
    <3> QED BY <1>0, <1>3, <2>1, <3>1, BlockedPreserves
  <2> QED BY <2>2, <2>3
<1> QED BY <1>1, <1>2, <1>3 DEF Settle

\* Dispatched: the connector's answer changes what the actions are audited as.
LEMMA DispatchedPreserves ==
  ASSUME BatchInv, NEW delivered \in BOOLEAN, Dispatched(delivered)
  PROVE  BatchInv'
<1> USE BatchFacts
<1>0. /\ pc = "dispatching" /\ pc' = "auditing" /\ sent > 0 /\ audits = <<>> /\ emitted = 0
      /\ UNCHANGED <<stateVars, actions, pin, admitted, token, blocker, sent,
                     emitted, audits, listening, known, concluded>>
  BY DEF Dispatched, EvaluationInv
<1>a. StateTypeOK' /\ BaselineHeld'
  BY <1>0, StateKeptTyped
<1>1. /\ children' \in Seq(Child) /\ Len(children') = Len(children)
      /\ DOMAIN children' = DOMAIN children
      /\ \A i \in DOMAIN children :
           /\ children'[i].decision = children[i].decision
           /\ children'[i].cred = children[i].cred
           /\ children'[i].revoked = children[i].revoked
           /\ children'[i].audit = IF delivered THEN "Allow" ELSE "Abort"
  <2>1. CASE delivered
    BY <1>0, <2>1 DEF Dispatched, TypeOK, EvaluationInv
  <2>2. CASE ~delivered
    <3>1. children' = [i \in DOMAIN children |-> [children[i] EXCEPT !.audit = "Abort"]]
      BY <2>2 DEF Dispatched
    <3>2. \A i \in DOMAIN children :
            /\ children'[i] \in Child
            /\ children'[i].decision = children[i].decision
            /\ children'[i].cred = children[i].cred
            /\ children'[i].revoked = children[i].revoked
            /\ children'[i].audit = "Abort"
      BY <3>1 DEF Child, Decisions
    <3>3. children' = [i \in DOMAIN children |-> children'[i]]
      BY <3>1
    <3>4. children' \in Seq(Child) /\ Len(children') = Len(children)
          /\ DOMAIN children' = DOMAIN children
      BY <3>2, <3>3, PointwiseFacts DEF TypeOK
    <3> QED BY <2>2, <3>2, <3>4
  <2> QED BY <2>1, <2>2
<1>2. TypeOK'
  BY <1>0, <1>a, <1>1 DEF TypeOK
<1>3. SentInv' /\ actions > 0 /\ Len(children) = actions
  <2>1. PICK d \in {"Allow", "Abort"} : \A i \in DOMAIN children' : children'[i].audit = d
    BY <1>1
  <2>2. DispatchedAsAWhole' /\ actions > 0 /\ Len(children) = actions
    BY <1>0, <1>1 DEF SentInv, DispatchedAsAWhole
  <2>3. RevokedBatchBlocked' /\ BatchWasFresh'
    BY <1>0, <1>1 DEF SentInv, RevokedBatchBlocked, BatchWasFresh
  <2> QED BY <1>0, <2>1, <2>2, <2>3 DEF SentInv
<1>4. EvaluationInv' /\ TokenInv' /\ CredentialInv' /\ LastInv' /\ AuditInv'
  BY <1>0, <1>1, <1>3 DEF EvaluationInv, TokenInv, CredentialInv, LastInv, AuditInv
<1> QED BY <1>a, <1>2, <1>3, <1>4 DEF BatchInv

\* emit_audit: the payload of the next action, as the action stands, if there is
\* a receiver for it.
LEMMA EmitAuditPreserves ==
  ASSUME BatchInv, emit_audit
  PROVE  BatchInv'
<1> USE BatchFacts
<1>0. /\ pc = "auditing" /\ emitted < Len(children) /\ emitted' = emitted + 1
      /\ UNCHANGED <<stateVars, actions, pin, admitted, token, children, blocker,
                     sent, listening, known, concluded>>
  BY DEF emit_audit, AuditInv
<1>a. StateTypeOK' /\ BaselineHeld'
  BY <1>0, StateKeptTyped
<1>1. pc' = IF emitted' = Len(children) THEN "done" ELSE "auditing"
  BY DEF emit_audit
<1>2. /\ \A i \in DOMAIN children : children[i].audit \in Decisions
      /\ sent = 0 => \A i \in DOMAIN children : children[i].audit # "Allow"
  BY <1>0 DEF AuditInv, Child
<1>3. /\ audits' \in Seq(Decisions) /\ Len(audits') <= emitted'
      /\ listening => Len(audits') = emitted'
      /\ \A i \in DOMAIN audits' : i \in DOMAIN children /\ audits'[i] = children[i].audit
  <2>1. audits \in Seq(Decisions)
    BY SMTT(30) DEF TypeOK
  <2>2. \A i \in DOMAIN audits : i \in DOMAIN children /\ audits[i] = children[i].audit
    BY DEF AuditInv
  <2>3. CASE ~listening
    <3>1. audits' = audits
      BY <2>3 DEF emit_audit
    <3> QED BY <1>0, <2>1, <2>2, <2>3, <3>1
  <2>4. CASE listening
    <3>1. Len(audits) = emitted /\ emitted + 1 \in DOMAIN children
      BY <1>0, <2>4 DEF AuditInv
    <3>2. PICK a \in Decisions : a = children[emitted + 1].audit
      BY <1>2, <3>1
    <3>3. audits' = Append(audits, a)
      BY <1>0, <2>4, <3>2 DEF emit_audit
    <3>4. /\ audits' \in Seq(Decisions) /\ Len(audits') = Len(audits) + 1
          /\ DOMAIN audits' = 1..(Len(audits) + 1)
          /\ audits'[Len(audits) + 1] = a
          /\ \A i \in 1..Len(audits) : audits'[i] = audits[i]
      BY <2>1, <3>3, AppendFacts
    <3>5. ASSUME NEW i \in DOMAIN audits'
          PROVE  i \in DOMAIN children /\ audits'[i] = children[i].audit
      <4>1. i \in DOMAIN audits \/ i = emitted + 1
        BY <3>1, <3>4
      <4> QED BY <2>2, <3>1, <3>2, <3>4, <4>1
    <3> QED BY <1>0, <3>1, <3>4, <3>5
  <2> QED BY <2>3, <2>4
<1>4. TypeOK'
  <2>1. pc' \in {"done", "auditing"}
    BY <1>1
  <2>2. emitted' \in 0..Len(children)
    BY <1>0
  <2> QED BY <1>0, <1>a, <1>3, <2>1, <2>2 DEF TypeOK
<1>5. SentInv'
  BY <1>0, <1>1 DEF SentInv, DispatchedAsAWhole, RevokedBatchBlocked, BatchWasFresh
<1>6. EvaluationInv' /\ TokenInv' /\ CredentialInv' /\ LastInv'
  BY <1>0, <1>1 DEF EvaluationInv, TokenInv, CredentialInv, LastInv
<1>7. AuditInv'
  <2>1. /\ pc' = "auditing" => emitted' < Len(children')
        /\ pc' = "done" => emitted' = Len(children')
    BY <1>0, <1>1
  <2> QED BY <1>0, <1>2, <1>3, <2>1 DEF AuditInv
<1> QED BY <1>a, <1>4, <1>5, <1>6, <1>7 DEF BatchInv

\* ClientGone: the request stops where it is.
LEMMA ClientGonePreserves ==
  ASSUME BatchInv, ClientGone
  PROVE  BatchInv'
<1> USE BatchFacts DEF ClientGone
<1>0. StateTypeOK' /\ BaselineHeld'
  BY StateKeptTyped
<1>1. TypeOK'
  BY <1>0, SMTT(30) DEF TypeOK
<1>2. SentInv'
  BY DEF SentInv, DispatchedAsAWhole, RevokedBatchBlocked, BatchWasFresh
<1>3. EvaluationInv' /\ TokenInv' /\ CredentialInv' /\ LastInv' /\ AuditInv'
  BY DEF EvaluationInv, TokenInv, CredentialInv, LastInv, AuditInv
<1> QED BY <1>0, <1>1, <1>2, <1>3 DEF BatchInv

\* AdapterEnds: nothing is promised of the payloads sent after it.
LEMMA AdapterEndsPreserves ==
  ASSUME BatchInv, AdapterEnds
  PROVE  BatchInv'
<1> USE BatchFacts DEF AdapterEnds
<1>0. StateTypeOK' /\ BaselineHeld'
  BY StateKeptTyped
<1>1. TypeOK'
  <2>1. listening' \in BOOLEAN
    OBVIOUS
  <2>2. UNCHANGED <<pc, actions, pin, admitted, token, children, blocker, sent,
                    emitted, audits, known, concluded>>
    OBVIOUS
  <2> QED BY <1>0, <2>1, <2>2, Zenon DEF TypeOK
<1>2. SentInv'
  BY DEF SentInv, DispatchedAsAWhole, RevokedBatchBlocked, BatchWasFresh
<1>3. EvaluationInv' /\ TokenInv' /\ CredentialInv' /\ LastInv' /\ AuditInv'
  BY DEF BatchInv, EvaluationInv, TokenInv, CredentialInv, LastInv, AuditInv, is_revoked, stateVars
<1> QED BY <1>0, <1>1, <1>2, <1>3 DEF BatchInv

-----------------------------------------------------------------------------
(* The invariant *)

\* BatchInv holds of a request that has not begun.
LEMMA BatchInit == Init => BatchInv
<1> SUFFICES ASSUME Init PROVE BatchInv
  OBVIOUS
<1>1. StateTypeOK
  BY DEF Init, StateInit, StateTypeOK, Snapshot, ReadinessState
<1>2. TypeOK
  <2>1. children \in Seq(Child) /\ Len(children) = 0
    BY EmptySeq DEF Init
  <2>2. audits \in Seq(Decisions) /\ Len(audits) = 0
    BY EmptySeq DEF Init
  <2>3. pin \in Snapshot
    BY <1>1 DEF Init, StateTypeOK
  <2>4. /\ actions \in 0..MaxActions /\ blocker \in 0..Len(children)
        /\ Len(children) <= actions + 1 /\ emitted \in 0..Len(children)
        /\ Len(audits) <= emitted
    BY <2>1, <2>2 DEF Init
  <2>5. /\ pc = "idle" /\ admitted \in BOOLEAN /\ known \in SUBSET Tokens
        /\ token \in Tokens \cup {NoToken} /\ listening \in BOOLEAN
        /\ sent \in {0, 1} /\ concluded \in Nat
    BY DEF Init
  <2> QED BY <1>1, <2>1, <2>2, <2>3, <2>4, <2>5 DEF TypeOK
<1>3. BaselineHeld
  BY DEF Init, StateInit, BaselineHeld
<1> QED BY <1>2, <1>3
        DEF Init, BatchInv, EvaluationInv, TokenInv, CredentialInv, LastInv, SentInv, AuditInv

\* Every step of the request or of the shared state keeps BatchInv.
LEMMA BatchStep == BatchInv /\ [Next]_vars => BatchInv'
<1> SUFFICES ASSUME BatchInv, [Next]_vars PROVE BatchInv'
  OBVIOUS
<1>1. CASE StateChanges
  BY <1>1, StatePreserves DEF StateChanges
<1>2. CASE Batch
  BY <1>2, BeginPreserves, ActionBeginPreserves, ValidatePreserves,
     ActionConcludePreserves, SettlePreserves, DispatchedPreserves,
     EmitAuditPreserves, ClientGonePreserves, AdapterEndsPreserves
  DEF Batch
<1>3. CASE UNCHANGED vars
  BY <1>3, StatePreserves DEF vars
<1> QED BY <1>1, <1>2, <1>3 DEF Next

\* BatchInv is an invariant of every request.
THEOREM BatchInvariant == Spec => []BatchInv
BY BatchInit, BatchStep, PTL DEF Spec

\* Every variable of a composite request keeps its type.
THEOREM BatchTyped == Spec => []TypeOK
<1>1. BatchInv => TypeOK
  BY DEF BatchInv
<1> QED BY <1>1, BatchInvariant, PTL

\* A request of any number of actions is dispatched as a whole or not at all,
\* with one set of credentials.
THEOREM BatchWhole == Spec => []DispatchedAsAWhole
<1>1. BatchInv => DispatchedAsAWhole
  BY DEF BatchInv, SentInv, DispatchedAsAWhole
<1> QED BY <1>1, BatchInvariant, PTL

\* The pin of a dispatched request was fresh when its last action concluded.
THEOREM BatchFresh == Spec => []BatchWasFresh
<1>1. BatchInv => BatchWasFresh
  BY DEF BatchInv, SentInv, BatchWasFresh
<1> QED BY <1>1, BatchInvariant, PTL

\* No action of a dispatched request had a token that was known to be revoked
\* when the action passed its gate, whichever token each of them was given.
THEOREM BatchUnrevoked == Spec => []RevokedBatchBlocked
<1>1. BatchInv => RevokedBatchBlocked
  BY DEF BatchInv, SentInv, RevokedBatchBlocked
<1> QED BY <1>1, BatchInvariant, PTL

\* A blocked request has no action audited as allowed, a dispatched one has its
\* actions audited alike, and a finished one has a payload per action unless
\* the signing adapter ended.
THEOREM BatchAudit == Spec => []BlockedIsAuditedBlocked
<1>1. ASSUME BatchInv
      PROVE  BlockedIsAuditedBlocked
  <2> USE BatchFacts
  <2>1. sent = 0 => "Allow" \notin ToSet(audits)
    BY <1>1 DEF AuditInv, ToSet
  <2>2. pc = "done" /\ listening => Len(audits) = Len(children)
    BY <1>1 DEF AuditInv
  <2>3. ASSUME sent > 0
        PROVE  ToSet(audits) \in {{}, {"Allow"}, {"Abort"}}
    <3>1. PICK d \in {"Allow", "Abort"} : \A i \in DOMAIN children : children[i].audit = d
      BY <1>1, <2>3 DEF SentInv
    <3>2. \A i \in DOMAIN audits : i \in DOMAIN children /\ audits[i] = children[i].audit
      BY <1>1 DEF AuditInv
    <3>3. ToSet(audits) \subseteq {d}
      BY <3>1, <3>2 DEF ToSet
    <3> QED BY <3>3
  <2> QED BY <2>1, <2>2, <2>3 DEF BlockedIsAuditedBlocked
<1> QED BY <1>1, BatchInvariant, PTL

-----------------------------------------------------------------------------
(* The session store: sequences, and the records it keeps *)

HIDE CompositeAssumption

\* How many elements LastOf leaves out.
Dropped(seq, n) == IF Len(seq) <= n THEN 0 ELSE Len(seq) - n

\* The last elements of a sequence, by position.
LEMMA LastOfElements ==
  ASSUME NEW S, NEW seq \in Seq(S), NEW n \in Nat
  PROVE  /\ Dropped(seq, n) \in Nat
         /\ Len(seq) - Dropped(seq, n) \in Nat
         /\ Len(seq) - Dropped(seq, n) <= n
         /\ LastOf(seq, n) \in Seq(S)
         /\ Len(LastOf(seq, n)) = Len(seq) - Dropped(seq, n)
         /\ \A i \in 1..(Len(seq) - Dropped(seq, n)) :
              /\ LastOf(seq, n)[i] = seq[Dropped(seq, n) + i]
              /\ Dropped(seq, n) + i \in 1..Len(seq)
<1>1. Len(seq) \in Nat
  OBVIOUS
<1>2. CASE Len(seq) <= n
  BY <1>1, <1>2 DEF LastOf, Dropped
<1>3. CASE ~(Len(seq) <= n)
  <2> DEFINE d == Dropped(seq, n)
             t == LastOf(seq, n)
  <2>1. d = Len(seq) - n /\ d + 1 = Len(seq) - n + 1 /\ d \in 0..Len(seq)
    BY <1>1, <1>3 DEF Dropped
  <2>2. t = SubSeq(seq, d + 1, Len(seq))
    BY <1>3, <2>1 DEF LastOf
  <2> HIDE DEF t, d
  <2>3. /\ t \in Seq(S) /\ Len(t) = Len(seq) - d
        /\ \A i \in 1..(Len(seq) - d) : t[i] = seq[d + i] /\ d + i \in 1..Len(seq)
    BY <2>1, <2>2
  <2>4. d \in Nat /\ Len(seq) - d \in Nat /\ Len(seq) - d <= n
    BY <1>1, <2>1
  <2>5. QED
    BY <2>3, <2>4 DEF t, d
<1>4. QED
  BY <1>2, <1>3

\* They are elements of it, at most n of them, each once if it was there once,
\* and with the last one among them.
LEMMA LastOfFacts ==
  ASSUME NEW S, NEW seq \in Seq(S), NEW n \in Nat
  PROVE  /\ LastOf(seq, n) \in Seq(S)
         /\ Len(LastOf(seq, n)) <= n
         /\ ToSet(LastOf(seq, n)) \subseteq ToSet(seq)
         /\ IsInjective(seq) => IsInjective(LastOf(seq, n))
         /\ n # 0 /\ Len(seq) # 0 => seq[Len(seq)] \in ToSet(LastOf(seq, n))
<1> DEFINE d == Dropped(seq, n)
           t == LastOf(seq, n)
           m == Len(seq) - d
<1>1. Len(seq) \in Nat /\ d \in Nat /\ m + d = Len(seq)
  BY DEF Dropped
<1>2. n # 0 /\ Len(seq) # 0 => m \in 1..m
  BY <1>1 DEF Dropped
<1> HIDE DEF d
<1>4. /\ t \in Seq(S) /\ Len(t) = m /\ m \in Nat /\ m <= n
      /\ \A i \in 1..m : t[i] = seq[d + i] /\ d + i \in 1..Len(seq)
  BY LastOfElements DEF d
<1> HIDE DEF t, m
<1>5. DOMAIN t = 1..m /\ DOMAIN seq = 1..Len(seq)
  BY <1>4
<1>6. ToSet(t) \subseteq ToSet(seq)
  BY <1>4, <1>5 DEF ToSet
<1>7. ASSUME IsInjective(seq), NEW i \in DOMAIN t, NEW j \in DOMAIN t, t[i] = t[j]
      PROVE  i = j
  <2>1. d + i \in DOMAIN seq /\ d + j \in DOMAIN seq /\ seq[d + i] = seq[d + j]
    BY <1>4, <1>5, <1>7
  <2>2. d + i = d + j
    BY <1>7, <2>1 DEF IsInjective
  <2>3. QED
    BY <1>1, <1>5, <2>2
<1>8. ASSUME n # 0, Len(seq) # 0
      PROVE  seq[Len(seq)] \in ToSet(t)
  <2>1. m \in 1..m /\ d + m = Len(seq)
    BY <1>1, <1>2, <1>4, <1>8
  <2>2. t[m] = seq[Len(seq)]
    BY <1>4, <2>1
  <2>3. QED
    BY <1>5, <2>1, <2>2 DEF ToSet
<1>9. QED
  BY <1>4, <1>6, <1>7, <1>8 DEF t, IsInjective

\* The same when n elements are left.
LEMMA LastOfLong ==
  ASSUME NEW S, NEW seq \in Seq(S), NEW n \in Nat, n <= Len(seq)
  PROVE  /\ LastOf(seq, n) \in Seq(S)
         /\ Len(LastOf(seq, n)) = n
         /\ \A i \in 1..n : LastOf(seq, n)[i] = seq[(Len(seq) - n) + i]
<1>1. Dropped(seq, n) = Len(seq) - n
  BY DEF Dropped
<1>2. Len(seq) - (Len(seq) - n) = n
  OBVIOUS
<1>3. /\ LastOf(seq, n) \in Seq(S)
      /\ Len(LastOf(seq, n)) = Len(seq) - Dropped(seq, n)
      /\ \A i \in 1..(Len(seq) - Dropped(seq, n)) :
           LastOf(seq, n)[i] = seq[Dropped(seq, n) + i]
  BY LastOfElements
<1>4. QED
  BY <1>1, <1>2, <1>3, Zenon

\* Cutting before or after an outcome is pushed makes no difference.
LEMMA CutPush ==
  ASSUME NEW S, NEW h \in Seq(S), NEW o \in S, NEW c \in Nat \ {0}
  PROVE  LastOf(Append(h, o), c) = Append(LastOf(LastOf(h, c), c - 1), o)
<1>1. /\ Len(h) \in Nat /\ c - 1 \in Nat /\ c \in Nat
      /\ Append(h, o) \in Seq(S) /\ Len(Append(h, o)) = Len(h) + 1
  OBVIOUS
<1>2. CASE Len(h) <= c - 1
  BY <1>1, <1>2 DEF LastOf
<1>3. CASE c <= Len(h)
  <2> DEFINE a == Append(h, o)
             g == LastOf(h, c)
             k == LastOf(g, c - 1)
             l == LastOf(a, c)
             r == Append(k, o)
             d == Len(h) - c
  <2>1. d \in Nat /\ Len(h) = d + c /\ d + 1 \in Nat /\ d = Len(h) - c
    BY <1>1, <1>3
  <2>2. /\ a \in Seq(S) /\ Len(a) = Len(h) + 1
        /\ \A i \in 1..Len(h) : a[i] = h[i]
        /\ a[Len(h) + 1] = o
    BY <1>1
  <2> HIDE DEF a, d
  <2>3. c <= Len(a) /\ Len(a) - c = d + 1
    BY <1>1, <2>1, <2>2
  <2>4. g \in Seq(S) /\ Len(g) = c /\ \A i \in 1..c : g[i] = h[d + i]
    <3>1. c \in Nat /\ c <= Len(h)
      BY <1>1, <1>3
    <3>2. /\ g \in Seq(S) /\ Len(g) = c
          /\ \A i \in 1..c : g[i] = h[(Len(h) - c) + i]
      BY <3>1, LastOfLong, ZenonT(30)
    <3>3. QED
      BY <2>1, <3>2, Zenon
  <2> HIDE DEF g
  <2>5. c - 1 <= Len(g) /\ Len(g) - (c - 1) = 1
    BY <1>1, <2>4
  <2>6. k \in Seq(S) /\ Len(k) = c - 1 /\ \A i \in 1..(c - 1) : k[i] = g[1 + i]
    <3> DEFINE b == c - 1
    <3>1. b \in Nat /\ b <= Len(g) /\ Len(g) - b = 1
      BY <1>1, <2>5
    <3>2. k = LastOf(g, b)
      OBVIOUS
    <3>3. g \in Seq(S) /\ b \in Nat /\ b <= Len(g)
      BY <2>4, <3>1
    <3> HIDE DEF b, k
    <3>4. /\ k \in Seq(S) /\ Len(k) = b
          /\ \A i \in 1..b : k[i] = g[(Len(g) - b) + i]
      BY <3>2, <3>3, LastOfLong, ZenonT(30)
    <3>5. k \in Seq(S) /\ Len(k) = b /\ \A i \in 1..b : k[i] = g[1 + i]
      BY <3>1, <3>4, Zenon
    <3> QED BY <3>5 DEF b
  <2>7. l \in Seq(S) /\ Len(l) = c /\ \A i \in 1..c : l[i] = a[(d + 1) + i]
    <3>1. a \in Seq(S) /\ c \in Nat /\ c <= Len(a)
      BY <1>1, <2>2, <2>3
    <3>2. /\ l \in Seq(S) /\ Len(l) = c
          /\ \A i \in 1..c : l[i] = a[(Len(a) - c) + i]
      BY <3>1, LastOfLong, ZenonT(30)
    <3>3. QED
      BY <2>3, <3>2, Zenon
  <2> HIDE DEF k, l
  <2>8. /\ r \in Seq(S) /\ Len(r) = c /\ r[c] = o
        /\ \A i \in 1..(c - 1) : r[i] = k[i]
    BY <1>1, <2>6
  <2> HIDE DEF r
  <2>9. ASSUME NEW i \in 1..c PROVE l[i] = r[i]
    <3>1. l[i] = a[(d + 1) + i]
      BY <2>7
    <3>2. CASE i = c
      <4>1. (d + 1) + i = Len(h) + 1
        BY <1>1, <2>1, <3>2
      <4>2. QED
        BY <2>2, <2>8, <3>1, <3>2, <4>1
    <3>3. CASE i # c
      <4>1. /\ i \in 1..(c - 1) /\ 1 + i \in 1..c /\ (d + 1) + i = d + (1 + i)
            /\ (d + 1) + i \in 1..Len(h)
        BY <1>1, <2>1, <3>3
      <4>2. a[(d + 1) + i] = h[(d + 1) + i]
        BY <2>2, <4>1
      <4>3. r[i] = k[i]
        BY <2>8, <4>1
      <4>4. k[i] = g[1 + i]
        BY <2>6, <4>1
      <4>5. g[1 + i] = h[d + (1 + i)]
        BY <2>4, <4>1
      <4>6. QED
        BY <3>1, <4>1, <4>2, <4>3, <4>4, <4>5, Zenon
    <3>4. QED
      BY <3>2, <3>3
  <2>10. l = r
    BY <2>7, <2>8, <2>9, SeqEqual
  <2>11. QED
    BY <2>10 DEF l, r, k, g, a
<1>4. QED
  BY <1>1, <1>2, <1>3

\* Using a session moves it to the end of the cache and drops nothing else.
LEMMA TouchFacts ==
  ASSUME NEW S, NEW seq \in Seq(S), IsInjective(seq), NEW s \in S
  PROVE  /\ Touch(seq, s) \in Seq(S)
         /\ IsInjective(Touch(seq, s))
         /\ ToSet(Touch(seq, s)) = ToSet(seq) \cup {s}
         /\ Len(Touch(seq, s)) # 0
         /\ Touch(seq, s)[Len(Touch(seq, s))] = s
<1>0. Len(seq) \in Nat /\ DOMAIN seq = 1..Len(seq)
  OBVIOUS
<1>1. ASSUME NEW q \in Seq(S), IsInjective(q), s \notin ToSet(q),
             ToSet(q) \cup {s} = ToSet(seq) \cup {s}, Touch(seq, s) = Append(q, s)
      PROVE  /\ Touch(seq, s) \in Seq(S)
             /\ IsInjective(Touch(seq, s))
             /\ ToSet(Touch(seq, s)) = ToSet(seq) \cup {s}
             /\ Len(Touch(seq, s)) # 0
             /\ Touch(seq, s)[Len(Touch(seq, s))] = s
  <2> DEFINE t == Append(q, s)
  <2>1. /\ t \in Seq(S) /\ Len(q) \in Nat /\ Len(t) = Len(q) + 1
        /\ DOMAIN q = 1..Len(q) /\ DOMAIN t = 1..(Len(q) + 1)
        /\ t[Len(q) + 1] = s
        /\ \A i \in 1..Len(q) : t[i] = q[i] /\ q[i] # s
    BY <1>1 DEF ToSet
  <2> HIDE DEF t
  <2>2. ASSUME NEW i \in DOMAIN t, NEW j \in DOMAIN t, t[i] = t[j]
        PROVE  i = j
    <3>1. CASE i = Len(q) + 1 \/ j = Len(q) + 1
      BY <2>1, <2>2, <3>1
    <3>2. CASE ~(i = Len(q) + 1 \/ j = Len(q) + 1)
      <4>1. i \in DOMAIN q /\ j \in DOMAIN q /\ q[i] = q[j]
        BY <2>1, <2>2, <3>2
      <4>2. QED
        BY <1>1, <4>1 DEF IsInjective
    <3>3. QED
      BY <3>1, <3>2
  <2>3. ToSet(t) = ToSet(q) \cup {s}
    <3>1. ASSUME NEW x \in ToSet(t) PROVE x \in ToSet(q) \cup {s}
      BY <2>1 DEF ToSet
    <3>2. ASSUME NEW x \in ToSet(q) \cup {s} PROVE x \in ToSet(t)
      <4>1. CASE x = s
        <5>1. Len(q) + 1 \in DOMAIN t
          BY <2>1
        <5>2. QED
          BY <2>1, <4>1, <5>1 DEF ToSet
      <4>2. CASE x # s
        <5>1. PICK i \in DOMAIN q : q[i] = x
          BY <4>2 DEF ToSet
        <5>2. i \in DOMAIN t /\ t[i] = x
          BY <2>1, <5>1
        <5>3. QED
          BY <5>2 DEF ToSet
      <4>3. QED
        BY <4>1, <4>2
    <3>3. QED
      BY <3>1, <3>2
  <2>4. IsInjective(t)
    BY <2>2 DEF IsInjective
  <2>5. QED
    BY <1>1, <2>1, <2>3, <2>4 DEF t
<1>2. CASE s \notin ToSet(seq)
  BY <1>1, <1>2 DEF Touch
<1>3. CASE s \in ToSet(seq)
  <2> DEFINE k == CHOOSE i \in DOMAIN seq : seq[i] = s
             q == RemoveAt(seq, k)
  <2>1. k \in 1..Len(seq) /\ seq[k] = s
    BY <1>0, <1>3 DEF ToSet
  <2>2. Touch(seq, s) = Append(q, s)
    BY <1>3 DEF Touch
  <2> HIDE DEF k
  <2>3. /\ q \in Seq(S) /\ Len(q) = Len(seq) - 1
        /\ \A i \in 1..(Len(seq) - 1) : q[i] = IF i < k THEN seq[i] ELSE seq[i + 1]
    <3> DEFINE u == SubSeq(seq, 1, k - 1)
               v == SubSeq(seq, k + 1, Len(seq))
    <3>0. u = SubSeq(seq, 1, k - 1) /\ v = SubSeq(seq, k + 1, Len(seq))
      OBVIOUS
    <3> HIDE DEF u, v
    <3>1. u \in Seq(S) /\ Len(u) = k - 1 /\ \A i \in 1..(k - 1) : u[i] = seq[i]
      BY <2>1, <3>0
    <3>2. /\ v \in Seq(S) /\ Len(v) = Len(seq) - k
          /\ \A i \in 1..(Len(seq) - k) : v[i] = seq[k + i]
      BY <2>1, <3>0
    <3>3. /\ u \o v \in Seq(S) /\ Len(u \o v) = Len(seq) - 1
          /\ \A i \in 1..(Len(seq) - 1) :
               (u \o v)[i] = IF i <= k - 1 THEN u[i] ELSE v[i - (k - 1)]
      <4>1. /\ u \o v \in Seq(S) /\ Len(u \o v) = Len(u) + Len(v)
            /\ \A i \in 1..(Len(u) + Len(v)) :
                 (u \o v)[i] = IF i <= Len(u) THEN u[i] ELSE v[i - Len(u)]
        BY <3>1, <3>2, ConcatProperties
      <4>2. Len(u) + Len(v) = Len(seq) - 1
        BY <1>0, <2>1, <3>1, <3>2
      <4>3. QED
        BY <3>1, <4>1, <4>2
    <3>4. q = u \o v
      BY DEF RemoveAt, u, v
    <3> HIDE DEF q
    <3>5. ASSUME NEW i \in 1..(Len(seq) - 1)
          PROVE  q[i] = IF i < k THEN seq[i] ELSE seq[i + 1]
      <4>1. CASE i < k
        BY <1>0, <2>1, <3>1, <3>3, <3>4, <4>1
      <4>2. CASE ~(i < k)
        <5>1. i - (k - 1) \in 1..(Len(seq) - k) /\ k + (i - (k - 1)) = i + 1
          BY <1>0, <2>1, <4>2
        <5>2. v[i - (k - 1)] = seq[i + 1]
          BY <3>2, <5>1
        <5>3. q[i] = v[i - (k - 1)]
          BY <1>0, <2>1, <3>3, <3>4, <4>2
        <5>4. QED
          BY <4>2, <5>2, <5>3
      <4>3. QED
        BY <4>1, <4>2
    <3>6. QED
      BY <3>3, <3>4, <3>5
  <2> HIDE DEF q
  <2>4. DOMAIN q = 1..(Len(seq) - 1)
    BY <1>0, <2>3
  <2>5. ASSUME NEW i \in DOMAIN q
        PROVE  \E m \in DOMAIN seq : /\ m # k /\ q[i] = seq[m]
                                     /\ m = IF i < k THEN i ELSE i + 1
    BY <1>0, <2>1, <2>3, <2>4
  <2>6. IsInjective(q)
    <3>1. ASSUME NEW i \in DOMAIN q, NEW j \in DOMAIN q, q[i] = q[j]
          PROVE  i = j
      <4>1. PICK m \in DOMAIN seq : q[i] = seq[m] /\ m = IF i < k THEN i ELSE i + 1
        BY <2>5
      <4>2. PICK n \in DOMAIN seq : q[j] = seq[n] /\ n = IF j < k THEN j ELSE j + 1
        BY <2>5
      <4>3. m = n
        BY <3>1, <4>1, <4>2 DEF IsInjective
      <4>4. i \in Nat /\ j \in Nat /\ k \in Nat
        BY <1>0, <2>1, <2>4
      <4>5. QED
        BY <4>1, <4>2, <4>3, <4>4
    <3>2. QED
      BY <3>1 DEF IsInjective
  <2>7. s \notin ToSet(q) /\ ToSet(q) \subseteq ToSet(seq)
    <3>1. ASSUME NEW x \in ToSet(q) PROVE x # s /\ x \in ToSet(seq)
      <4>1. PICK i \in DOMAIN q : q[i] = x
        BY DEF ToSet
      <4>2. PICK m \in DOMAIN seq : m # k /\ q[i] = seq[m]
        BY <2>5
      <4>3. seq[m] # seq[k]
        BY <1>0, <2>1, <4>2 DEF IsInjective
      <4>4. QED
        BY <2>1, <4>1, <4>2, <4>3 DEF ToSet
    <3>2. QED
      BY <3>1
  <2>8. ASSUME NEW x \in ToSet(seq), x # s PROVE x \in ToSet(q)
    <3>1. PICK m \in DOMAIN seq : seq[m] = x
      BY DEF ToSet
    <3>2. m # k /\ m \in 1..Len(seq)
      BY <1>0, <2>1, <2>8, <3>1
    <3>3. CASE m < k
      <4>1. m \in DOMAIN q /\ q[m] = x
        BY <1>0, <2>1, <2>3, <2>4, <3>1, <3>2, <3>3
      <4>2. QED
        BY <4>1 DEF ToSet
    <3>4. CASE m > k
      <4> DEFINE i == m - 1
      <4>1. i \in 1..(Len(seq) - 1) /\ ~(i < k) /\ i + 1 = m
        BY <1>0, <2>1, <3>2, <3>4
      <4> HIDE DEF i
      <4>2. i \in DOMAIN q /\ q[i] = x
        BY <2>3, <2>4, <3>1, <4>1
      <4>3. QED
        BY <4>2 DEF ToSet
    <3>5. QED
      BY <1>0, <2>1, <3>2, <3>3, <3>4
  <2>9. ToSet(q) \cup {s} = ToSet(seq) \cup {s}
    BY <2>7, <2>8
  <2>10. QED
    BY <1>1, <2>2, <2>3, <2>6, <2>7, <2>9
<1>4. QED
  BY <1>2, <1>3

-----------------------------------------------------------------------------
(* What the operations store *)

\* Nothing is recorded, cached or logged for a session that was not used.
UnusedInv ==
  /\ ToSet(cache) \subseteq used
  /\ \A s \in Sessions \ used : full[s] = Fresh /\ last[s] = None /\ whole[s] = None

\* Cutting the torn line off costs no session whose last append succeeded.
LogInv ==
  /\ ~torn => whole = last
  /\ \A s \in Sessions \ unlogged : whole[s] = last[s]

\* A session that was neither reset nor lost has everything recorded for it in
\* the cache while it is there, and in the log if its last append is readable.
KeptInv ==
  \A s \in used \ (lost \cup reset) :
    /\ s \in ToSet(cache) => record[s] = Cut(full[s])
    /\ s \notin unlogged => last[s] = Cut(full[s])

\* The inductive invariant of the store.
StoreInv ==
  /\ StoreTypeOK
  /\ IsFiniteSet(used)
  /\ UnusedInv
  /\ LogInv
  /\ KeptInv

\* A record by its fields.
Rec(a, d, h, p) ==
  [action_count |-> a, deny_count |-> d, history |-> h, last_provenance |-> p]

\* A record is its four fields.
LEMMA RecFields ==
  ASSUME NEW r \in SessionRecord
  PROVE  /\ r = Rec(r.action_count, r.deny_count, r.history, r.last_provenance)
         /\ r.action_count \in Nat /\ r.deny_count \in Nat
         /\ r.history \in Seq(Outcomes) /\ r.last_provenance \in Seq(Nat)
BY DEF SessionRecord, Rec

\* A record with another action count, field by field.
LEMMA RecCount ==
  ASSUME NEW r \in SessionRecord, NEW x
  PROVE  [r EXCEPT !.action_count = x]
           = Rec(x, r.deny_count, r.history, r.last_provenance)
<1> DEFINE a == r.action_count
           d == r.deny_count
           h == r.history
           p == r.last_provenance
<1>1. r = Rec(a, d, h, p)
  BY RecFields
<1> HIDE DEF a, d, h, p
<1>2. [Rec(a, d, h, p) EXCEPT !.action_count = x] = Rec(x, d, h, p)
  BY DEF Rec
<1>3. [r EXCEPT !.action_count = x] = Rec(x, d, h, p)
  BY <1>1, <1>2, Zenon
<1>4. QED
  BY <1>3 DEF a, d, h, p

\* A record with another history, field by field.
LEMMA RecHistory ==
  ASSUME NEW r \in SessionRecord, NEW x
  PROVE  [r EXCEPT !.history = x]
           = Rec(r.action_count, r.deny_count, x, r.last_provenance)
<1> DEFINE a == r.action_count
           d == r.deny_count
           h == r.history
           p == r.last_provenance
<1>1. r = Rec(a, d, h, p)
  BY RecFields
<1> HIDE DEF a, d, h, p
<1>2. [Rec(a, d, h, p) EXCEPT !.history = x] = Rec(a, d, x, p)
  BY DEF Rec
<1>3. [r EXCEPT !.history = x] = Rec(a, d, x, p)
  BY <1>1, <1>2, Zenon
<1>4. QED
  BY <1>3 DEF a, d, h, p

\* A record with another anchor, field by field.
LEMMA RecAnchor ==
  ASSUME NEW r \in SessionRecord, NEW x
  PROVE  [r EXCEPT !.last_provenance = x]
           = Rec(r.action_count, r.deny_count, r.history, x)
<1> DEFINE a == r.action_count
           d == r.deny_count
           h == r.history
           p == r.last_provenance
<1>1. r = Rec(a, d, h, p)
  BY RecFields
<1> HIDE DEF a, d, h, p
<1>2. [Rec(a, d, h, p) EXCEPT !.last_provenance = x] = Rec(a, d, h, x)
  BY DEF Rec
<1>3. [r EXCEPT !.last_provenance = x] = Rec(a, d, h, x)
  BY <1>1, <1>2, Zenon
<1>4. QED
  BY <1>3 DEF a, d, h, p

\* Cutting a record touches its history only.
LEMMA CutFacts ==
  ASSUME NEW r \in SessionRecord
  PROVE  /\ Cut(r) = Rec(r.action_count, r.deny_count,
                         LastOf(r.history, HISTORY_CAP), r.last_provenance)
         /\ Cut(r) \in Stored
<1>1. HISTORY_CAP \in Nat
  BY StoreAssumption
<1>2. r.history \in Seq(Outcomes)
  BY DEF SessionRecord
<1>3. LastOf(r.history, HISTORY_CAP) \in Seq(Outcomes)
      /\ Len(LastOf(r.history, HISTORY_CAP)) <= HISTORY_CAP
  BY <1>1, <1>2, LastOfFacts
<1>4. Cut(r) = Rec(r.action_count, r.deny_count,
                   LastOf(r.history, HISTORY_CAP), r.last_provenance)
  BY <1>3, RecHistory DEF Cut
<1>5. Cut(r) \in SessionRecord
  BY <1>3, <1>4 DEF SessionRecord, Rec
<1>6. Cut(r).history = LastOf(r.history, HISTORY_CAP)
  BY <1>4 DEF Rec
<1>7. QED
  BY <1>3, <1>4, <1>5, <1>6 DEF Stored

\* A new session's record may be stored and has nothing to cut.
LEMMA FreshStored == Fresh \in Stored /\ Fresh \in SessionRecord /\ Cut(Fresh) = Fresh
<1>1. <<>> \in Seq(Outcomes) /\ <<>> \in Seq(Nat) /\ Len(<<>>) = 0
  OBVIOUS
<1>2. HISTORY_CAP \in Nat
  BY StoreAssumption
<1>3. Fresh \in SessionRecord
  BY <1>1 DEF Fresh, SessionRecord
<1>4. Fresh \in Stored
  BY <1>1, <1>2, <1>3 DEF Stored, Fresh
<1>5. LastOf(<<>>, HISTORY_CAP) = <<>>
  BY <1>1, <1>2 DEF LastOf
<1>6. Cut(Fresh) = Fresh
  BY <1>3, <1>5, CutFacts DEF Fresh, Rec
<1>7. QED
  BY <1>3, <1>4, <1>6

\* push_outcome keeps a record within the cap, and commutes with the cut.
LEMMA PushFacts ==
  ASSUME NEW r \in SessionRecord, NEW o \in Outcomes
  PROVE  /\ push_outcome(r, o) \in Stored
         /\ push_outcome(r, o)
              = Rec(r.action_count,
                    IF o = "Deny" THEN r.deny_count + 1 ELSE r.deny_count,
                    Append(LastOf(r.history, HISTORY_CAP - 1), o),
                    r.last_provenance)
<1> DEFINE d == IF o = "Deny" THEN r.deny_count + 1 ELSE r.deny_count
           l == LastOf(r.history, HISTORY_CAP - 1)
<1>1. HISTORY_CAP - 1 \in Nat /\ HISTORY_CAP \in Nat
  BY StoreAssumption
<1>2. r.history \in Seq(Outcomes) /\ r.deny_count \in Nat
  BY DEF SessionRecord
<1>3. l \in Seq(Outcomes) /\ Len(l) <= HISTORY_CAP - 1
  BY <1>1, <1>2, LastOfFacts
<1>4. push_outcome(r, o) = Rec(r.action_count, d, Append(l, o), r.last_provenance)
  BY DEF push_outcome, Rec
<1>5. d \in Nat
  BY <1>2
<1> HIDE DEF l, d
<1>6. Append(l, o) \in Seq(Outcomes) /\ Len(Append(l, o)) <= HISTORY_CAP
  BY <1>1, <1>3
<1>7. push_outcome(r, o) \in SessionRecord
  BY <1>4, <1>5, <1>6 DEF SessionRecord, Rec
<1>8. push_outcome(r, o).history = Append(l, o)
  BY <1>4 DEF Rec
<1>9. push_outcome(r, o) \in Stored
  BY <1>6, <1>7, <1>8 DEF Stored
<1>10. QED
  BY <1>4, <1>9 DEF l, d

\* What record_action, record_outcome and advance_provenance store is the cut of
\* what has been recorded, if they started from it.
LEMMA ActionFacts ==
  ASSUME NEW c \in Stored, NEW f \in SessionRecord
  PROVE  /\ [c EXCEPT !.action_count = @ + 1] \in Stored
         /\ [f EXCEPT !.action_count = @ + 1] \in SessionRecord
         /\ c = Cut(f) =>
              [c EXCEPT !.action_count = @ + 1] = Cut([f EXCEPT !.action_count = @ + 1])
<1>1. ASSUME NEW r \in SessionRecord
      PROVE  [r EXCEPT !.action_count = @ + 1]
               = Rec(r.action_count + 1, r.deny_count, r.history, r.last_provenance)
  BY RecCount
<1>2. ASSUME NEW r \in SessionRecord
      PROVE  Rec(r.action_count + 1, r.deny_count, r.history, r.last_provenance)
               \in SessionRecord
  BY DEF SessionRecord, Rec
<1>3. c \in SessionRecord /\ Len(c.history) <= HISTORY_CAP
  BY DEF Stored
<1> DEFINE g == Rec(f.action_count + 1, f.deny_count, f.history, f.last_provenance)
           k == Rec(c.action_count + 1, c.deny_count, c.history, c.last_provenance)
<1>4. g \in SessionRecord /\ k \in SessionRecord
  BY <1>2, <1>3
<1>5. k.history = c.history
  BY DEF Rec
<1>6. k \in Stored
  BY <1>3, <1>4, <1>5 DEF Stored
<1>7. ASSUME c = Cut(f) PROVE k = Cut(g)
  <2>1. Cut(f) = Rec(f.action_count, f.deny_count, LastOf(f.history, HISTORY_CAP),
                     f.last_provenance)
    BY CutFacts
  <2>2. Cut(g) = Rec(g.action_count, g.deny_count, LastOf(g.history, HISTORY_CAP),
                     g.last_provenance)
    BY <1>4, CutFacts
  <2>3. QED
    BY <1>7, <2>1, <2>2 DEF Rec
<1>8. QED
  BY <1>1, <1>3, <1>4, <1>6, <1>7

\* push_outcome keeps the record's type, and the stored record stays the cut of
\* what was recorded.
LEMMA OutcomeFacts ==
  ASSUME NEW c \in Stored, NEW f \in SessionRecord, NEW o \in Outcomes
  PROVE  /\ push_outcome(c, o) \in Stored
         /\ [push_outcome(f, o) EXCEPT !.history = Append(f.history, o)] \in SessionRecord
         /\ c = Cut(f) =>
              push_outcome(c, o)
                = Cut([push_outcome(f, o) EXCEPT !.history = Append(f.history, o)])
<1> DEFINE d == IF o = "Deny" THEN f.deny_count + 1 ELSE f.deny_count
           h == Append(f.history, o)
           g == Rec(f.action_count, d, h, f.last_provenance)
           p == push_outcome(f, o)
<1>1. c \in SessionRecord
  BY DEF Stored
<1>2. push_outcome(c, o) \in Stored
  BY <1>1, PushFacts
<1>3. f.history \in Seq(Outcomes) /\ f.deny_count \in Nat /\ h \in Seq(Outcomes)
      /\ f.action_count \in Nat /\ f.last_provenance \in Seq(Nat) /\ d \in Nat
  BY DEF SessionRecord
<1> HIDE DEF h, d
<1>4. p \in SessionRecord /\ p.action_count = f.action_count /\ p.deny_count = d
      /\ p.last_provenance = f.last_provenance
  BY PushFacts DEF Stored, d, Rec
<1> HIDE DEF p
<1>5. [p EXCEPT !.history = h] = Rec(p.action_count, p.deny_count, h, p.last_provenance)
  BY <1>3, <1>4, RecHistory
<1>6. [p EXCEPT !.history = h] = g
  BY <1>4, <1>5
<1>7. g \in SessionRecord
  BY <1>3 DEF SessionRecord, Rec
<1>8. ASSUME c = Cut(f) PROVE push_outcome(c, o) = Cut(g)
  <2>1. Cut(f) = Rec(f.action_count, f.deny_count, LastOf(f.history, HISTORY_CAP),
                     f.last_provenance)
    BY CutFacts
  <2>2. /\ c.action_count = f.action_count /\ c.deny_count = f.deny_count
        /\ c.history = LastOf(f.history, HISTORY_CAP)
        /\ c.last_provenance = f.last_provenance
    BY <1>8, <2>1 DEF Rec
  <2>3. Cut(g) = Rec(f.action_count, d, LastOf(h, HISTORY_CAP), f.last_provenance)
    BY <1>7, CutFacts DEF Rec
  <2>4. LastOf(h, HISTORY_CAP)
          = Append(LastOf(LastOf(f.history, HISTORY_CAP), HISTORY_CAP - 1), o)
    BY <1>3, StoreAssumption, CutPush DEF h
  <2>5. push_outcome(c, o)
          = Rec(c.action_count, IF o = "Deny" THEN c.deny_count + 1 ELSE c.deny_count,
                Append(LastOf(c.history, HISTORY_CAP - 1), o), c.last_provenance)
    BY <1>1, PushFacts
  <2>6. QED
    BY <2>2, <2>3, <2>4, <2>5 DEF d
<1>9. QED
  BY <1>2, <1>6, <1>7, <1>8 DEF h, p

\* The same for a new anchor.
LEMMA ProvenanceFacts ==
  ASSUME NEW c \in Stored, NEW f \in SessionRecord, NEW n \in Nat
  PROVE  /\ [c EXCEPT !.last_provenance = Append(@, n)] \in Stored
         /\ [f EXCEPT !.last_provenance = Append(@, n)] \in SessionRecord
         /\ c = Cut(f) =>
              [c EXCEPT !.last_provenance = Append(@, n)]
                = Cut([f EXCEPT !.last_provenance = Append(@, n)])
<1>1. ASSUME NEW r \in SessionRecord
      PROVE  [r EXCEPT !.last_provenance = Append(@, n)]
               = Rec(r.action_count, r.deny_count, r.history, Append(r.last_provenance, n))
  <2>1. Append(r.last_provenance, n) \in Seq(Nat)
    BY DEF SessionRecord
  <2>2. QED
    BY <2>1, RecAnchor
<1>2. ASSUME NEW r \in SessionRecord
      PROVE  Rec(r.action_count, r.deny_count, r.history, Append(r.last_provenance, n))
               \in SessionRecord
  <2>1. Append(r.last_provenance, n) \in Seq(Nat)
    BY DEF SessionRecord
  <2>2. QED
    BY <2>1 DEF SessionRecord, Rec
<1>3. c \in SessionRecord /\ Len(c.history) <= HISTORY_CAP
  BY DEF Stored
<1> DEFINE g == Rec(f.action_count, f.deny_count, f.history, Append(f.last_provenance, n))
           k == Rec(c.action_count, c.deny_count, c.history, Append(c.last_provenance, n))
<1>4. g \in SessionRecord /\ k \in SessionRecord
  BY <1>2, <1>3
<1>5. k.history = c.history
  BY DEF Rec
<1>6. k \in Stored
  BY <1>3, <1>4, <1>5 DEF Stored
<1>7. ASSUME c = Cut(f) PROVE k = Cut(g)
  <2>1. Cut(f) = Rec(f.action_count, f.deny_count, LastOf(f.history, HISTORY_CAP),
                     f.last_provenance)
    BY CutFacts
  <2>2. Cut(g) = Rec(g.action_count, g.deny_count, LastOf(g.history, HISTORY_CAP),
                     g.last_provenance)
    BY <1>4, CutFacts
  <2>3. QED
    BY <1>7, <2>1, <2>2 DEF Rec
<1>8. QED
  BY <1>1, <1>3, <1>4, <1>6, <1>7

-----------------------------------------------------------------------------
(* The invariant *)

\* StoreInv holds of a store without a log.
LEMMA StoreStart == StoreInit => StoreInv
<1> SUFFICES ASSUME StoreInit PROVE StoreInv
  OBVIOUS
<1> USE DEF StoreInit
<1>1. cache \in Seq(Sessions) /\ Len(cache) = 0 /\ DOMAIN cache = {}
  OBVIOUS
<1>2. ToSet(cache) = {} /\ IsInjective(cache)
  BY <1>1 DEF ToSet, IsInjective
<1>3. record \in [Sessions -> Stored] /\ full \in [Sessions -> SessionRecord]
  BY FreshStored
<1>4. torn \in BOOLEAN /\ garbled \in BOOLEAN
  BY Zenon
<1>5. StoreTypeOK
  BY <1>1, <1>2, <1>3, <1>4, StoreAssumption DEF StoreTypeOK
<1>6. IsFiniteSet(used)
  BY FS_EmptySet
<1>7. UnusedInv /\ LogInv /\ KeptInv
  BY <1>2 DEF UnusedInv, LogInv, KeptInv
<1>8. QED
  BY <1>5, <1>6, <1>7 DEF StoreInv

\* get_or_insert keeps the cache within its capacity, with s in it, and caches
\* nothing else.
LEMMA CacheFacts ==
  ASSUME StoreTypeOK, NEW s \in Sessions
  PROVE  /\ get_or_insert(s) \in Seq(Sessions)
         /\ Len(get_or_insert(s)) <= Capacity
         /\ IsInjective(get_or_insert(s))
         /\ s \in ToSet(get_or_insert(s))
         /\ ToSet(get_or_insert(s)) \subseteq ToSet(cache) \cup {s}
<1> DEFINE t == Touch(cache, s)
<1>1. cache \in Seq(Sessions) /\ IsInjective(cache)
  BY DEF StoreTypeOK
<1>2. /\ t \in Seq(Sessions) /\ IsInjective(t)
      /\ ToSet(t) = ToSet(cache) \cup {s}
      /\ Len(t) # 0 /\ t[Len(t)] = s
  BY <1>1, TouchFacts
<1> HIDE DEF t
<1>3. Capacity \in Nat /\ Capacity # 0
  BY StoreAssumption
<1>4. /\ LastOf(t, Capacity) \in Seq(Sessions)
      /\ Len(LastOf(t, Capacity)) <= Capacity
      /\ ToSet(LastOf(t, Capacity)) \subseteq ToSet(t)
      /\ IsInjective(LastOf(t, Capacity))
      /\ t[Len(t)] \in ToSet(LastOf(t, Capacity))
  BY <1>2, <1>3, LastOfFacts
<1>5. QED
  BY <1>2, <1>4 DEF get_or_insert, t

\* An append, written or not, concerns its own session only.
LEMMA LogFacts ==
  ASSUME StoreTypeOK, LogInv, NEW s \in Sessions, NEW r \in Stored,
         LogWritten(s, r) \/ LogFailed(s, r)
  PROVE  /\ last' \in [Sessions -> Stored \cup {None}]
         /\ whole' \in [Sessions -> Stored \cup {None}]
         /\ torn' \in BOOLEAN /\ garbled' \in BOOLEAN
         /\ unlogged' \in SUBSET Sessions
         /\ LogInv'
         /\ \A u \in Sessions \ {s} :
              /\ u \notin unlogged' => u \notin unlogged /\ last'[u] = last[u]
              /\ last'[u] \in {last[u], whole[u]} /\ whole'[u] \in {last[u], whole[u]}
         /\ s \notin unlogged' => last'[s] = r
<1> USE DEF StoreTypeOK
<1>1. torn' \in BOOLEAN /\ garbled' \in BOOLEAN
  BY Zenon DEF LogWritten, LogFailed, log
<1>2. /\ last' \in {last, whole, [last EXCEPT ![s] = r]}
      /\ whole' \in {last', whole}
  BY DEF LogWritten, LogFailed, log
<1>3. [last EXCEPT ![s] = r] \in [Sessions -> Stored \cup {None}]
  OBVIOUS
<1>4. last' \in [Sessions -> Stored \cup {None}] /\ whole' \in [Sessions -> Stored \cup {None}]
  BY <1>2, <1>3, Zenon
<1>5. unlogged' \in SUBSET Sessions
  BY DEF LogWritten, LogFailed
<1>6. \A u \in Sessions \ {s} : [last EXCEPT ![s] = r][u] = last[u]
  OBVIOUS
<1>7. ASSUME NEW u \in Sessions \ {s}
      PROVE  /\ u \notin unlogged' => u \notin unlogged
             /\ last'[u] \in {last[u], whole[u]} /\ whole'[u] \in {last[u], whole[u]}
  <2>1. u \notin unlogged' => u \notin unlogged
    BY DEF LogWritten, LogFailed
  <2>2. last'[u] \in {last[u], whole[u]}
    BY <1>2, <1>6, Zenon
  <2>3. QED
    BY <1>2, <2>1, <2>2, Zenon
<1>8. \A u \in Sessions \ {s} : u \notin unlogged' =>
        last'[u] = last[u] /\ whole'[u] = last'[u]
  BY <1>7 DEF LogInv
<1>9. s \notin unlogged' => last' = [last EXCEPT ![s] = r] /\ whole' = last'
  BY DEF LogWritten, LogFailed
<1>10. [last EXCEPT ![s] = r][s] = r
  OBVIOUS
<1>11. ~torn' => whole' = last'
  BY DEF LogWritten, LogFailed, log, LogInv
<1>12. \A u \in Sessions \ unlogged' : whole'[u] = last'[u]
  BY <1>8, <1>9
<1>13. LogInv'
  BY <1>11, <1>12 DEF LogInv
<1>14. QED
  BY <1>1, <1>4, <1>5, <1>7, <1>8, <1>9, <1>10, <1>13

\* Current is what was recorded for a session that is new, or is cached and was
\* neither reset nor lost.
LEMMA CurrentFacts ==
  ASSUME StoreInv, NEW s \in Sessions
  PROVE  /\ Current(s) \in Stored
         /\ full[s] \in SessionRecord
         /\ s \notin lost \cup reset /\ (s \in used => s \in ToSet(cache))
              => Current(s) = Cut(full[s])
<1> USE DEF StoreInv, StoreTypeOK
<1>1. Current(s) \in Stored
  BY FreshStored DEF Current
<1>2. ASSUME s \notin lost \cup reset, s \in used => s \in ToSet(cache)
      PROVE  Current(s) = Cut(full[s])
  <2>1. CASE s \in used
    BY <1>2, <2>1 DEF KeptInv, Current
  <2>2. CASE s \notin used
    BY <2>2, FreshStored DEF UnusedInv, Current
  <2>3. QED
    BY <2>1, <2>2
<1>3. QED
  BY <1>1, <1>2

\* An operation that stores r for s, where f is what has been recorded now.
LEMMA StoreKeeps ==
  ASSUME StoreInv, NEW s \in Sessions, NEW r \in Stored, NEW f \in SessionRecord,
         Store(s, r), full' = [full EXCEPT ![s] = f],
         Current(s) = Cut(full[s]) => r = Cut(f),
         used' = used \cup {s},
         reset' = reset \cup ((used \ ToSet(cache)) \cap {s}),
         UNCHANGED <<lost, restarts>>
  PROVE  StoreInv'
<1> USE DEF StoreInv
<1>1. /\ record' = [record EXCEPT ![s] = r]
      /\ cache' = get_or_insert(s)
      /\ LogWritten(s, r) \/ LogFailed(s, r)
  BY DEF Store
<1>2. /\ cache' \in Seq(Sessions) /\ Len(cache') <= Capacity /\ IsInjective(cache')
      /\ s \in ToSet(cache') /\ ToSet(cache') \subseteq ToSet(cache) \cup {s}
  BY <1>1, CacheFacts
<1>3. /\ last' \in [Sessions -> Stored \cup {None}]
      /\ whole' \in [Sessions -> Stored \cup {None}]
      /\ torn' \in BOOLEAN /\ garbled' \in BOOLEAN
      /\ unlogged' \in SUBSET Sessions
      /\ LogInv'
      /\ \A u \in Sessions \ {s} :
           /\ u \notin unlogged' => u \notin unlogged /\ last'[u] = last[u]
           /\ last'[u] \in {last[u], whole[u]} /\ whole'[u] \in {last[u], whole[u]}
      /\ s \notin unlogged' => last'[s] = r
  BY <1>1, LogFacts
<1>4. record' \in [Sessions -> Stored] /\ full' \in [Sessions -> SessionRecord]
  BY <1>1 DEF StoreTypeOK
<1>5. reset' \in SUBSET Sessions
  BY DEF StoreTypeOK
<1>6. StoreTypeOK'
  BY <1>2, <1>3, <1>4, <1>5 DEF StoreTypeOK
<1>7. IsFiniteSet(used')
  BY FS_AddElement
<1>8. record'[s] = r /\ full'[s] = f
  BY <1>1 DEF StoreTypeOK
<1>9. \A u \in Sessions \ {s} : record'[u] = record[u] /\ full'[u] = full[u]
  BY <1>1 DEF StoreTypeOK
<1>10. UnusedInv'
  <2>1. ToSet(cache') \subseteq used'
    BY <1>2 DEF UnusedInv
  <2>2. ASSUME NEW u \in Sessions \ used'
        PROVE  full'[u] = Fresh /\ last'[u] = None /\ whole'[u] = None
    <3>1. u \in Sessions \ {s} /\ u \in Sessions \ used
      OBVIOUS
    <3>2. full[u] = Fresh /\ last[u] = None /\ whole[u] = None
      BY <3>1 DEF UnusedInv
    <3>3. QED
      BY <1>3, <1>9, <3>1, <3>2
  <2>3. ToSet(cache)' = ToSet(cache')
    BY DEF ToSet
  <2>4. QED
    BY <2>1, <2>2, <2>3 DEF UnusedInv
<1>11. KeptInv'
  <2>1. ASSUME NEW u \in used' \ (lost' \cup reset')
        PROVE  /\ u \in ToSet(cache') => record'[u] = Cut(full'[u])
               /\ u \notin unlogged' => last'[u] = Cut(full'[u])
    <3>1. u \notin lost \cup reset
      OBVIOUS
    <3>2. CASE u = s
      <4>1. s \in used => s \in ToSet(cache)
        BY <2>1, <3>2
      <4>2. r = Cut(f)
        BY <3>1, <3>2, <4>1, CurrentFacts
      <4>3. QED
        BY <1>3, <1>8, <3>2, <4>2
    <3>3. CASE u # s
      <4>1. u \in used \ (lost \cup reset) /\ u \in Sessions \ {s}
        BY <3>1, <3>3 DEF StoreTypeOK
      <4>2. /\ u \in ToSet(cache) => record[u] = Cut(full[u])
            /\ u \notin unlogged => last[u] = Cut(full[u])
        BY <4>1 DEF KeptInv
      <4>3. u \in ToSet(cache') => u \in ToSet(cache)
        BY <1>2, <3>3
      <4>4. QED
        BY <1>3, <1>9, <4>1, <4>2, <4>3
    <3>4. QED
      BY <3>2, <3>3
  <2>2. ToSet(cache)' = ToSet(cache') /\ \A u \in Sessions : Cut(full[u])' = Cut(full'[u])
    BY DEF ToSet, Cut, LastOf
  <2>3. used' \subseteq Sessions
    BY <1>6 DEF StoreTypeOK
  <2>4. QED
    BY <2>1, <2>2, <2>3 DEF KeptInv
<1>12. QED
  BY <1>3, <1>6, <1>7, <1>10, <1>11

\* Each operation stores the cut of what is recorded now.
LEMMA OperateStep ==
  ASSUME StoreInv, NEW s \in Sessions, Operate(s)
  PROVE  StoreInv'
<1>1. /\ used' = used \cup {s}
      /\ reset' = reset \cup ((used \ ToSet(cache)) \cap {s})
      /\ UNCHANGED <<lost, restarts>>
  BY DEF Operate
<1>2. /\ Current(s) \in Stored /\ full[s] \in SessionRecord
  BY CurrentFacts
<1>3. CASE record_action(s)
  <2> DEFINE r == [Current(s) EXCEPT !.action_count = @ + 1]
             f == [full[s] EXCEPT !.action_count = @ + 1]
  <2>1. Store(s, r) /\ full' = [full EXCEPT ![s] = f]
    BY <1>3 DEF record_action
  <2>2. r \in Stored /\ f \in SessionRecord /\ (Current(s) = Cut(full[s]) => r = Cut(f))
    BY <1>2, ActionFacts
  <2> HIDE DEF r, f
  <2>3. QED
    BY <1>1, <2>1, <2>2, StoreKeeps
<1>4. CASE \E o \in Outcomes : record_outcome(s, o)
  <2> PICK o \in Outcomes : record_outcome(s, o)
    BY <1>4
  <2> DEFINE r == push_outcome(Current(s), o)
             f == [push_outcome(full[s], o) EXCEPT !.history = Append(full[s].history, o)]
  <2>1. Store(s, r) /\ full' = [full EXCEPT ![s] = f]
    BY DEF record_outcome
  <2>2. r \in Stored /\ f \in SessionRecord /\ (Current(s) = Cut(full[s]) => r = Cut(f))
    BY <1>2, OutcomeFacts
  <2> HIDE DEF r, f
  <2>3. QED
    BY <1>1, <2>1, <2>2, StoreKeeps
<1>5. CASE advance_provenance(s)
  <2> DEFINE n == full[s].action_count
             c == Current(s)
             g == full[s]
             r == [c EXCEPT !.last_provenance = Append(@, n)]
             f == [g EXCEPT !.last_provenance = Append(@, n)]
  <2>1. Store(s, r) /\ full' = [full EXCEPT ![s] = f]
    BY <1>5 DEF advance_provenance
  <2>2. n \in Nat /\ c \in Stored /\ g \in SessionRecord
    BY <1>2 DEF SessionRecord
  <2> HIDE DEF n, c, g
  <2>3. r \in Stored /\ f \in SessionRecord /\ (c = Cut(g) => r = Cut(f))
    BY <2>2, ProvenanceFacts, ZenonT(60)
  <2>4. Current(s) = Cut(full[s]) => r = Cut(f)
    BY <2>3 DEF c, g
  <2> HIDE DEF r, f
  <2>5. QED
    BY <1>1, <2>1, <2>3, <2>4, StoreKeeps
<1>6. QED
  BY <1>3, <1>4, <1>5 DEF Operate

\* The replay puts logged sessions into the cache, each once.
LEMMA ReplayFacts ==
  ASSUME StoreInv, NEW c \in Replayed
  PROVE  /\ c \in Seq(Sessions) /\ Len(c) <= Capacity /\ IsInjective(c)
         /\ ToSet(c) \subseteq Logged
<1> USE DEF StoreInv
<1>1. Logged \subseteq used
  BY DEF Logged, UnusedInv
<1>2. Cardinality(Logged) \in Nat
  BY <1>1, FS_Subset, FS_CardinalityType
<1>3. PICK q \in SetToSeqs(Logged) : c = LastOf(q, Capacity)
  BY DEF Replayed
<1> DEFINE n == Cardinality(Logged)
<1>4. q \in [1..n -> Logged] /\ \A i, j \in 1..n : i # j => q[i] # q[j]
  BY DEF SetToSeqs
<1> HIDE DEF n
<1>5. q \in Seq(Logged) /\ DOMAIN q = 1..n
  BY <1>2, <1>4 DEF n
<1>6. IsInjective(q)
  BY <1>4, <1>5 DEF IsInjective
<1>7. Capacity \in Nat
  BY StoreAssumption
<1>8. c \in Seq(Logged) /\ Len(c) <= Capacity /\ IsInjective(c)
  BY <1>3, <1>5, <1>6, <1>7, LastOfFacts
<1>9. Logged \subseteq Sessions
  BY DEF Logged
<1>10. c \in Seq(Sessions) /\ ToSet(c) \subseteq Logged
  <2>1. DOMAIN c = 1..Len(c) /\ Len(c) \in Nat /\ \A i \in 1..Len(c) : c[i] \in Logged
    BY <1>8
  <2>2. c = [i \in 1..Len(c) |-> c[i]]
    BY <1>8
  <2>3. c \in Seq(Sessions)
    BY <1>9, <2>1, <2>2
  <2>4. QED
    BY <2>1, <2>3 DEF ToSet
<1>11. QED
  BY <1>8, <1>10

\* A session whose last append succeeded is in the log with what the store held.
LEMMA RestartStep ==
  ASSUME StoreInv, Restart
  PROVE  StoreInv'
<1> USE DEF StoreInv
<1>1. /\ UNCHANGED <<last, torn, whole, garbled, full, used, reset, unlogged>>
      /\ cache' \in Replayed
      /\ record' = [s \in Sessions |-> IF s \in ToSet(cache') THEN last[s] ELSE Fresh]
      /\ lost' = lost \cup unlogged
      /\ restarts' = restarts + 1
  BY DEF Restart, log
<1>2. /\ cache' \in Seq(Sessions) /\ Len(cache') <= Capacity /\ IsInjective(cache')
      /\ ToSet(cache') \subseteq Logged
  BY <1>1, ReplayFacts
<1>3. \A s \in Logged : s \in Sessions /\ last[s] \in Stored
  BY DEF Logged, StoreTypeOK
<1>4. record' \in [Sessions -> Stored]
  BY <1>1, <1>2, <1>3, FreshStored
<1>5. StoreTypeOK'
  BY <1>1, <1>2, <1>3, <1>4 DEF StoreTypeOK
<1>6. ToSet(cache)' = ToSet(cache')
  BY DEF ToSet
<1>7. UnusedInv' /\ LogInv' /\ IsFiniteSet(used)'
  BY <1>1, <1>2, <1>6 DEF UnusedInv, LogInv, Logged
<1>8. KeptInv'
  <2>1. ASSUME NEW u \in used \ (lost' \cup reset')
        PROVE  /\ u \in ToSet(cache') => record'[u] = Cut(full[u])
               /\ last[u] = Cut(full[u])
    <3>1. u \in used \ (lost \cup reset) /\ u \notin unlogged /\ u \in Sessions
      BY <1>1 DEF StoreTypeOK
    <3>2. last[u] = Cut(full[u])
      BY <3>1 DEF KeptInv
    <3>3. u \in ToSet(cache') => record'[u] = last[u]
      BY <1>1, <3>1
    <3>4. QED
      BY <3>2, <3>3
  <2>2. \A u \in Sessions : Cut(full[u])' = Cut(full[u])
    BY <1>1 DEF Cut, LastOf
  <2>3. used \subseteq Sessions
    BY DEF StoreTypeOK
  <2>4. QED
    BY <1>1, <1>6, <2>1, <2>2, <2>3 DEF KeptInv
<1>9. QED
  BY <1>5, <1>7, <1>8

\* A restart that cannot read the log gives up every session used so far.
LEMMA RestartUnreadStep ==
  ASSUME StoreInv, RestartUnread
  PROVE  StoreInv'
<1> USE DEF StoreInv
<1>1. /\ UNCHANGED <<last, torn, whole, garbled, full, used, reset, unlogged>>
      /\ cache' = <<>>
      /\ record' = [s \in Sessions |-> Fresh]
      /\ lost' = lost \cup used
      /\ restarts' = restarts + 1
  BY DEF RestartUnread, log
<1>2. cache' \in Seq(Sessions) /\ Len(cache') = 0 /\ DOMAIN cache' = {}
  BY <1>1
<1>3. ToSet(cache)' = {} /\ IsInjective(cache')
  BY <1>2 DEF ToSet, IsInjective
<1>4. record' \in [Sessions -> Stored]
  BY <1>1, FreshStored
<1>5. StoreTypeOK'
  BY <1>1, <1>2, <1>3, <1>4, StoreAssumption DEF StoreTypeOK
<1>6. UnusedInv' /\ LogInv' /\ IsFiniteSet(used)'
  BY <1>1, <1>3 DEF UnusedInv, LogInv
<1>7. KeptInv'
  BY <1>1 DEF KeptInv
<1>8. QED
  BY <1>5, <1>6, <1>7

\* Every step of the store keeps StoreInv.
LEMMA StoreInvStep == StoreInv /\ [StoreNext]_storeVars => StoreInv'
<1> SUFFICES ASSUME StoreInv, [StoreNext]_storeVars PROVE StoreInv'
  OBVIOUS
<1>1. CASE Restart
  BY <1>1, RestartStep
<1>2. CASE RestartUnread
  BY <1>2, RestartUnreadStep
<1>3. CASE \E s \in Sessions : Operate(s)
  BY <1>3, OperateStep
<1>4. CASE UNCHANGED storeVars
  <2>1. UNCHANGED <<cache, record, last, torn, whole, garbled, full, used, reset,
                    unlogged, lost, restarts>>
    BY <1>4 DEF storeVars, log
  <2>2. StoreTypeOK'
    BY <2>1 DEF StoreInv, StoreTypeOK, IsInjective
  <2>3. IsFiniteSet(used)' /\ UnusedInv' /\ LogInv'
    BY <2>1 DEF StoreInv, UnusedInv, LogInv, ToSet
  <2>4. KeptInv'
    <3>1. ToSet(cache)' = ToSet(cache) /\ \A u \in Sessions : Cut(full[u])' = Cut(full[u])
      BY <2>1 DEF ToSet, Cut, LastOf
    <3>2. used \subseteq Sessions
      BY DEF StoreInv, StoreTypeOK
    <3>3. QED
      BY <2>1, <3>1, <3>2 DEF StoreInv, KeptInv
  <2>5. QED
    BY <2>2, <2>3, <2>4 DEF StoreInv
<1>5. QED
  BY <1>1, <1>2, <1>3, <1>4 DEF StoreNext

\* The store's state keeps its type: the cache holds at most Capacity sessions,
\* each once, and no stored or logged history exceeds HISTORY_CAP.
THEOREM StoreTyped == StoreSpec => []StoreTypeOK
<1>1. StoreInv => StoreTypeOK
  BY DEF StoreInv
<1>2. QED
  BY StoreStart, StoreInvStep, <1>1, PTL DEF StoreSpec

\* PersistentSessionStateStore keeps what was recorded for every session, in the
\* cache or for the next restart in the log, over evictions, failed and torn
\* appends of any session and restarts, but for the sessions used again while
\* they were evicted, those whose own last append was not readable at a restart
\* and those of a log that a replay could not read.
THEOREM StoreRemembers == StoreSpec => []StateKept
<1>1. StoreInv => StateKept
  BY DEF StoreInv, KeptInv, StateKept, Remembered
<1>2. QED
  BY StoreStart, StoreInvStep, <1>1, PTL DEF StoreSpec
=============================================================================
