------------------------- MODULE NativeLoginProofs -------------------------
(***************************************************************************)
(* Theorems about the saved login, for any sessions and commands, whoever  *)
(* dies and whatever is lost.                                              *)
(***************************************************************************)
EXTENDS NativeLogin, TLAPS

(***************************************************************************)
(* The inductive invariant.  Everything rests on the lock: whoever saves,  *)
(* removes or has a refresh pending holds it (LockInv), so the record that *)
(* an actor found is still there when it replaces it (SaveInv).  That a    *)
(* new credential is not the one it replaces follows from the order in     *)
(* which the Control Plane issues them (CredInv), and that an answer       *)
(* belongs to the refresh that waits for it from the fresh keys (KeyInv).  *)
(***************************************************************************)
LabelInv ==
  /\ \A s \in Sessions : pc[s] \in {"idle", "ready", "sent", "set", "write", "retire"}
  /\ \A l \in Logins : pc[l] \in {"idle", "exchange", "prove", "save", "set", "write", "retire", "done"}
  /\ \A o \in Logouts : pc[o] \in {"idle", "waiting", "revoke", "remove", "retire", "done"}

LockInv ==
  /\ \A a \in Actors : pc[a] \in {"set", "write", "retire", "revoke", "remove"} => lock = a
  /\ \A s \in Sessions :
       /\ pending[s] # None => lock = s /\ pc[s] \in {"idle", "ready", "sent"}
       /\ pc[s] \in {"ready", "sent"} => pending[s] # None
       /\ pc[s] = "ready" => tries[s] < Attempts

CredInv ==
  /\ record # None => record.cred <= issued
  /\ \A a \in Actors : new[a] # None => new[a].cred <= issued
  /\ \A r \in net : r.cred <= issued
  /\ \A c \in Credentials : used[c] # None => c < used[c].next /\ used[c].next <= issued

KeyInv ==
  /\ \A r \in net : r.key <= keys
  /\ \A s \in Sessions : pending[s] # None =>
       /\ pending[s].key <= keys
       /\ \A r \in net : r.key = pending[s].key => r.cred = pending[s].cred

SaveInv ==
  /\ \A s \in Sessions :
       /\ pending[s] # None => record # None /\ pending[s].cred = record.cred
       /\ pc[s] \in {"set", "write"} =>
            /\ record # None /\ old[s] = record /\ new[s] # None
            /\ used[record.cred] # None /\ used[record.cred].next = new[s].cred
       /\ pc[s] = "retire" => record # None /\ old[s] # None /\ old[s].cred # record.cred
  /\ \A l \in Logins :
       /\ old[l] = None
       /\ pc[l] \in {"prove", "save", "set", "write"} => new[l] # None
       /\ pc[l] \in {"set", "write"} => record = None
  /\ \A o \in Logouts :
       /\ pc[o] \in {"revoke", "remove"} => record # None
       /\ pc[o] = "retire" => record = None

KeptInv ==
  /\ RecordHasItsCredential
  /\ \A a \in Actors : pc[a] = "write" /\ new[a].place = "native" => new[a].cred \in keyring

Inv == TypeOK /\ LabelInv /\ LockInv /\ CredInv /\ KeyInv /\ SaveInv /\ KeptInv

-----------------------------------------------------------------------------

LEMMA GoFacts ==
  ASSUME TypeOK, NEW a \in Actors, NEW label \in Labels, Go(a, label)
  PROVE  pc' \in [Actors -> Labels] /\ pc'[a] = label /\ \A b \in Actors : b # a => pc'[b] = pc[b]
BY DEF TypeOK, Go

LEMMA MarkFacts ==
  ASSUME NEW p \in Refreshes, NEW b \in BOOLEAN
  PROVE  /\ [p EXCEPT !.unknown = b] \in Refreshes
         /\ [p EXCEPT !.unknown = b].cred = p.cred /\ [p EXCEPT !.unknown = b].key = p.key
         /\ [p EXCEPT !.late = b] \in Refreshes
         /\ [p EXCEPT !.late = b].cred = p.cred /\ [p EXCEPT !.late = b].key = p.key
BY DEF Refreshes

LEMMA RetryFacts ==
  ASSUME TypeOK, LockInv, NEW s \in Sessions, pending[s] # None, NEW n \in 0..Attempts,
         NEW unknown \in BOOLEAN, Retry(s, n, unknown)
  PROVE  /\ lock' \in Actors \cup {None}
         /\ pc' \in [Actors -> Labels]
         /\ pending' \in [Sessions -> Refreshes \cup {None}]
<1>1. pending[s] \in Refreshes /\ s \in Actors
  BY DEF TypeOK, Actors
<1>2. [pending[s] EXCEPT !.unknown = unknown] \in Refreshes
  BY <1>1, MarkFacts
<1>3. CASE n < Attempts
  BY <1>1, <1>2, <1>3, GoFacts DEF TypeOK, Retry, Labels
<1>4. CASE ~(n < Attempts)
  <2>1. [pending[s] EXCEPT !.unknown = TRUE] \in Refreshes
    BY <1>1, MarkFacts
  <2> QED BY <1>1, <2>1, <1>4, GoFacts DEF TypeOK, Retry, Labels
<1> QED BY <1>3, <1>4

LEMMA FaultFacts == ASSUME TypeOK, Fault PROVE faults' \in 0..MaxFaults
BY NativeLoginAssumption DEF TypeOK, Fault

LEMMA GiveUpFacts ==
  ASSUME TypeOK, NEW s \in Sessions, GiveUp(s)
  PROVE  /\ lock' \in Actors \cup {None}
         /\ pc' \in [Actors -> Labels]
         /\ pending' \in [Sessions -> Refreshes \cup {None}]
         /\ required' \subseteq Sessions
BY DEF TypeOK, GiveUp, Go, Labels, Actors

LEMMA SessionTyped ==
  ASSUME Inv, NEW s \in Sessions,
         \/ prepare_refresh(s) \/ Resume(s) \/ Abandon(s) \/ RecoveryWindow(s)
         \/ Send(s) \/ Timeout(s) \/ Cancel(s) \/ forget_access(s)
  PROVE  TypeOK'
<1> USE NativeLoginAssumption
<1>0. TypeOK /\ s \in Actors
  BY DEF Inv, Actors
<1>1. CASE prepare_refresh(s)
  <2>1. keys' \in Keys /\ keys' \in 0..MaxKeys
    BY <1>1, <1>0 DEF prepare_refresh, TypeOK, Keys
  <2>2. pending' \in [Sessions -> Refreshes \cup {None}]
    <3>1. record \in Saved
      BY <1>1, <1>0 DEF prepare_refresh, TypeOK
    <3>2. [cred |-> record.cred, key |-> keys', place |-> record.place,
           unknown |-> FALSE, late |-> FALSE] \in Refreshes
      BY <3>1, <2>1 DEF Saved, Refreshes
    <3> QED BY <1>1, <1>0, <3>2 DEF prepare_refresh, TypeOK
  <2>3. pc' \in [Actors -> Labels]
    BY <1>1, <1>0, GoFacts DEF prepare_refresh, Labels
  <2>4. tries' \in [Sessions -> 0..Attempts]
    BY <1>1, <1>0 DEF prepare_refresh, TypeOK
  <2> QED BY <1>1, <1>0, <2>1, <2>2, <2>3, <2>4 DEF prepare_refresh, TypeOK, work, plane
<1>2. CASE Resume(s)
  BY <1>2, <1>0, GoFacts DEF Resume, TypeOK, Labels, store, work, plane
<1>3. CASE Abandon(s)
  <2>1. pending[s].cred \in Credentials
    BY <1>3, <1>0 DEF Abandon, TypeOK, Refreshes
  <2> QED BY <1>3, <1>0, <2>1, GiveUpFacts DEF Abandon, TypeOK, work, plane
<1>4. CASE RecoveryWindow(s)
  <2>1. pending' \in [Sessions -> Refreshes \cup {None}]
    <3>1. pending[s] \in Refreshes
      BY <1>4, <1>0 DEF RecoveryWindow, TypeOK
    <3>2. [pending[s] EXCEPT !.late = TRUE] \in Refreshes
      BY <3>1, MarkFacts
    <3> QED BY <1>4, <1>0, <3>2 DEF RecoveryWindow, TypeOK
  <2> QED BY <1>4, <1>0, <2>1 DEF RecoveryWindow, TypeOK, store, work, plane
<1>5. CASE Send(s)
  <2>1. pending[s] \in Refreshes /\ pending[s] # None /\ tries[s] < Attempts
    BY <1>5, <1>0 DEF Send, Inv, LockInv, TypeOK
  <2>2. tries' \in [Sessions -> 0..Attempts] /\ tries'[s] \in 0..Attempts
    BY <1>5, <1>0, <2>1 DEF Send, TypeOK
  <2>3. CASE Retry(s, tries'[s], pending[s].unknown) /\ UNCHANGED net
    <3>1. pending[s].unknown \in BOOLEAN
      BY <2>1 DEF Refreshes
    <3>2. /\ lock' \in Actors \cup {None}
          /\ pc' \in [Actors -> Labels]
          /\ pending' \in [Sessions -> Refreshes \cup {None}]
      BY <1>0, <2>1, <2>2, <2>3, <3>1, RetryFacts DEF Inv
    <3> QED BY <1>5, <1>0, <2>2, <2>3, <3>2 DEF Send, TypeOK, work, plane
  <2>4. CASE /\ net' = net \cup {[cred |-> pending[s].cred, key |-> pending[s].key]}
             /\ pending' = [pending EXCEPT ![s].unknown = TRUE]
             /\ Go(s, "sent")
             /\ UNCHANGED lock
    <3>1. net' \subseteq Requests
      BY <1>0, <2>1, <2>4 DEF TypeOK, Refreshes, Requests
    <3>2. pending' \in [Sessions -> Refreshes \cup {None}]
      BY <1>0, <2>1, <2>4 DEF TypeOK, Refreshes
    <3>3. pc' \in [Actors -> Labels]
      BY <1>0, <2>4, GoFacts DEF Labels
    <3> QED BY <1>5, <1>0, <2>2, <2>4, <3>1, <3>2, <3>3 DEF Send, TypeOK, work, plane
  <2> QED BY <1>5, <2>3, <2>4 DEF Send
<1>6. CASE Timeout(s)
  <2>1. pending[s] # None /\ tries[s] \in 0..Attempts
    BY <1>6, <1>0 DEF Timeout, Inv, LockInv, TypeOK
  <2> QED BY <1>6, <1>0, <2>1, RetryFacts DEF Timeout, TypeOK, Inv, work, plane
<1>7. CASE Cancel(s)
  BY <1>7, <1>0, GoFacts DEF Cancel, TypeOK, Labels, store, work, plane
<1>8. CASE forget_access(s)
  BY <1>8, <1>0 DEF forget_access, TypeOK, store, work, plane
<1> QED BY <1>1, <1>2, <1>3, <1>4, <1>5, <1>6, <1>7, <1>8

LEMMA PlaneTyped ==
  ASSUME Inv, NEW r \in net, Rotate(r) \/ Refuse(r) \/ TurnAway(r)
  PROVE  TypeOK'
<1> USE NativeLoginAssumption
<1>0. TypeOK /\ r \in Requests /\ r.cred \in Credentials /\ r.key \in Keys
  BY DEF Inv, TypeOK, Requests
<1>1. CASE Rotate(r)
  <2>1. /\ issued' \in 0..MaxIssued
        /\ family' \in [Credentials -> 0..MaxIssued]
        /\ used' \in [Credentials -> Uses \cup {None}]
        /\ used'[r.cred] \in Uses
    <3>1. CASE /\ used[r.cred] = None
               /\ issued < MaxIssued
               /\ issued' = issued + 1
               /\ family' = [family EXCEPT ![issued + 1] = family[r.cred]]
               /\ used' = [used EXCEPT ![r.cred] = [key |-> r.key, next |-> issued + 1]]
      <4>1. issued + 1 \in Credentials /\ issued + 1 \in 0..MaxIssued
        BY <3>1, <1>0 DEF TypeOK, Credentials
      <4>2. [key |-> r.key, next |-> issued + 1] \in Uses
        BY <4>1, <1>0 DEF Uses
      <4> QED BY <3>1, <1>0, <4>1, <4>2 DEF TypeOK
    <3>2. CASE used[r.cred] # None /\ used[r.cred].key = r.key /\ UNCHANGED <<issued, family, used>>
      BY <3>2, <1>0 DEF TypeOK
    <3> QED BY <1>1, <3>1, <3>2 DEF Rotate
  <2>2. /\ net' \subseteq Requests
        /\ UNCHANGED <<record, keyring, tries, cached, cut, ended, keys, reused>>
    BY <1>1, <1>0 DEF Rotate, TypeOK
  <2>3. CASE Lost
    BY <2>1, <2>2, <2>3, <1>0 DEF Lost, TypeOK
  <2>4. ASSUME NEW s \in Sessions, Waiting(s, r), Granted(s, used'[r.cred].next) PROVE TypeOK'
    <3>1. pending[s] \in Refreshes /\ s \in Actors
      BY <1>0, <2>4 DEF Waiting, Inv, LockInv, TypeOK, Actors
    <3>2. [cred |-> used'[r.cred].next, place |-> pending[s].place] \in Saved
      BY <3>1, <2>1 DEF Uses, Refreshes, Saved
    <3>3. pc' \in [Actors -> Labels]
      BY <1>0, <3>1, <2>4, GoFacts DEF Granted, Labels
    <3> QED BY <1>0, <2>1, <2>2, <2>4, <3>1, <3>2, <3>3 DEF Granted, TypeOK
  <2>5. ASSUME NEW s \in Sessions, Waiting(s, r), Unusable(s) PROVE TypeOK'
    <3>1. pending[s].cred \in Credentials
      BY <1>0, <2>5 DEF Waiting, Inv, LockInv, TypeOK, Refreshes
    <3> QED BY <1>0, <2>1, <2>2, <2>5, <3>1, GiveUpFacts, FaultFacts DEF Unusable, TypeOK
  <2> QED BY <1>1, <2>3, <2>4, <2>5 DEF Rotate
<1>2. CASE Refuse(r)
  <2>1. /\ net' \subseteq Requests /\ ended' \subseteq 0..MaxIssued /\ reused' \subseteq Credentials
        /\ UNCHANGED <<record, keyring, tries, cached, cut, issued, family, used, keys>>
    <3>1. family[r.cred] \in 0..MaxIssued
      BY <1>0 DEF TypeOK
    <3>2. net' \subseteq Requests /\ UNCHANGED <<record, keyring, tries, cached, cut, issued, family, used, keys>>
      BY <1>2, <1>0 DEF Refuse, TypeOK
    <3>3. ended' \subseteq 0..MaxIssued /\ reused' \subseteq Credentials
      BY <1>2, <1>0, <3>1 DEF Refuse, TypeOK
    <3> QED BY <3>2, <3>3
  <2>2. CASE Lost
    BY <2>1, <2>2, <1>0 DEF Lost, TypeOK
  <2>3. ASSUME NEW s \in Sessions, GiveUp(s), UNCHANGED <<new, old, faults, excused>> PROVE TypeOK'
    BY <2>1, <2>3, <1>0, GiveUpFacts DEF TypeOK
  <2> QED BY <1>2, <2>2, <2>3 DEF Refuse
<1>3. CASE TurnAway(r)
  <2>1. /\ net' \subseteq Requests
        /\ UNCHANGED <<record, keyring, tries, cached, cut, plane, keys, reused>>
    BY <1>3, <1>0 DEF TurnAway, TypeOK
  <2>2. CASE Lost
    BY <2>1, <2>2, <1>0 DEF Lost, TypeOK, plane
  <2>3. ASSUME NEW s \in Sessions, Waiting(s, r), Unusable(s) PROVE TypeOK'
    <3>1. pending[s].cred \in Credentials
      BY <1>0, <2>3 DEF Waiting, Inv, LockInv, TypeOK, Refreshes
    <3> QED BY <1>0, <2>1, <2>3, <3>1, GiveUpFacts, FaultFacts DEF Unusable, TypeOK, plane
  <2> QED BY <1>3, <2>2, <2>3 DEF TurnAway
<1> QED BY <1>1, <1>2, <1>3

LEMMA SaveFailedFacts ==
  ASSUME TypeOK, NEW a \in Actors, SaveFailed(a)
  PROVE  /\ lock' \in Actors \cup {None}
         /\ pc' \in [Actors -> Labels]
         /\ new' \in [Actors -> Saved \cup {None}] /\ old' \in [Actors -> Saved \cup {None}]
         /\ cut' \subseteq Sessions /\ excused' \subseteq Credentials
<1>1. old[a] # None => old[a].cred \in Credentials
  BY DEF TypeOK, Saved
<1>2. pc' \in [Actors -> Labels]
  BY GoFacts DEF SaveFailed, Labels
<1> QED BY <1>1, <1>2 DEF SaveFailed, TypeOK

\* An actor that saves has something to save.
LEMMA SavingHasNew ==
  ASSUME Inv, NEW a \in Actors, pc[a] \in {"set", "write"}
  PROVE  new[a] \in Saved /\ (a \in Sessions \/ a \in Logins)
BY NativeLoginAssumption DEF Inv, SaveInv, LabelInv, TypeOK, Actors, Commands

LEMMA SaveTyped ==
  ASSUME Inv, NEW a \in Actors, Save(a)
  PROVE  TypeOK'
<1> USE NativeLoginAssumption
<1>0. TypeOK
  BY DEF Inv
<1>1. CASE prepare(a)
  <2>0. /\ new[a] \in Saved /\ new[a].cred \in Credentials
        /\ UNCHANGED <<record, pending, tries, cached, required, plane, net, keys, reused>>
    BY <1>1, SavingHasNew DEF prepare, Saved
  <2>1. CASE /\ keyring' = keyring \cup {new[a].cred}
             /\ new' = [new EXCEPT ![a].place = "native"]
             /\ Go(a, "write")
             /\ UNCHANGED <<lock, old, cut, faults, excused>>
    <3>1. [new[a] EXCEPT !.place = "native"] \in Saved
      BY <2>0 DEF Saved, Places
    <3>2. pc' \in [Actors -> Labels]
      BY <1>0, <2>1, GoFacts DEF Labels
    <3> QED BY <1>0, <2>0, <2>1, <3>1, <3>2 DEF TypeOK, plane
  <2>2. CASE /\ Fault
             /\ new[a].place = "file"
             /\ Go(a, "write")
             /\ UNCHANGED <<keyring, lock, work, cut, excused>>
    <3>1. pc' \in [Actors -> Labels]
      BY <1>0, <2>2, GoFacts DEF Labels
    <3> QED BY <1>0, <2>0, <2>2, <3>1, FaultFacts DEF TypeOK, plane, work
  <2>3. CASE Fault /\ SaveFailed(a) /\ UNCHANGED keyring
    BY <1>0, <2>0, <2>3, FaultFacts, SaveFailedFacts DEF TypeOK, plane
  <2> QED BY <1>1, <2>1, <2>2, <2>3 DEF prepare
<1>2. CASE write(a)
  <2>0. /\ new[a] \in Saved
        /\ UNCHANGED <<pending, tries, cached, required, plane, net, keys, reused>>
    BY <1>2, SavingHasNew DEF write
  <2>1. CASE /\ record' = new[a]
             /\ Go(a, "retire")
             /\ UNCHANGED <<keyring, lock, work, cut, faults, excused>>
    <3>1. pc' \in [Actors -> Labels]
      BY <1>0, <2>1, GoFacts DEF Labels
    <3> QED BY <1>0, <2>0, <2>1, <3>1 DEF TypeOK, plane, work
  <2>2. CASE /\ Fault /\ SaveFailed(a)
             /\ \/ keyring' = keyring \ {new[a].cred}
                \/ UNCHANGED keyring
             /\ UNCHANGED record
    BY <1>0, <2>0, <2>2, FaultFacts, SaveFailedFacts DEF TypeOK, plane
  <2> QED BY <1>2, <2>1, <2>2 DEF write
<1>3. CASE retire(a)
  <2>1. /\ keyring' \subseteq Credentials
        /\ faults' \in 0..MaxFaults
        /\ lock' = None
        /\ UNCHANGED <<record, pending, tries, plane, net, keys, excused, reused>>
    BY <1>3, <1>0, FaultFacts DEF retire, TypeOK
  <2>2. new' \in [Actors -> Saved \cup {None}] /\ old' \in [Actors -> Saved \cup {None}]
    BY <1>3, <1>0 DEF retire, TypeOK
  <2>3. cached' \subseteq Sessions /\ required' \subseteq Sessions /\ cut' \subseteq Sessions
    BY <1>3, <1>0 DEF retire, TypeOK
  <2>4. pc' \in [Actors -> Labels]
    BY <1>3, <1>0, GoFacts DEF retire, Labels
  <2> QED BY <1>0, <2>1, <2>2, <2>3, <2>4 DEF TypeOK, plane
<1> QED BY <1>1, <1>2, <1>3 DEF Save

LEMMA CommandTyped ==
  ASSUME Inv, NEW a \in Commands,
         \/ a \in Logins /\ (Inspect(a) \/ exchange(a) \/ prove(a) \/ Interrupt(a) \/ save(a))
         \/ a \in Logouts /\ (Ask(a) \/ LockToRemove(a) \/ revoke_saved(a) \/ remove(a))
  PROVE  TypeOK'
<1> USE NativeLoginAssumption
<1>0. TypeOK /\ a \in Actors
  BY DEF Inv, Actors
<1>1. ASSUME NEW label \in Labels, Go(a, label) PROVE pc' \in [Actors -> Labels]
  BY <1>0, <1>1, GoFacts
<1>2. CASE Inspect(a)
  BY <1>0, <1>1, <1>2 DEF Inspect, TypeOK, Labels, store, session, work, plane
<1>3. CASE exchange(a)
  <2>1. issued + 1 \in Credentials /\ issued + 1 \in 0..MaxIssued
    BY <1>0, <1>3 DEF exchange, TypeOK, Credentials
  <2>2. [cred |-> issued + 1, place |-> IF Plaintext THEN "file" ELSE "native"] \in Saved
    BY <2>1 DEF Saved, Places
  <2>3. pc' \in [Actors -> Labels]
    BY <1>1, <1>3 DEF exchange, Labels
  <2> QED BY <1>0, <1>3, <2>1, <2>2, <2>3 DEF exchange, TypeOK, store, session
<1>4. CASE prove(a)
  <2>1. pc' \in [Actors -> Labels]
    BY <1>1, <1>4 DEF prove, Labels
  <2>2. CASE UNCHANGED <<new, ended>>
    BY <1>0, <1>4, <2>1, <2>2 DEF prove, TypeOK, store, session
  <2>3. CASE /\ new' = [new EXCEPT ![a] = None]
             /\ ended' \in {ended, ended \cup {family[new[a].cred]}}
    <3>1. a \in Logins
      BY <1>0, <1>4 DEF prove, Inv, LabelInv, Commands
    <3>2. new[a].cred \in Credentials
      BY <1>0, <1>4, <3>1 DEF prove, Inv, SaveInv, TypeOK, Saved
    <3>3. ended' \subseteq 0..MaxIssued
      BY <1>0, <2>3, <3>2 DEF TypeOK
    <3> QED BY <1>0, <1>4, <2>1, <2>3, <3>3 DEF prove, TypeOK, store, session
  <2> QED BY <1>4, <2>2, <2>3 DEF prove
<1>5. CASE Interrupt(a)
  <2>1. pc' \in [Actors -> Labels]
    BY <1>1, <1>5 DEF Interrupt, Labels
  <2> QED BY <1>0, <1>5, <2>1 DEF Interrupt, TypeOK, store, session, plane
<1>6. CASE save(a)
  <2>1. pc' \in [Actors -> Labels]
    BY <1>1, <1>6 DEF save, Labels
  <2> QED BY <1>0, <1>6, <2>1 DEF save, TypeOK, session, plane
<1>7. CASE Ask(a)
  BY <1>0, <1>1, <1>7 DEF Ask, TypeOK, Labels, store, session, work, plane
<1>8. CASE LockToRemove(a)
  <2>1. pc' \in [Actors -> Labels]
    BY <1>1, <1>8 DEF LockToRemove, Labels
  <2> QED BY <1>0, <1>8, <2>1 DEF LockToRemove, TypeOK, session, work, plane
<1>9. CASE revoke_saved(a)
  <2>1. pc' \in [Actors -> Labels]
    BY <1>1, <1>9 DEF revoke_saved, Labels
  <2>2. a \in Logouts
    BY <1>0, <1>9 DEF revoke_saved, Inv, LabelInv, Commands
  <2>3. record.cred \in Credentials
    BY <1>0, <1>9, <2>2 DEF revoke_saved, Inv, SaveInv, TypeOK, Saved
  <2>4. ended' \subseteq 0..MaxIssued
    BY <1>0, <1>9, <2>3 DEF revoke_saved, TypeOK
  <2> QED BY <1>0, <1>9, <2>1, <2>4 DEF revoke_saved, TypeOK, store, session, work
<1>10. CASE remove(a)
  <2>1. pc' \in [Actors -> Labels]
    BY <1>1, <1>10 DEF remove, Labels
  <2>2. faults' \in 0..MaxFaults
    BY <1>0, <1>10, FaultFacts DEF remove, TypeOK
  <2> QED BY <1>0, <1>10, <2>1, <2>2 DEF remove, TypeOK, session, plane
<1> QED BY <1>2, <1>3, <1>4, <1>5, <1>6, <1>7, <1>8, <1>9, <1>10

LEMMA DeathTyped == ASSUME Inv, NEW a \in Actors, Die(a) PROVE TypeOK'
<1> USE NativeLoginAssumption
<1>0. TypeOK
  BY DEF Inv
<1>1. a \in Sessions => Renewing(a) \subseteq Credentials
  BY <1>0 DEF Renewing, Inv, SaveInv, TypeOK, Refreshes, Saved
<1>2. /\ pc' \in [Actors -> Labels]
      /\ faults' \in 0..MaxFaults
      /\ lock' \in Actors \cup {None}
  BY <1>0, GoFacts, FaultFacts DEF Die, Labels, TypeOK
<1>3. new' \in [Actors -> Saved \cup {None}] /\ old' \in [Actors -> Saved \cup {None}]
  BY <1>0 DEF Die, TypeOK
<1>4. /\ pending' \in [Sessions -> Refreshes \cup {None}] /\ excused' \subseteq Credentials
      /\ cached' \subseteq Sessions /\ required' \subseteq Sessions /\ cut' \subseteq Sessions
  BY <1>0, <1>1 DEF Die, TypeOK
<1> QED BY <1>0, <1>2, <1>3, <1>4 DEF Die, TypeOK, plane

LEMMA TypeStep == Inv /\ [Next]_vars => TypeOK'
<1> SUFFICES ASSUME Inv, [Next]_vars PROVE TypeOK'
  OBVIOUS
<1>1. CASE UNCHANGED vars
  BY <1>1 DEF Inv, TypeOK, vars, store, session, work, plane
<1>2. CASE Next
  BY <1>2, SessionTyped, PlaneTyped, SaveTyped, CommandTyped, DeathTyped
     DEF Next, Renew, Login, Logout, Actors, Commands
<1> QED BY <1>1, <1>2

-----------------------------------------------------------------------------

LEMMA LabelStep == Inv /\ [Next]_vars => LabelInv'
<1> SUFFICES ASSUME Inv, [Next]_vars PROVE LabelInv'
  OBVIOUS
<1> USE NativeLoginAssumption
<1>0. TypeOK /\ LabelInv
  BY DEF Inv
<1>1. ASSUME NEW s \in Sessions, NEW label \in {"idle", "ready", "sent", "set", "write", "retire"},
             Go(s, label)
      PROVE LabelInv'
  BY <1>0, <1>1 DEF Go, LabelInv, TypeOK, Actors, Commands
<1>2. ASSUME NEW label \in {"exchange", "prove", "save", "set", "write", "retire", "done"},
             NEW l \in Logins, Go(l, label)
      PROVE LabelInv'
  BY <1>0, <1>2 DEF Go, LabelInv, TypeOK, Actors, Commands
<1>3. ASSUME NEW label \in {"waiting", "revoke", "remove", "retire", "done"},
             NEW o \in Logouts, Go(o, label)
      PROVE LabelInv'
  BY <1>0, <1>3 DEF Go, LabelInv, TypeOK, Actors, Commands
<1>4. UNCHANGED pc => LabelInv'
  BY <1>0 DEF LabelInv
<1>5. ASSUME NEW s \in Sessions,
             \/ prepare_refresh(s) \/ Resume(s) \/ Abandon(s) \/ RecoveryWindow(s)
             \/ Send(s) \/ Timeout(s) \/ Cancel(s) \/ forget_access(s)
      PROVE LabelInv'
  BY <1>5, <1>1, <1>4 DEF prepare_refresh, Resume, Abandon, GiveUp, RecoveryWindow, Send, Timeout,
                          Retry, Cancel, forget_access
<1>6. ASSUME NEW r \in net, Rotate(r) \/ Refuse(r) \/ TurnAway(r) PROVE LabelInv'
  BY <1>6, <1>1, <1>4 DEF Rotate, Granted, Unusable, GiveUp, Lost, Refuse, TurnAway
<1>7. ASSUME NEW s \in Sessions, Save(s) PROVE LabelInv'
  BY <1>7, <1>1 DEF Save, prepare, write, retire, SaveFailed
<1>8. ASSUME NEW l \in Logins, Login(l) \/ Interrupt(l) PROVE LabelInv'
  <2>1. l \notin Sessions
    BY DEF Commands
  <2> QED BY <1>8, <2>1, <1>2 DEF Login, Interrupt, Inspect, exchange, prove, save, Save, prepare, write,
                                  retire, SaveFailed
<1>9. ASSUME NEW o \in Logouts, Ask(o) \/ Logout(o) PROVE LabelInv'
  <2>1. o \notin Sessions /\ pc[o] \notin {"set", "write"}
    BY <1>0 DEF Commands, LabelInv
  <2> QED BY <1>9, <2>1, <1>3 DEF Ask, Logout, LockToRemove, revoke_saved, remove, Save, prepare, write,
                                  retire
<1>10. ASSUME NEW a \in Actors, Die(a) PROVE LabelInv'
  BY <1>10, <1>1, <1>2, <1>3 DEF Die, Actors, Commands
<1>11. CASE UNCHANGED vars
  BY <1>11, <1>4 DEF vars
<1> QED BY <1>5, <1>6, <1>7, <1>8, <1>9, <1>10, <1>11 DEF Next, Renew

-----------------------------------------------------------------------------

\* What LockInv says of one actor.
HoldsRight(a) ==
  /\ pc[a] \in {"set", "write", "retire", "revoke", "remove"} => lock = a
  /\ a \in Sessions =>
       /\ pending[a] # None => lock = a /\ pc[a] \in {"idle", "ready", "sent"}
       /\ pc[a] \in {"ready", "sent"} => pending[a] # None
       /\ pc[a] = "ready" => tries[a] < Attempts

\* A step of one actor, which takes the lock only when it is free and gives up
\* only its own.
LEMMA LockLocal ==
  ASSUME LockInv, NEW a \in Actors,
         \A b \in Actors : b # a => pc'[b] = pc[b],
         \A s \in Sessions : s # a => pending'[s] = pending[s] /\ tries'[s] = tries[s],
         lock' = lock \/ lock \in {a, None}, HoldsRight(a)'
  PROVE  LockInv'
<1> USE NativeLoginAssumption
<1>1. \A b \in Actors : HoldsRight(b)
  BY DEF LockInv, HoldsRight, Actors
<1>2. ASSUME NEW b \in Actors, b # a PROVE HoldsRight(b)'
  BY <1>1, <1>2 DEF HoldsRight
<1>3. \A b \in Actors : HoldsRight(b)'
  BY <1>2
<1> QED BY <1>3 DEF HoldsRight, LockInv, Actors

LEMMA SessionLocks ==
  ASSUME Inv, TypeOK', NEW s \in Sessions,
         \/ prepare_refresh(s) \/ Resume(s) \/ Abandon(s) \/ RecoveryWindow(s)
         \/ Send(s) \/ Timeout(s) \/ Cancel(s) \/ forget_access(s)
  PROVE  LockInv'
<1> USE NativeLoginAssumption
<1>0. TypeOK /\ LockInv /\ s \in Actors /\ HoldsRight(s)
  BY DEF Inv, Actors, LockInv, HoldsRight
<1>1. CASE prepare_refresh(s)
  <2>1. pending'[s] # None /\ pc'[s] = "ready" /\ lock' = s /\ tries'[s] = 0
    <3>1. pending'[s] = [cred |-> record.cred, key |-> keys', place |-> record.place,
                         unknown |-> FALSE, late |-> FALSE]
      BY <1>1, <1>0 DEF prepare_refresh, TypeOK
    <3>2. record \in Saved /\ keys' \in Keys
      BY <1>1, <1>0 DEF prepare_refresh, TypeOK, Keys
    <3>3. pending'[s] \in Refreshes
      BY <3>1, <3>2 DEF Saved, Refreshes
    <3> QED BY <1>1, <1>0, <3>3 DEF prepare_refresh, TypeOK, Go
  <2>2. HoldsRight(s)'
    BY <2>1 DEF HoldsRight
  <2> QED BY <1>1, <1>0, <2>2, LockLocal DEF prepare_refresh, TypeOK, Go
<1>2. CASE Resume(s)
  <2>1. HoldsRight(s)'
    BY <1>2, <1>0 DEF Resume, HoldsRight, TypeOK, Go, store
  <2> QED BY <1>2, <1>0, <2>1, LockLocal DEF Resume, TypeOK, Go, store
<1>3. CASE Abandon(s)
  <2>1. HoldsRight(s)'
    BY <1>3, <1>0 DEF Abandon, GiveUp, HoldsRight, TypeOK, Go
  <2> QED BY <1>3, <1>0, <2>1, LockLocal DEF Abandon, GiveUp, HoldsRight, TypeOK, Go
<1>4. CASE RecoveryWindow(s)
  <2>1. pending'[s] # None <=> pending[s] # None
    <3>1. pending[s] \in Refreshes
      BY <1>4, <1>0 DEF RecoveryWindow, TypeOK
    <3>2. [pending[s] EXCEPT !.late = TRUE] \in Refreshes
      BY <3>1, MarkFacts
    <3> QED BY <1>4, <1>0, <3>1, <3>2 DEF RecoveryWindow, TypeOK
  <2>2. HoldsRight(s)'
    BY <1>4, <1>0, <2>1 DEF RecoveryWindow, HoldsRight, store
  <2> QED BY <1>4, <1>0, <2>2, LockLocal DEF RecoveryWindow, TypeOK, store
<1>5. ASSUME NEW n \in 0..Attempts, NEW unknown \in BOOLEAN, Retry(s, n, unknown), tries'[s] = n,
             pending[s] # None, \A r \in Sessions : r # s => tries'[r] = tries[r]
      PROVE LockInv'
  <2>1. pending[s] \in Refreshes
    BY <1>0, <1>5 DEF TypeOK
  <2>2. [pending[s] EXCEPT !.unknown = unknown] # None /\ [pending[s] EXCEPT !.unknown = TRUE] # None
    BY <2>1, MarkFacts
  <2>3. CASE n < Attempts
    <3>1. pending'[s] # None /\ pc'[s] = "ready" /\ lock' = lock
      BY <1>0, <1>5, <2>2, <2>3 DEF Retry, Go, TypeOK
    <3>2. HoldsRight(s)'
      BY <1>0, <1>5, <2>3, <3>1 DEF HoldsRight
    <3> QED BY <1>0, <1>5, <2>3, <3>2, LockLocal DEF Retry, Go, TypeOK
  <2>4. CASE ~(n < Attempts)
    <3>1. pc'[s] = "idle" /\ (pending'[s] # None => lock' = lock) /\ lock = s
      BY <1>0, <1>5, <2>4 DEF Retry, Go, TypeOK, HoldsRight
    <3>2. HoldsRight(s)'
      BY <1>0, <1>5, <2>4, <3>1 DEF HoldsRight
    <3> QED BY <1>0, <1>5, <2>4, <3>1, <3>2, LockLocal DEF Retry, Go, TypeOK
  <2> QED BY <2>3, <2>4
<1>6. CASE Send(s)
  <2>1. pending[s] \in Refreshes /\ pending[s] # None /\ tries[s] < Attempts
    BY <1>6, <1>0 DEF Send, HoldsRight, TypeOK
  <2>2. tries'[s] \in 0..Attempts /\ \A r \in Sessions : r # s => tries'[r] = tries[r]
    BY <1>6, <1>0, <2>1 DEF Send, TypeOK
  <2>3. CASE Retry(s, tries'[s], pending[s].unknown)
    <3>1. pending[s].unknown \in BOOLEAN
      BY <2>1 DEF Refreshes
    <3> QED BY <1>5, <2>1, <2>2, <2>3, <3>1
  <2>4. CASE pending' = [pending EXCEPT ![s].unknown = TRUE] /\ Go(s, "sent") /\ UNCHANGED lock
    <3>1. [pending[s] EXCEPT !.unknown = TRUE] # None
      BY <2>1, MarkFacts
    <3>2. pending'[s] # None /\ pc'[s] = "sent" /\ lock' = s
      BY <1>0, <2>1, <2>4, <3>1 DEF TypeOK, Go, HoldsRight
    <3>3. HoldsRight(s)'
      BY <3>2 DEF HoldsRight
    <3> QED BY <1>0, <2>2, <2>4, <3>3, LockLocal DEF TypeOK, Go
  <2> QED BY <1>6, <2>3, <2>4 DEF Send
<1>7. CASE Timeout(s)
  <2>1. pending[s] # None /\ tries[s] \in 0..Attempts /\ tries' = tries
    BY <1>7, <1>0 DEF Timeout, HoldsRight, TypeOK
  <2> QED BY <1>5, <1>7, <2>1 DEF Timeout
<1>8. CASE Cancel(s)
  <2>1. HoldsRight(s)'
    BY <1>8, <1>0 DEF Cancel, HoldsRight, TypeOK, Go, store
  <2> QED BY <1>8, <1>0, <2>1, LockLocal DEF Cancel, TypeOK, Go, store
<1>9. CASE forget_access(s)
  BY <1>9, <1>0 DEF forget_access, LockInv, store
<1> QED BY <1>1, <1>2, <1>3, <1>4, <1>6, <1>7, <1>8, <1>9

\* A session that is answered holds the lock: it keeps it for the save, or gives it up.
LEMMA AnswerLocks ==
  ASSUME Inv, NEW s \in Sessions, pc[s] = "sent", UNCHANGED tries,
         GiveUp(s) \/ \E c \in Credentials : Granted(s, c)
  PROVE  LockInv'
<1> USE NativeLoginAssumption
<1>0. TypeOK /\ LockInv /\ s \in Actors /\ lock = s
  BY DEF Inv, Actors, LockInv
<1>1. pending'[s] = None /\ pc'[s] \in {"idle", "set"} /\ (pc'[s] = "set" => lock' = s)
  BY <1>0 DEF GiveUp, Granted, TypeOK, Go
<1>2. HoldsRight(s)'
  BY <1>1 DEF HoldsRight
<1> QED BY <1>0, <1>2, LockLocal DEF GiveUp, Granted, TypeOK, Go

LEMMA PlaneLocks ==
  ASSUME Inv, TypeOK', NEW r \in net, Rotate(r) \/ Refuse(r) \/ TurnAway(r)
  PROVE  LockInv'
<1> USE NativeLoginAssumption
<1>0. TypeOK /\ LockInv
  BY DEF Inv
<1>1. UNCHANGED <<pc, lock, pending, tries>> => LockInv'
  BY <1>0 DEF LockInv
<1>2. CASE Rotate(r)
  <2>1. used'[r.cred].next \in Credentials
    <3>1. r.cred \in Credentials /\ r.key \in Keys
      BY <1>0 DEF TypeOK, Requests
    <3>2. used'[r.cred] # None
      <4>1. CASE used[r.cred] = None
        <5>1. used'[r.cred] = [key |-> r.key, next |-> issued + 1] /\ issued + 1 \in Credentials
          BY <1>0, <1>2, <3>1, <4>1 DEF Rotate, TypeOK, Credentials
        <5> QED BY <3>1, <5>1 DEF Uses
      <4> QED BY <1>2, <4>1 DEF Rotate
    <3> QED BY <3>1, <3>2 DEF TypeOK, Uses
  <2>2. UNCHANGED tries
    BY <1>2 DEF Rotate
  <2> QED BY <1>2, <1>1, <2>1, <2>2, AnswerLocks DEF Rotate, Lost, Waiting, Unusable
<1>3. CASE Refuse(r)
  BY <1>3, <1>1, AnswerLocks DEF Refuse, Lost, Waiting
<1>4. CASE TurnAway(r)
  BY <1>4, <1>1, AnswerLocks DEF TurnAway, Lost, Waiting, Unusable
<1> QED BY <1>2, <1>3, <1>4

LEMMA SaveLocks == ASSUME Inv, NEW a \in Actors, Save(a) PROVE LockInv'
<1> USE NativeLoginAssumption
<1>0. TypeOK /\ LockInv /\ lock = a
  BY DEF Inv, LockInv, Save, prepare, write, retire
<1>1. a \in Sessions => pending[a] = None
  BY <1>0 DEF LockInv, Save, prepare, write, retire
<1>2. UNCHANGED <<pending, tries>>
  BY DEF Save, prepare, write, retire
<1>3. /\ \A b \in Actors : b # a => pc'[b] = pc[b]
      /\ pc'[a] \in {"write", "retire", "idle", "done"}
      /\ pc'[a] \in {"write", "retire"} => lock' = lock
  BY <1>0 DEF Save, prepare, write, retire, SaveFailed, Go, TypeOK
<1>4. HoldsRight(a)'
  BY <1>0, <1>1, <1>2, <1>3 DEF HoldsRight
<1> QED BY <1>0, <1>2, <1>3, <1>4, LockLocal

LEMMA CommandLocks ==
  ASSUME Inv, NEW a \in Commands,
         \/ a \in Logins /\ (Inspect(a) \/ exchange(a) \/ prove(a) \/ Interrupt(a) \/ save(a))
         \/ a \in Logouts /\ (Ask(a) \/ LockToRemove(a) \/ revoke_saved(a) \/ remove(a))
  PROVE  LockInv'
<1> USE NativeLoginAssumption
<1>0. TypeOK /\ LockInv /\ a \in Actors /\ a \notin Sessions /\ HoldsRight(a)
  BY DEF Inv, Actors, LockInv, HoldsRight
<1>1. UNCHANGED <<pending, tries>>
  BY DEF Inspect, exchange, prove, Interrupt, save, Ask, LockToRemove, revoke_saved, remove, session
<1>2. /\ \A b \in Actors : b # a => pc'[b] = pc[b]
      /\ lock' = lock \/ lock \in {a, None}
      /\ pc'[a] \in {"set", "write", "retire", "revoke", "remove"} => lock' = a
  <2>1. CASE a \in Logins /\ (Inspect(a) \/ exchange(a) \/ prove(a) \/ Interrupt(a) \/ save(a))
    BY <1>0, <2>1 DEF Inspect, exchange, prove, Interrupt, save, Go, TypeOK, store
  <2>2. CASE a \in Logouts /\ (Ask(a) \/ LockToRemove(a) \/ revoke_saved(a) \/ remove(a))
    BY <1>0, <2>2 DEF Ask, LockToRemove, revoke_saved, remove, Go, TypeOK, store, HoldsRight
  <2> QED BY <2>1, <2>2
<1>3. HoldsRight(a)'
  BY <1>0, <1>2 DEF HoldsRight
<1> QED BY <1>0, <1>1, <1>2, <1>3, LockLocal

LEMMA DeathLocks == ASSUME Inv, NEW a \in Actors, Die(a) PROVE LockInv'
<1> USE NativeLoginAssumption
<1>0. TypeOK /\ LockInv
  BY DEF Inv
<1>1. /\ \A b \in Actors : b # a => pc'[b] = pc[b]
      /\ pc'[a] \in {"idle", "done"}
      /\ \A s \in Sessions : s # a => pending'[s] = pending[s] /\ tries'[s] = tries[s]
      /\ a \in Sessions => pending'[a] = None
      /\ lock' = lock \/ lock = a
  BY <1>0 DEF Die, Go, TypeOK
<1>2. HoldsRight(a)'
  BY <1>1 DEF HoldsRight
<1> QED BY <1>0, <1>1, <1>2, LockLocal

LEMMA LockStep == Inv /\ TypeOK' /\ [Next]_vars => LockInv'
<1> SUFFICES ASSUME Inv, TypeOK', [Next]_vars PROVE LockInv'
  OBVIOUS
<1>1. CASE UNCHANGED vars
  BY <1>1 DEF Inv, LockInv, vars, store, session
<1>2. CASE Next
  BY <1>2, SessionLocks, PlaneLocks, SaveLocks, CommandLocks, DeathLocks
     DEF Next, Renew, Login, Logout, Actors, Commands
<1> QED BY <1>1, <1>2

-----------------------------------------------------------------------------

\* A step that issues and sends nothing: records and credentials to save are
\* kept, dropped, or the ones that were there.
LEMMA CredKept ==
  ASSUME CredInv, UNCHANGED <<issued, used>>, net' \subseteq net,
         \/ record' \in {record, None}
         \/ \E a \in Actors : new[a] # None /\ record' = new[a],
         \A a \in Actors : new'[a] # None => new[a] # None /\ new'[a].cred = new[a].cred
  PROVE  CredInv'
BY DEF CredInv

LEMMA CredStep == Inv /\ TypeOK' /\ [Next]_vars => CredInv'
<1> SUFFICES ASSUME Inv, TypeOK', [Next]_vars PROVE CredInv'
  OBVIOUS
<1> USE NativeLoginAssumption
<1>0. TypeOK /\ CredInv /\ issued \in Nat
  BY DEF Inv, TypeOK
<1>1. ASSUME UNCHANGED <<record, new, issued, used>>, net' \subseteq net PROVE CredInv'
  BY <1>0, <1>1, CredKept
<1>2. ASSUME NEW s \in Sessions,
             \/ prepare_refresh(s) \/ Resume(s) \/ Abandon(s) \/ RecoveryWindow(s)
             \/ Timeout(s) \/ Cancel(s) \/ forget_access(s)
      PROVE CredInv'
  BY <1>1, <1>2 DEF prepare_refresh, Resume, Abandon, RecoveryWindow, Timeout, Cancel, forget_access,
                    store, work, plane
<1>3. ASSUME NEW s \in Sessions, Send(s) PROVE CredInv'
  <2>1. record # None /\ pending[s].cred = record.cred
    BY <1>3 DEF Send, Inv, LockInv, SaveInv
  <2>2. \A r \in net' : r \in net \/ r.cred = pending[s].cred
    BY <1>3 DEF Send
  <2>3. UNCHANGED <<record, new, issued, used>>
    BY <1>3 DEF Send, work, plane
  <2> QED BY <1>0, <2>1, <2>2, <2>3 DEF CredInv
<1>4. ASSUME NEW r \in net, Rotate(r) PROVE CredInv'
  <2>1. r.cred \in Credentials /\ r.cred <= issued /\ r.cred \in Nat
    BY <1>0 DEF TypeOK, Requests, CredInv, Credentials
  <2>2. /\ issued <= issued' /\ issued' \in Nat
        /\ \A c \in Credentials \ {r.cred} : used'[c] = used[c]
        /\ r.cred < used'[r.cred].next /\ used'[r.cred].next <= issued'
    <3>1. CASE /\ used[r.cred] = None
               /\ issued' = issued + 1
               /\ used' = [used EXCEPT ![r.cred] = [key |-> r.key, next |-> issued + 1]]
      BY <1>0, <2>1, <3>1 DEF TypeOK
    <3>2. CASE used[r.cred] # None /\ UNCHANGED <<issued, used>>
      BY <1>0, <2>1, <3>2 DEF CredInv
    <3> QED BY <1>4, <3>1, <3>2 DEF Rotate
  <2>3. \A c \in Credentials : used'[c] # None => c < used'[c].next /\ used'[c].next <= issued'
    <3>1. ASSUME NEW c \in Credentials, c # r.cred, used'[c] # None
          PROVE c < used'[c].next /\ used'[c].next <= issued'
      <4>1. used[c] # None /\ used'[c] = used[c] /\ used[c].next \in Nat
        BY <1>0, <2>2, <3>1 DEF TypeOK, Uses, Credentials
      <4> QED BY <1>0, <2>2, <4>1 DEF CredInv
    <3> QED BY <2>2, <3>1
  <2>4. \A a \in Actors : new'[a] # None => new'[a].cred <= issued'
    <3>1. \A a \in Actors : new[a] # None => new[a].cred <= issued'
      BY <1>0, <2>2 DEF CredInv, TypeOK, Saved, Credentials
    <3>2. CASE UNCHANGED new
      BY <3>1, <3>2
    <3>3. ASSUME NEW s \in Sessions, Granted(s, used'[r.cred].next), NEW a \in Actors, new'[a] # None
          PROVE new'[a].cred <= issued'
      <4>1. new' = [new EXCEPT ![s] = [cred |-> used'[r.cred].next, place |-> pending[s].place]]
        BY <3>3 DEF Granted
      <4>2. CASE a = s
        <5>1. new'[a].cred = used'[r.cred].next
          BY <1>0, <4>1, <4>2, <3>3 DEF TypeOK
        <5> QED BY <5>1, <2>2
      <4>3. CASE a # s
        BY <1>0, <3>1, <3>3, <4>1, <4>3 DEF TypeOK
      <4> QED BY <4>2, <4>3
    <3> QED BY <1>4, <3>2, <3>3 DEF Rotate, Lost, Unusable
  <2>5. /\ record' # None => record'.cred <= issued'
        /\ \A q \in net' : q.cred <= issued'
    BY <1>0, <1>4, <2>2 DEF Rotate, CredInv, TypeOK, Saved, Requests, Credentials
  <2> QED BY <2>3, <2>4, <2>5 DEF CredInv
<1>5. ASSUME NEW r \in net, Refuse(r) \/ TurnAway(r) PROVE CredInv'
  <2>1. UNCHANGED <<record, new, issued, used>> /\ net' \subseteq net
    BY <1>5 DEF Refuse, Lost, Unusable, TurnAway, plane
  <2> QED BY <1>1, <2>1
<1>6. ASSUME NEW a \in Actors, Save(a) PROVE CredInv'
  <2>1. UNCHANGED <<issued, used, net>>
    BY <1>6 DEF Save, prepare, write, retire, plane
  <2>2. record' = record \/ (new[a] # None /\ record' = new[a])
    BY <1>6, SavingHasNew DEF Save, prepare, write, retire
  <2>3. ASSUME NEW b \in Actors, new'[b] # None PROVE new[b] # None /\ new'[b].cred = new[b].cred
    <3>1. CASE new' = [new EXCEPT ![a].place = "native"] /\ pc[a] = "set"
      BY <1>0, <2>3, <3>1, SavingHasNew DEF TypeOK, Saved
    <3>2. CASE UNCHANGED new \/ new' = [new EXCEPT ![a] = None]
      BY <1>0, <2>3, <3>2 DEF TypeOK
    <3> QED BY <1>6, <3>1, <3>2 DEF Save, prepare, write, retire, SaveFailed, work
  <2> QED BY <1>0, <2>1, <2>2, <2>3, CredKept
<1>7. ASSUME NEW l \in Logins, exchange(l) PROVE CredInv'
  <2>1. issued' = issued + 1 /\ UNCHANGED <<record, used, net>>
    BY <1>7 DEF exchange, store
  <2>2. \A a \in Actors : new'[a] = new[a] \/ new'[a].cred = issued + 1
    BY <1>0, <1>7 DEF exchange, TypeOK, Actors, Commands
  <2>3. /\ \A a \in Actors : new[a] # None => new[a].cred \in Nat
        /\ \A c \in Credentials : used[c] # None => used[c].next \in Nat
        /\ \A r \in net : r.cred \in Nat
        /\ record # None => record.cred \in Nat
    <3>1. Credentials \subseteq Nat
      BY DEF Credentials
    <3>2. \A a \in Actors : new[a] # None => new[a].cred \in Nat
      BY <1>0, <3>1 DEF TypeOK, Saved
    <3>3. \A c \in Credentials : used[c] # None => used[c].next \in Nat
      BY <1>0, <3>1 DEF TypeOK, Uses
    <3>4. \A r \in net : r.cred \in Nat
      BY <1>0, <3>1 DEF TypeOK, Requests
    <3>5. record # None => record.cred \in Nat
      BY <1>0, <3>1 DEF TypeOK, Saved
    <3> QED BY <3>2, <3>3, <3>4, <3>5
  <2>4. \A a \in Actors : new'[a] # None => new'[a].cred <= issued'
    BY <1>0, <2>1, <2>2, <2>3 DEF CredInv
  <2>5. \A c \in Credentials : used'[c] # None => c < used'[c].next /\ used'[c].next <= issued'
    BY <1>0, <2>1, <2>3 DEF CredInv
  <2>6. (record' # None => record'.cred <= issued') /\ \A r \in net' : r.cred <= issued'
    BY <1>0, <2>1, <2>3 DEF CredInv
  <2> QED BY <2>4, <2>5, <2>6 DEF CredInv
<1>8. ASSUME NEW l \in Logins, Inspect(l) \/ prove(l) \/ Interrupt(l) \/ save(l) PROVE CredInv'
  <2>1. UNCHANGED <<record, issued, used, net>>
    BY <1>8 DEF Inspect, prove, Interrupt, save, store, plane
  <2>2. UNCHANGED new \/ new' = [new EXCEPT ![l] = None]
    BY <1>8 DEF Inspect, prove, Interrupt, save, work
  <2>3. \A a \in Actors : new'[a] # None => new[a] # None /\ new'[a].cred = new[a].cred
    BY <1>0, <2>2 DEF TypeOK
  <2> QED BY <1>0, <2>1, <2>3, CredKept
<1>9. ASSUME NEW o \in Logouts, Ask(o) \/ LockToRemove(o) \/ revoke_saved(o) \/ remove(o) PROVE CredInv'
  <2>1. UNCHANGED <<new, issued, used, net>> /\ record' \in {record, None}
    BY <1>9 DEF Ask, LockToRemove, revoke_saved, remove, store, work, plane
  <2> QED BY <1>0, <2>1, CredKept
<1>10. ASSUME NEW a \in Actors, Die(a) PROVE CredInv'
  <2>1. UNCHANGED <<record, issued, used, net>>
    BY <1>10 DEF Die, plane
  <2>2. \A b \in Actors : new'[b] # None => new[b] # None /\ new'[b].cred = new[b].cred
    BY <1>0, <1>10 DEF Die, TypeOK
  <2> QED BY <1>0, <2>1, <2>2, CredKept
<1>11. CASE UNCHANGED vars
  BY <1>1, <1>11 DEF vars, store, work, plane
<1> QED
  BY <1>2, <1>3, <1>4, <1>5, <1>6, <1>7, <1>8, <1>9, <1>10, <1>11
     DEF Next, Renew, Login, Logout, Actors, Commands

-----------------------------------------------------------------------------

\* A step that prepares and sends nothing: a refresh is kept, marked or dropped.
LEMMA KeyKept ==
  ASSUME KeyInv, UNCHANGED keys, net' \subseteq net,
         \A s \in Sessions : pending'[s] # None =>
            /\ pending[s] # None
            /\ pending'[s].key = pending[s].key /\ pending'[s].cred = pending[s].cred
  PROVE  KeyInv'
BY DEF KeyInv

LEMMA RetryKeeps ==
  ASSUME TypeOK, NEW s \in Sessions, pending[s] # None, NEW n \in Nat, NEW unknown \in BOOLEAN,
         Retry(s, n, unknown)
  PROVE  \A q \in Sessions : pending'[q] # None =>
            /\ pending[q] # None
            /\ pending'[q].key = pending[q].key /\ pending'[q].cred = pending[q].cred
<1>1. pending[s] \in Refreshes
  BY DEF TypeOK
<1>2. pending'[s] \in {[pending[s] EXCEPT !.unknown = unknown], [pending[s] EXCEPT !.unknown = TRUE], None}
  BY DEF Retry, TypeOK
<1>3. \A q \in Sessions : q # s => pending'[q] = pending[q]
  BY DEF Retry, TypeOK
<1>4. pending'[s] # None => pending'[s].key = pending[s].key /\ pending'[s].cred = pending[s].cred
  <2>1. /\ [pending[s] EXCEPT !.unknown = unknown].key = pending[s].key
        /\ [pending[s] EXCEPT !.unknown = unknown].cred = pending[s].cred
        /\ [pending[s] EXCEPT !.unknown = TRUE].key = pending[s].key
        /\ [pending[s] EXCEPT !.unknown = TRUE].cred = pending[s].cred
    BY <1>1, MarkFacts
  <2> QED BY <1>2, <2>1
<1> QED BY <1>3, <1>4

LEMMA KeyStep == Inv /\ TypeOK' /\ [Next]_vars => KeyInv'
<1> SUFFICES ASSUME Inv, TypeOK', [Next]_vars PROVE KeyInv'
  OBVIOUS
<1> USE NativeLoginAssumption
<1>0. TypeOK /\ KeyInv
  BY DEF Inv
<1>1. ASSUME UNCHANGED keys, net' \subseteq net,
             UNCHANGED pending \/ \E s \in Sessions : pending' = [pending EXCEPT ![s] = None]
      PROVE KeyInv'
  <2>1. \A q \in Sessions : pending'[q] # None => pending'[q] = pending[q]
    BY <1>0, <1>1 DEF TypeOK
  <2> QED BY <1>0, <1>1, <2>1, KeyKept
<1>2. ASSUME NEW s \in Sessions, prepare_refresh(s) PROVE KeyInv'
  <2>1. /\ keys' = keys + 1 /\ net' = net
        /\ pending'[s].key = keys' /\ \A q \in Sessions : q # s => pending'[q] = pending[q]
    BY <1>0, <1>2 DEF prepare_refresh, TypeOK
  <2>2. /\ keys \in Nat /\ \A r \in net : r.key \in Nat
        /\ \A q \in Sessions : pending[q] # None => pending[q].key \in Nat
    BY <1>0 DEF TypeOK, Requests, Refreshes, Keys
  <2> QED BY <1>0, <2>1, <2>2 DEF KeyInv
<1>3. ASSUME NEW s \in Sessions, Resume(s) \/ Abandon(s) \/ Cancel(s) \/ forget_access(s) PROVE KeyInv'
  BY <1>1, <1>3 DEF Resume, Abandon, GiveUp, Cancel, forget_access
<1>4. ASSUME NEW s \in Sessions, RecoveryWindow(s) PROVE KeyInv'
  <2>1. pending[s] \in Refreshes /\ UNCHANGED <<keys, net>>
    BY <1>0, <1>4 DEF RecoveryWindow, TypeOK
  <2>2. /\ pending'[s] = [pending[s] EXCEPT !.late = TRUE]
        /\ \A q \in Sessions : q # s => pending'[q] = pending[q]
    BY <1>0, <1>4 DEF RecoveryWindow, TypeOK
  <2>3. pending'[s].key = pending[s].key /\ pending'[s].cred = pending[s].cred
    BY <2>1, <2>2, MarkFacts
  <2>4. \A q \in Sessions : pending'[q] # None =>
          /\ pending[q] # None
          /\ pending'[q].key = pending[q].key /\ pending'[q].cred = pending[q].cred
    BY <2>1, <2>2, <2>3
  <2> QED BY <1>0, <2>1, <2>4, KeyKept
<1>5. ASSUME NEW s \in Sessions, Timeout(s) PROVE KeyInv'
  <2>1. pending[s] # None /\ tries[s] \in Nat /\ UNCHANGED <<keys, net>>
    BY <1>0, <1>5 DEF Timeout, Inv, LockInv, TypeOK
  <2> QED BY <1>0, <1>5, <2>1, RetryKeeps, KeyKept DEF Timeout
<1>6. ASSUME NEW s \in Sessions, Send(s) PROVE KeyInv'
  <2>1. pending[s] # None /\ pending[s] \in Refreshes /\ tries'[s] \in Nat /\ UNCHANGED keys
    BY <1>0, <1>6 DEF Send, Inv, LockInv, TypeOK
  <2>2. CASE Retry(s, tries'[s], pending[s].unknown) /\ UNCHANGED net
    <3>1. pending[s].unknown \in BOOLEAN
      BY <2>1 DEF Refreshes
    <3> QED BY <1>0, <2>1, <2>2, <3>1, RetryKeeps, KeyKept
  <2>3. CASE /\ net' = net \cup {[cred |-> pending[s].cred, key |-> pending[s].key]}
             /\ pending' = [pending EXCEPT ![s].unknown = TRUE]
    <3>1. /\ pending'[s] = [pending[s] EXCEPT !.unknown = TRUE]
          /\ \A q \in Sessions : q # s => pending'[q] = pending[q]
      BY <1>0, <2>1, <2>3 DEF TypeOK
    <3>2. pending'[s].key = pending[s].key /\ pending'[s].cred = pending[s].cred
      BY <2>1, <3>1, MarkFacts
    <3>3. \A q \in Sessions : q # s => pending[q] = None
      BY <2>1 DEF Inv, LockInv
    <3>4. \A r \in net' : r \in net \/ (r.key = pending[s].key /\ r.cred = pending[s].cred)
      BY <2>3
    <3>5. \A r \in net' : r.key <= keys'
      BY <1>0, <2>1, <3>4 DEF KeyInv
    <3>6. /\ pending'[s].key <= keys'
          /\ \A r \in net' : r.key = pending'[s].key => r.cred = pending'[s].cred
      BY <1>0, <2>1, <3>2, <3>4 DEF KeyInv
    <3> QED BY <3>1, <3>3, <3>5, <3>6 DEF KeyInv
  <2> QED BY <1>6, <2>2, <2>3 DEF Send
<1>7. ASSUME NEW r \in net, Rotate(r) \/ Refuse(r) \/ TurnAway(r) PROVE KeyInv'
  <2>1. UNCHANGED keys /\ net' \subseteq net
    BY <1>7 DEF Rotate, Refuse, TurnAway
  <2>2. UNCHANGED pending \/ \E s \in Sessions : pending' = [pending EXCEPT ![s] = None]
    BY <1>7 DEF Rotate, Granted, Unusable, GiveUp, Lost, Refuse, TurnAway, session
  <2> QED BY <1>1, <2>1, <2>2
<1>8. ASSUME NEW a \in Actors, Save(a) PROVE KeyInv'
  BY <1>1, <1>8 DEF Save, prepare, write, retire
<1>9. ASSUME NEW l \in Logins, Inspect(l) \/ exchange(l) \/ prove(l) \/ Interrupt(l) \/ save(l) PROVE KeyInv'
  BY <1>1, <1>9 DEF Inspect, exchange, prove, Interrupt, save, session
<1>10. ASSUME NEW o \in Logouts, Ask(o) \/ LockToRemove(o) \/ revoke_saved(o) \/ remove(o) PROVE KeyInv'
  BY <1>1, <1>10 DEF Ask, LockToRemove, revoke_saved, remove, session
<1>11. ASSUME NEW a \in Actors, Die(a) PROVE KeyInv'
  BY <1>1, <1>11 DEF Die
<1>12. CASE UNCHANGED vars
  BY <1>1, <1>12 DEF vars, session
<1> QED
  BY <1>2, <1>3, <1>4, <1>5, <1>6, <1>7, <1>8, <1>9, <1>10, <1>11, <1>12
     DEF Next, Renew, Login, Logout, Actors, Commands

-----------------------------------------------------------------------------

\* What SaveInv says of one actor.
SavesRight(a) ==
  /\ a \in Sessions =>
       /\ pending[a] # None => record # None /\ pending[a].cred = record.cred
       /\ pc[a] \in {"set", "write"} =>
            /\ record # None /\ old[a] = record /\ new[a] # None
            /\ used[record.cred] # None /\ used[record.cred].next = new[a].cred
       /\ pc[a] = "retire" => record # None /\ old[a] # None /\ old[a].cred # record.cred
  /\ a \in Logins =>
       /\ old[a] = None
       /\ pc[a] \in {"prove", "save", "set", "write"} => new[a] # None
       /\ pc[a] \in {"set", "write"} => record = None
  /\ a \in Logouts =>
       /\ pc[a] \in {"revoke", "remove"} => record # None
       /\ pc[a] = "retire" => record = None

\* Consumed credentials stay consumed, by the same refresh.
UsedKept == \A c \in Credentials : used[c] # None => used'[c] = used[c]

LEMMA SavesAll == SaveInv <=> \A a \in Actors : SavesRight(a)
BY DEF SaveInv, SavesRight, Actors, Commands

\* An actor that takes no part in the step: the record changes under nobody who
\* relies on it, because the one who changes it holds the lock.
LEMMA SaveOther ==
  ASSUME Inv, NEW b \in Actors, UsedKept, record' = record \/ lock # b,
         UNCHANGED <<pc[b], old[b], new[b]>>, b \in Sessions => UNCHANGED pending[b]
  PROVE  SavesRight(b)'
<1> USE NativeLoginAssumption
<1>1. SavesRight(b) /\ TypeOK /\ LockInv
  BY SavesAll DEF Inv
<1>2. CASE record' = record
  <2>1. record # None => record.cred \in Credentials
    BY <1>1 DEF TypeOK, Saved
  <2> QED BY <1>1, <1>2, <2>1 DEF SavesRight, UsedKept
<1>3. CASE lock # b
  <2>1. /\ pc[b] \notin {"set", "write", "retire", "revoke", "remove"}
        /\ b \in Sessions => pending[b] = None
    BY <1>1, <1>3 DEF LockInv
  <2> QED BY <1>1, <2>1 DEF SavesRight
<1> QED BY <1>2, <1>3

LEMMA SaveLocal ==
  ASSUME Inv, NEW a \in Actors, UsedKept, record' = record \/ lock = a,
         \A b \in Actors : b # a => UNCHANGED <<pc[b], old[b], new[b]>>,
         \A s \in Sessions : s # a => UNCHANGED pending[s], SavesRight(a)'
  PROVE  SaveInv'
<1>1. ASSUME NEW b \in Actors, b # a PROVE SavesRight(b)'
  BY <1>1, SaveOther
<1>2. \A b \in Actors : SavesRight(b)'
  BY <1>1
<1> QED BY <1>2 DEF SaveInv, SavesRight, Actors, Commands

LEMMA SessionSaves ==
  ASSUME Inv, TypeOK', NEW s \in Sessions,
         \/ prepare_refresh(s) \/ Resume(s) \/ Abandon(s) \/ RecoveryWindow(s)
         \/ Send(s) \/ Timeout(s) \/ Cancel(s) \/ forget_access(s)
  PROVE  SaveInv'
<1> USE NativeLoginAssumption
<1>0. TypeOK /\ LockInv /\ s \in Actors /\ s \notin Logins \cup Logouts /\ SavesRight(s)
  BY SavesAll DEF Inv, Actors, Commands
<1>1. UNCHANGED <<record, used, old, new>>
  BY DEF prepare_refresh, Resume, Abandon, RecoveryWindow, Send, Timeout, Cancel, forget_access,
         store, work, plane
<1>2. UsedKept
  BY <1>1 DEF UsedKept
<1>3. ASSUME \A b \in Actors : b # s => UNCHANGED pc[b],
             \A q \in Sessions : q # s => UNCHANGED pending[q],
             pc'[s] \in {"idle", "ready", "sent"} \/ pc'[s] = pc[s],
             pending'[s] # None => record # None /\ pending'[s].cred = record.cred
      PROVE SaveInv'
  <2>1. SavesRight(s)'
    BY <1>0, <1>1, <1>3 DEF SavesRight
  <2> QED BY <1>0, <1>1, <1>2, <1>3, <2>1, SaveLocal
<1>4. /\ \A b \in Actors : b # s => UNCHANGED pc[b]
      /\ pc'[s] \in {"idle", "ready", "sent"} \/ pc'[s] = pc[s]
  BY <1>0 DEF prepare_refresh, Resume, Abandon, RecoveryWindow, Send, Timeout, Retry, GiveUp, Cancel,
              forget_access, Go, TypeOK
<1>5. CASE prepare_refresh(s)
  <2>1. pending'[s].cred = record.cred /\ record # None
    BY <1>0, <1>5 DEF prepare_refresh, TypeOK
  <2> QED BY <1>0, <1>3, <1>4, <1>5, <2>1 DEF prepare_refresh, TypeOK
<1>6. CASE Resume(s) \/ Cancel(s) \/ forget_access(s)
  <2>1. UNCHANGED pending
    BY <1>6 DEF Resume, Cancel, forget_access
  <2> QED BY <1>0, <1>3, <1>4, <2>1 DEF SavesRight
<1>7. CASE Abandon(s)
  BY <1>0, <1>3, <1>4, <1>7 DEF Abandon, GiveUp, TypeOK
<1>8. CASE RecoveryWindow(s)
  <2>1. pending[s] \in Refreshes /\ pending[s] # None
    BY <1>0, <1>8 DEF RecoveryWindow, TypeOK
  <2>2. /\ pending'[s] = [pending[s] EXCEPT !.late = TRUE]
        /\ \A q \in Sessions : q # s => pending'[q] = pending[q]
    BY <1>0, <1>8 DEF RecoveryWindow, TypeOK
  <2>3. pending'[s].cred = pending[s].cred
    BY <2>1, <2>2, MarkFacts
  <2> QED BY <1>0, <1>3, <1>4, <2>1, <2>2, <2>3 DEF SavesRight
<1>9. ASSUME NEW n \in Nat, NEW unknown \in BOOLEAN, Retry(s, n, unknown), pending[s] # None
      PROVE SaveInv'
  <2>1. /\ pending'[s] # None => pending'[s].cred = pending[s].cred
        /\ \A q \in Sessions : q # s => pending'[q] = pending[q]
    BY <1>0, <1>9, RetryKeeps DEF Retry, TypeOK
  <2> QED BY <1>0, <1>3, <1>4, <1>9, <2>1 DEF SavesRight
<1>10. CASE Timeout(s)
  <2>1. pending[s] # None /\ tries[s] \in Nat
    BY <1>0, <1>10 DEF Timeout, LockInv, TypeOK
  <2> QED BY <1>9, <1>10, <2>1 DEF Timeout
<1>11. CASE Send(s)
  <2>1. pending[s] # None /\ pending[s] \in Refreshes /\ tries'[s] \in Nat
    BY <1>0, <1>11 DEF Send, LockInv, TypeOK
  <2>2. CASE Retry(s, tries'[s], pending[s].unknown)
    <3>1. pending[s].unknown \in BOOLEAN
      BY <2>1 DEF Refreshes
    <3> QED BY <1>9, <2>1, <2>2, <3>1
  <2>3. CASE pending' = [pending EXCEPT ![s].unknown = TRUE]
    <3>1. /\ pending'[s] = [pending[s] EXCEPT !.unknown = TRUE]
          /\ \A q \in Sessions : q # s => pending'[q] = pending[q]
      BY <1>0, <2>1, <2>3 DEF TypeOK
    <3>2. pending'[s].cred = pending[s].cred
      BY <2>1, <3>1, MarkFacts
    <3> QED BY <1>0, <1>3, <1>4, <2>1, <3>1, <3>2 DEF SavesRight
  <2> QED BY <1>11, <2>2, <2>3 DEF Send
<1> QED BY <1>5, <1>6, <1>7, <1>8, <1>10, <1>11

LEMMA PlaneSaves ==
  ASSUME Inv, TypeOK', NEW r \in net, Rotate(r) \/ Refuse(r) \/ TurnAway(r)
  PROVE  SaveInv'
<1> USE NativeLoginAssumption
<1>0. TypeOK /\ LockInv /\ KeyInv /\ r.cred \in Credentials /\ r.key \in Keys
  BY DEF Inv, TypeOK, Requests
<1>1. UsedKept /\ UNCHANGED record
  BY <1>0 DEF Rotate, Refuse, TurnAway, UsedKept, TypeOK, store, plane
<1>2. ASSUME UNCHANGED <<pc, pending, old, new>> PROVE SaveInv'
  <2>1. \A b \in Actors : SavesRight(b)'
    BY <1>1, <1>2, SaveOther
  <2> QED BY <2>1 DEF SaveInv, SavesRight, Actors, Commands
<1>3. ASSUME NEW s \in Sessions, GiveUp(s), UNCHANGED <<new, old>> PROVE SaveInv'
  <2>1. /\ pc'[s] = "idle" /\ pending'[s] = None
        /\ \A b \in Actors : b # s => UNCHANGED pc[b]
        /\ \A q \in Sessions : q # s => UNCHANGED pending[q]
        /\ s \in Actors /\ s \notin Logins \cup Logouts
    BY <1>0, <1>3 DEF GiveUp, Go, TypeOK, Actors, Commands
  <2>2. SavesRight(s)'
    BY <2>1 DEF SavesRight
  <2> QED BY <1>1, <1>3, <2>1, <2>2, SaveLocal
<1>4. ASSUME NEW s \in Sessions, Waiting(s, r), Rotate(r), Granted(s, used'[r.cred].next) PROVE SaveInv'
  <2>1. pending[s] # None /\ r.cred = pending[s].cred /\ record # None /\ r.cred = record.cred
    BY <1>0, <1>4 DEF Waiting, LockInv, KeyInv, Inv, SaveInv
  <2>2. /\ pc'[s] = "set" /\ pending'[s] = None /\ old'[s] = record
        /\ new'[s] = [cred |-> used'[r.cred].next, place |-> pending[s].place]
        /\ \A b \in Actors : b # s => UNCHANGED <<pc[b], old[b], new[b]>>
        /\ \A q \in Sessions : q # s => UNCHANGED pending[q]
        /\ s \in Actors /\ s \notin Logins \cup Logouts
    BY <1>0, <1>4 DEF Granted, Go, TypeOK, Actors, Commands
  <2>3. used'[r.cred] # None
    <3>1. CASE used[r.cred] = None
      <4>1. used'[r.cred] = [key |-> r.key, next |-> issued + 1] /\ issued + 1 \in Credentials
        BY <1>0, <1>4, <3>1 DEF Rotate, TypeOK, Credentials
      <4> QED BY <1>0, <4>1 DEF Uses
    <3> QED BY <1>4, <3>1 DEF Rotate
  <2>4. new'[s] # None /\ new'[s].cred = used'[r.cred].next
    <3>1. used'[r.cred] \in Uses /\ pending[s] \in Refreshes
      BY <1>0, <2>1, <2>3 DEF TypeOK
    <3>2. new'[s] \in Saved
      BY <2>2, <3>1 DEF Uses, Refreshes, Saved
    <3> QED BY <2>2, <3>2
  <2>5. SavesRight(s)'
    BY <1>1, <2>1, <2>2, <2>3, <2>4 DEF SavesRight
  <2> QED BY <1>1, <2>2, <2>5, SaveLocal
<1>5. CASE Rotate(r)
  BY <1>2, <1>3, <1>4, <1>5 DEF Rotate, Lost, Unusable
<1>6. CASE Refuse(r)
  BY <1>2, <1>3, <1>6 DEF Refuse, Lost
<1>7. CASE TurnAway(r)
  BY <1>2, <1>3, <1>7 DEF TurnAway, Lost, Unusable
<1> QED BY <1>5, <1>6, <1>7

\* A successor is another credential than the one it replaces.
LEMMA SuccessorDiffers ==
  ASSUME Inv, NEW s \in Sessions, pc[s] \in {"set", "write"}
  PROVE  /\ record \in Saved /\ new[s] \in Saved
         /\ old[s] = record /\ new[s].cred # record.cred
         /\ used[record.cred] # None /\ used[record.cred].next = new[s].cred
<1>1. /\ record # None /\ old[s] = record /\ new[s] # None
      /\ used[record.cred] # None /\ used[record.cred].next = new[s].cred
  BY DEF Inv, SaveInv
<1>2. record \in Saved /\ new[s] \in Saved
  BY <1>1 DEF Inv, TypeOK, Actors
<1>3. record.cred \in Credentials /\ record.cred \in Nat
  BY <1>2, NativeLoginAssumption DEF Saved, Credentials
<1>4. record.cred < new[s].cred
  BY <1>1, <1>3 DEF Inv, CredInv
<1> QED BY <1>1, <1>2, <1>3, <1>4

LEMMA SaveSaves == ASSUME Inv, NEW a \in Actors, Save(a) PROVE SaveInv'
<1> USE NativeLoginAssumption
<1>0. TypeOK /\ LabelInv /\ LockInv /\ lock = a /\ SavesRight(a)
  BY SavesAll DEF Inv, LockInv, Save, prepare, write, retire
<1>1. UNCHANGED <<pending, used>> /\ UsedKept
  BY DEF Save, prepare, write, retire, plane, UsedKept
<1>2. a \in Sessions => pending[a] = None
  BY <1>0 DEF LockInv, Save, prepare, write, retire
<1>3. \A b \in Actors : b # a => UNCHANGED <<pc[b], old[b], new[b]>>
  BY <1>0 DEF Save, prepare, write, retire, SaveFailed, Go, TypeOK, work
<1>4. SavesRight(a)' => SaveInv'
  BY <1>0, <1>1, <1>3, SaveLocal
<1>5. ASSUME pc'[a] \in {"idle", "done"}, old'[a] = None PROVE SavesRight(a)'
  BY <1>1, <1>2, <1>5 DEF SavesRight
<1>6. CASE prepare(a)
  <2>1. new[a] \in Saved /\ a \notin Logouts /\ UNCHANGED record
    BY <1>0, <1>6, SavingHasNew DEF prepare, LabelInv
  <2>2. CASE new' = [new EXCEPT ![a].place = "native"] /\ Go(a, "write") /\ UNCHANGED old
    <3>1. pc'[a] = "write" /\ new'[a] = [new[a] EXCEPT !.place = "native"]
      BY <1>0, <2>2 DEF TypeOK, Go
    <3>2. new'[a] \in Saved /\ new'[a].cred = new[a].cred
      BY <2>1, <3>1 DEF Saved, Places
    <3> QED BY <1>0, <1>1, <1>2, <1>4, <1>6, <2>1, <2>2, <3>1, <3>2 DEF SavesRight, prepare
  <2>3. CASE Go(a, "write") /\ UNCHANGED work
    <3>1. pc'[a] = "write"
      BY <1>0, <2>3 DEF TypeOK, Go
    <3> QED BY <1>0, <1>1, <1>2, <1>4, <1>6, <2>1, <2>3, <3>1 DEF SavesRight, prepare, work
  <2>4. CASE SaveFailed(a)
    BY <1>0, <1>4, <1>5, <2>4 DEF SaveFailed, Go, TypeOK
  <2> QED BY <1>6, <2>2, <2>3, <2>4 DEF prepare
<1>7. CASE write(a)
  <2>1. CASE record' = new[a] /\ Go(a, "retire") /\ UNCHANGED work
    <3>1. pc'[a] = "retire" /\ a \notin Logouts /\ pc[a] = "write" /\ UNCHANGED <<old, new>>
      BY <1>0, <1>7, <2>1 DEF TypeOK, Go, LabelInv, write, work
    <3>2. a \in Sessions => record' # None /\ old'[a] # None /\ old'[a].cred # record'.cred
      BY <2>1, <3>1, SuccessorDiffers
    <3> QED BY <1>0, <1>1, <1>2, <1>4, <3>1, <3>2 DEF SavesRight
  <2>2. CASE SaveFailed(a)
    BY <1>0, <1>4, <1>5, <2>2 DEF SaveFailed, Go, TypeOK
  <2> QED BY <1>7, <2>1, <2>2 DEF write
<1>8. CASE retire(a)
  BY <1>0, <1>4, <1>5, <1>8 DEF retire, Go, TypeOK
<1> QED BY <1>6, <1>7, <1>8 DEF Save

LEMMA CommandSaves ==
  ASSUME Inv, TypeOK', NEW a \in Commands,
         \/ a \in Logins /\ (Inspect(a) \/ exchange(a) \/ prove(a) \/ Interrupt(a) \/ save(a))
         \/ a \in Logouts /\ (Ask(a) \/ LockToRemove(a) \/ revoke_saved(a) \/ remove(a))
  PROVE  SaveInv'
<1> USE NativeLoginAssumption
<1>0. TypeOK /\ LockInv /\ a \in Actors /\ a \notin Sessions /\ SavesRight(a)
  BY SavesAll DEF Inv, Actors
<1>1. UNCHANGED <<pending, used>> /\ UsedKept
  BY DEF Inspect, exchange, prove, Interrupt, save, Ask, LockToRemove, revoke_saved, remove, session,
         plane, UsedKept
<1>2. /\ \A b \in Actors : b # a => UNCHANGED pc[b]
      /\ \A b \in Actors : b # a => UNCHANGED <<old[b], new[b]>>
  <2>1. CASE a \in Logins /\ (Inspect(a) \/ exchange(a) \/ prove(a) \/ Interrupt(a) \/ save(a))
    BY <1>0, <2>1 DEF Inspect, exchange, prove, Interrupt, save, Go, TypeOK, work
  <2>2. CASE a \in Logouts /\ (Ask(a) \/ LockToRemove(a) \/ revoke_saved(a) \/ remove(a))
    BY <1>0, <2>2 DEF Ask, LockToRemove, revoke_saved, remove, Go, TypeOK, work
  <2> QED BY <2>1, <2>2
<1>3. ASSUME SavesRight(a)', record' = record \/ lock = a PROVE SaveInv'
  BY <1>0, <1>1, <1>2, <1>3, SaveLocal
<1>4. CASE a \in Logins
  <2>0. a \notin Logouts
    BY <1>4
  <2>1. UNCHANGED <<record, old>>
    BY <1>4, <2>0 DEF Inspect, exchange, prove, Interrupt, save, store, work
  <2>2. CASE exchange(a)
    <3>1. pc'[a] = "done" \/ pc'[a] = "prove"
      BY <1>0, <2>2 DEF exchange, Go, TypeOK
    <3>2. ASSUME pc'[a] = "prove" PROVE new'[a] # None
      <4>1. new'[a] = [cred |-> issued + 1, place |-> IF Plaintext THEN "file" ELSE "native"]
        BY <1>0, <2>2, <3>2 DEF exchange, Go, TypeOK
      <4>2. issued + 1 \in Credentials
        BY <1>0, <2>2 DEF exchange, TypeOK, Credentials
      <4>3. new'[a] \in Saved
        BY <4>1, <4>2 DEF Saved, Places
      <4> QED BY <4>3
    <3> QED BY <1>0, <1>3, <2>0, <2>1, <3>1, <3>2 DEF SavesRight
  <2>3. CASE Inspect(a) \/ prove(a) \/ Interrupt(a) \/ save(a)
    <3>1. /\ pc'[a] \in {"exchange", "done", "save", "set"}
          /\ pc'[a] \in {"save", "set"} => new'[a] = new[a] /\ pc[a] \in {"prove", "save"}
          /\ pc'[a] = "set" => record = None
      BY <1>0, <2>3 DEF Inspect, prove, Interrupt, save, Go, TypeOK
    <3> QED BY <1>0, <1>3, <2>0, <2>1, <3>1 DEF SavesRight
  <2> QED BY <1>4, <2>0, <2>2, <2>3
<1>5. CASE a \in Logouts
  <2>0. a \notin Logins
    BY <1>5
  <2>1. CASE Ask(a) \/ LockToRemove(a) \/ revoke_saved(a)
    <3>1. /\ UNCHANGED record
          /\ pc'[a] \in {"waiting", "done", "revoke", "remove"}
          /\ pc'[a] = "revoke" => record # None
          /\ pc'[a] = "remove" => pc[a] = "revoke"
      BY <1>0, <2>1 DEF Ask, LockToRemove, revoke_saved, Go, TypeOK, store
    <3> QED BY <1>0, <1>3, <1>5, <2>0, <3>1 DEF SavesRight
  <2>2. CASE remove(a)
    <3>1. /\ lock = a
          /\ pc'[a] = "done" \/ (pc'[a] = "retire" /\ record' = None)
      BY <1>0, <2>2 DEF remove, LockInv, Go, TypeOK
    <3> QED BY <1>0, <1>3, <1>5, <2>0, <3>1 DEF SavesRight
  <2> QED BY <1>5, <2>0, <2>1, <2>2
<1> QED BY <1>4, <1>5 DEF Commands

LEMMA DeathSaves == ASSUME Inv, NEW a \in Actors, Die(a) PROVE SaveInv'
<1> USE NativeLoginAssumption
<1>0. TypeOK
  BY DEF Inv
<1>1. /\ \A b \in Actors : b # a => UNCHANGED <<pc[b], old[b], new[b]>>
      /\ \A s \in Sessions : s # a => UNCHANGED pending[s]
      /\ pc'[a] \in {"idle", "done"} /\ old'[a] = None
      /\ a \in Sessions => pending'[a] = None
  BY <1>0 DEF Die, Go, TypeOK
<1>2. UNCHANGED record /\ UsedKept
  BY DEF Die, plane, UsedKept
<1>3. SavesRight(a)'
  BY <1>1 DEF SavesRight
<1> QED BY <1>1, <1>2, <1>3, SaveLocal

LEMMA SaveStep == Inv /\ TypeOK' /\ [Next]_vars => SaveInv'
<1> SUFFICES ASSUME Inv, TypeOK', [Next]_vars PROVE SaveInv'
  OBVIOUS
<1>1. CASE UNCHANGED vars
  BY <1>1 DEF Inv, SaveInv, vars, store, session, work, plane
<1>2. CASE Next
  BY <1>2, SessionSaves, PlaneSaves, SaveSaves, CommandSaves, DeathSaves
     DEF Next, Renew, Login, Logout, Actors, Commands
<1> QED BY <1>1, <1>2

-----------------------------------------------------------------------------

LEMMA KeptStep == Inv /\ [Next]_vars => KeptInv'
<1> SUFFICES ASSUME Inv, [Next]_vars PROVE KeptInv'
  OBVIOUS
<1> USE NativeLoginAssumption
<1>0. TypeOK /\ LabelInv /\ LockInv /\ SaveInv /\ KeptInv
  BY DEF Inv
<1>1. ASSUME UNCHANGED <<record, keyring>>,
             \A b \in Actors : pc'[b] = "write" => pc[b] = "write" /\ new'[b] = new[b]
      PROVE KeptInv'
  BY <1>0, <1>1 DEF KeptInv, RecordHasItsCredential
<1>2. ASSUME NEW s \in Sessions,
             \/ prepare_refresh(s) \/ Resume(s) \/ Abandon(s) \/ RecoveryWindow(s)
             \/ Send(s) \/ Timeout(s) \/ Cancel(s) \/ forget_access(s)
      PROVE KeptInv'
  <2>1. UNCHANGED <<record, keyring, new>>
    BY <1>2 DEF prepare_refresh, Resume, Abandon, RecoveryWindow, Send, Timeout, Cancel, forget_access,
                store, work
  <2>2. \A b \in Actors : pc'[b] = "write" => pc[b] = "write"
    BY <1>0, <1>2 DEF prepare_refresh, Resume, Abandon, RecoveryWindow, Send, Timeout, Retry, GiveUp,
                      Cancel, forget_access, Go, TypeOK
  <2> QED BY <1>1, <2>1, <2>2
<1>3. ASSUME NEW r \in net, Rotate(r) \/ Refuse(r) \/ TurnAway(r) PROVE KeptInv'
  <2>1. UNCHANGED <<record, keyring>>
    BY <1>3 DEF Rotate, Refuse, TurnAway, store
  <2>2. \/ UNCHANGED <<pc, new>>
        \/ \E s \in Sessions : (GiveUp(s) /\ UNCHANGED new) \/ Granted(s, used'[r.cred].next)
    BY <1>3 DEF Rotate, Refuse, TurnAway, Lost, Unusable, work
  <2>3. \A b \in Actors : pc'[b] = "write" => pc[b] = "write" /\ new'[b] = new[b]
    BY <1>0, <2>2 DEF GiveUp, Granted, Go, TypeOK, Actors
  <2> QED BY <1>1, <2>1, <2>3
<1>4. ASSUME NEW a \in Actors, Save(a) PROVE KeptInv'
  <2>0. lock = a /\ \A b \in Actors : b # a => pc[b] \notin {"write"}
    BY <1>0, <1>4 DEF LockInv, Save, prepare, write, retire
  <2>1. \A b \in Actors : b # a => pc'[b] # "write"
    BY <1>0, <1>4, <2>0 DEF Save, prepare, write, retire, SaveFailed, Go, TypeOK
  <2>2. CASE prepare(a)
    <3>1. new[a] \in Saved /\ UNCHANGED record
      BY <2>2, SavingHasNew DEF prepare
    <3>2. CASE /\ keyring' = keyring \cup {new[a].cred}
               /\ new' = [new EXCEPT ![a].place = "native"]
      <4>1. new'[a].cred = new[a].cred
        BY <1>0, <3>1, <3>2 DEF TypeOK, Saved
      <4> QED BY <1>0, <2>1, <3>1, <3>2, <4>1 DEF KeptInv, RecordHasItsCredential
    <3>3. CASE new[a].place = "file" /\ UNCHANGED <<keyring, work>>
      BY <1>0, <2>1, <3>1, <3>3 DEF KeptInv, RecordHasItsCredential, work
    <3>4. CASE SaveFailed(a) /\ UNCHANGED keyring
      <4>1. pc'[a] # "write"
        BY <1>0, <3>4 DEF SaveFailed, Go, TypeOK
      <4> QED BY <1>1, <2>1, <3>1, <3>4, <4>1
    <3> QED BY <2>2, <3>2, <3>3, <3>4 DEF prepare
  <2>3. CASE write(a)
    <3>1. pc'[a] # "write"
      BY <1>0, <2>3 DEF write, SaveFailed, Go, TypeOK
    <3>2. CASE record' = new[a] /\ UNCHANGED keyring
      BY <1>0, <2>1, <2>3, <3>1, <3>2 DEF KeptInv, RecordHasItsCredential, write
    <3>3. CASE /\ keyring' = keyring \ {new[a].cred} \/ UNCHANGED keyring
               /\ UNCHANGED record
      <4>1. record # None => record.cred # new[a].cred
        BY <1>0, <2>3, SavingHasNew, SuccessorDiffers DEF write, SaveInv
      <4> QED BY <1>0, <2>1, <3>1, <3>3, <4>1 DEF KeptInv, RecordHasItsCredential
    <3> QED BY <2>3, <3>2, <3>3 DEF write
  <2>4. CASE retire(a)
    <3>1. pc'[a] # "write" /\ UNCHANGED record
      BY <1>0, <2>4 DEF retire, Go, TypeOK
    <3>2. record # None /\ old[a] # None => old[a].cred # record.cred
      BY <1>0, <2>4 DEF retire, SaveInv, Actors, Commands
    <3> QED BY <1>0, <2>1, <2>4, <3>1, <3>2 DEF retire, KeptInv, RecordHasItsCredential
  <2> QED BY <1>4, <2>2, <2>3, <2>4 DEF Save
<1>5. ASSUME NEW l \in Logins, Inspect(l) \/ exchange(l) \/ prove(l) \/ Interrupt(l) \/ save(l) PROVE KeptInv'
  <2>1. UNCHANGED <<record, keyring>>
    BY <1>5 DEF Inspect, exchange, prove, Interrupt, save, store
  <2>2. l \in Actors /\ pc'[l] # "write"
    BY <1>0, <1>5 DEF Inspect, exchange, prove, Interrupt, save, Go, TypeOK, Actors, Commands
  <2>3. \A b \in Actors : b # l => pc'[b] = pc[b] /\ new'[b] = new[b]
    BY <1>0, <1>5 DEF Inspect, exchange, prove, Interrupt, save, Go, TypeOK, work
  <2> QED BY <1>1, <2>1, <2>2, <2>3
<1>6. ASSUME NEW o \in Logouts, Ask(o) \/ LockToRemove(o) \/ revoke_saved(o) \/ remove(o) PROVE KeptInv'
  <2>1. UNCHANGED <<keyring, new>> /\ record' \in {record, None}
    BY <1>6 DEF Ask, LockToRemove, revoke_saved, remove, store, work
  <2>2. \A b \in Actors : pc'[b] = "write" => pc[b] = "write"
    BY <1>0, <1>6 DEF Ask, LockToRemove, revoke_saved, remove, Go, TypeOK
  <2> QED BY <1>0, <2>1, <2>2 DEF KeptInv, RecordHasItsCredential
<1>7. ASSUME NEW a \in Actors, Die(a) PROVE KeptInv'
  <2>1. UNCHANGED <<record, keyring>>
    BY <1>7 DEF Die
  <2>2. \A b \in Actors : pc'[b] = "write" => pc[b] = "write" /\ new'[b] = new[b]
    BY <1>0, <1>7 DEF Die, Go, TypeOK
  <2> QED BY <1>1, <2>1, <2>2
<1>8. CASE UNCHANGED vars
  BY <1>1, <1>8 DEF vars, store, work
<1> QED
  BY <1>2, <1>3, <1>4, <1>5, <1>6, <1>7, <1>8 DEF Next, Renew, Login, Logout, Actors, Commands

-----------------------------------------------------------------------------

LEMMA InvInit == Init => Inv
<1> SUFFICES ASSUME Init PROVE Inv
  OBVIOUS
<1> USE NativeLoginAssumption
<1>1. TypeOK
  BY DEF Init, TypeOK, Labels
<1>2. LabelInv /\ LockInv
  BY DEF Init, LabelInv, LockInv, Actors, Commands
<1>3. CredInv /\ KeyInv
  BY DEF Init, CredInv, KeyInv
<1>4. SaveInv /\ KeptInv
  BY DEF Init, SaveInv, KeptInv, RecordHasItsCredential, Actors, Commands
<1> QED BY <1>1, <1>2, <1>3, <1>4 DEF Inv

LEMMA InvStep == Inv /\ [Next]_vars => Inv'
BY TypeStep, LabelStep, LockStep, CredStep, KeyStep, SaveStep, KeptStep DEF Inv

LEMMA InvAlways == Spec => []Inv
BY InvInit, InvStep, PTL DEF Spec

(* The type invariant of the store, the sessions and the commands. *)
THEOREM LoginTyped == Spec => []TypeOK
<1>1. Inv => TypeOK
  BY DEF Inv
<1> QED BY <1>1, InvAlways, PTL

(* Whoever dies between any two steps of a save or a removal, a record that  *)
(* names a keyring entry has it (ConnectionStore::replace and remove).       *)
THEOREM RecordUsable == Spec => []RecordHasItsCredential
<1>1. Inv => RecordHasItsCredential
  BY DEF Inv, KeptInv
<1> QED BY <1>1, InvAlways, PTL

(* A saved login gives way only to its own successor: the lock is held from  *)
(* the read of the record to the rename, and a login checks again under it   *)
(* (NativeSession::prepare_refresh, save of login.rs).                       *)
THEOREM OnlySuccessorReplaces == Spec => ReplacedBySuccessor
<1>1. Inv /\ [Next]_vars =>
        [record # None /\ record' # None /\ record' # record
           => used[record.cred] # None /\ used[record.cred].next = record'.cred]_vars
  <2> SUFFICES ASSUME Inv, [Next]_vars, record # None, record' # None, record' # record
               PROVE  used[record.cred] # None /\ used[record.cred].next = record'.cred
    OBVIOUS
  <2>1. PICK a \in Actors : write(a) /\ record' = new[a]
    BY DEF Next, Renew, Login, Logout, Save, prepare_refresh, Resume, Abandon, Send, Timeout,
           RecoveryWindow, Cancel, forget_access, Rotate, Refuse, TurnAway, prepare, write, retire, Inspect,
           exchange, prove, save, Interrupt, Ask, LockToRemove, revoke_saved, remove, Die, vars, store,
           Actors, Commands
  <2>2. pc[a] = "write"
    BY <2>1 DEF write
  <2>3. a \in Sessions
    BY <2>2, SavingHasNew DEF Inv, SaveInv
  <2> QED BY <2>1, <2>2, <2>3, SuccessorDiffers
<1> QED BY <1>1, InvAlways, PTL DEF Spec, ReplacedBySuccessor

-----------------------------------------------------------------------------
(***************************************************************************)
(* ReusedOnlyAfterTrouble.  A credential that was sent or consumed while   *)
(* its login is live, and nobody had trouble with it, was sent under one   *)
(* key only (OneKeyInv); and while it is still the saved one, the session  *)
(* that sent it has not let go of it: it keeps the refresh with that key,  *)
(* or is saving the successor (RenewInv).  A successor or a new login that *)
(* is not saved yet was never sent (FreshInv, NextInv).                    *)
(***************************************************************************)
Sound(c) == c \notin excused /\ family[c] \notin ended

Sent(c) == used[c] # None \/ \E r \in net : r.cred = c

Agrees(c, k) ==
  /\ used[c] # None => used[c].key = k
  /\ \A r \in net : r.cred = c => r.key = k

OneKeyInv == \A c \in Credentials : Sound(c) => \E k \in Nat : Agrees(c, k)

Held(c) ==
  \E s \in Sessions :
    \/ pc[s] \in {"set", "write"}
    \/ pending[s] # None /\ pending[s].unknown /\ Agrees(c, pending[s].key)

RenewInv == record # None /\ Sound(record.cred) /\ Sent(record.cred) => Held(record.cred)

NextInv == record # None /\ used[record.cred] # None => ~Sent(used[record.cred].next)

Unsaved == {"prove", "save", "set", "write"}

FreshInv ==
  /\ \A a \in Actors : pc[a] \in Unsaved => ~Sent(new[a].cred)
  /\ \A l \in Logins : pc[l] \in Unsaved =>
       /\ record # None => record.cred # new[l].cred
       /\ \A c \in Credentials : used[c] # None => used[c].next # new[l].cred
       /\ \A a \in Actors \ {l} : new[a] # None => new[a].cred # new[l].cred

ReuseInv == ReusedOnlyAfterTrouble /\ OneKeyInv /\ RenewInv /\ NextInv /\ FreshInv

-----------------------------------------------------------------------------

\* A step that sends and consumes nothing.
LEMMA QuietFacts ==
  ASSUME used' = used, net' \subseteq net
  PROVE  \A c \in Credentials : /\ Sent(c)' => Sent(c)
                                /\ \A k \in Nat : Agrees(c, k) => Agrees(c, k)'
BY DEF Sent, Agrees

LEMMA SentIssued ==
  ASSUME Inv, NEW c \in Credentials, Sent(c)
  PROVE  c <= issued
<1>1. CASE used[c] # None
  BY <1>1, NativeLoginAssumption DEF Inv, CredInv, TypeOK, Uses, Credentials
<1>2. CASE \E r \in net : r.cred = c
  BY <1>2 DEF Inv, CredInv
<1> QED BY <1>1, <1>2 DEF Sent

LEMMA RotateFacts ==
  ASSUME Inv, NEW r \in net, Rotate(r)
  PROVE  /\ r.cred \in Credentials /\ r.key \in Nat /\ r.cred <= issued
         /\ \A c \in Credentials : c # r.cred => used'[c] = used[c]
         /\ \/ used' = used /\ issued' = issued /\ used[r.cred] # None
            \/ /\ used[r.cred] = None /\ issued' = issued + 1 /\ issued + 1 \in Credentials
               /\ used'[r.cred].next = issued + 1
         /\ used'[r.cred].key = r.key
         /\ net' \subseteq net
         /\ \A c \in Credentials : /\ Sent(c)' => Sent(c)
                                   /\ \A k \in Nat : Agrees(c, k) => Agrees(c, k)'
<1> USE NativeLoginAssumption
<1>0. TypeOK /\ CredInv
  BY DEF Inv
<1>1. r.cred \in Credentials /\ r.key \in Nat /\ r.cred <= issued
  BY <1>0 DEF TypeOK, Requests, CredInv, Keys
<1>2. net' \subseteq net
  BY DEF Rotate
<1>3. CASE used[r.cred] # None
  <2>1. used' = used /\ issued' = issued /\ used'[r.cred].key = r.key
    BY <1>3 DEF Rotate
  <2> QED BY <1>1, <1>2, <1>3, <2>1, QuietFacts
<1>4. CASE used[r.cred] = None
  <2>1. /\ issued' = issued + 1
        /\ used' = [used EXCEPT ![r.cred] = [key |-> r.key, next |-> issued + 1]]
        /\ issued < MaxIssued
    BY <1>4 DEF Rotate
  <2>2. issued + 1 \in Credentials
    BY <1>0, <2>1 DEF TypeOK, Credentials
  <2>3. /\ \A c \in Credentials : c # r.cred => used'[c] = used[c]
        /\ used'[r.cred].next = issued + 1 /\ used'[r.cred].key = r.key
    BY <1>0, <1>1, <2>1 DEF TypeOK
  <2>4. \A c \in Credentials : Sent(c)' => Sent(c)
    BY <1>2, <2>3 DEF Sent
  <2>5. \A c \in Credentials : \A k \in Nat : Agrees(c, k) => Agrees(c, k)'
    BY <1>2, <2>3 DEF Agrees
  <2> QED BY <1>1, <1>2, <1>4, <2>1, <2>2, <2>3, <2>4, <2>5
<1> QED BY <1>3, <1>4

\* The next credential to be issued was never sent.
LEMMA UnissuedUnsent == ASSUME Inv, issued + 1 \in Credentials PROVE ~Sent(issued + 1)
BY SentIssued DEF Inv, TypeOK

\* Ended logins and excused credentials stay so.
LEMMA SoundFacts ==
  ASSUME Inv, [Next]_vars, NEW c \in Credentials, c <= issued, Sound(c)'
  PROVE  Sound(c)
<1> USE NativeLoginAssumption
<1>0. TypeOK
  BY DEF Inv
<1>1. family'[c] = family[c]
  <2>1. family' = family \/ \E f : family' = [family EXCEPT ![issued + 1] = f]
    BY DEF Next, Renew, Login, Logout, Save, prepare_refresh, Resume, Abandon, Send, Timeout,
           RecoveryWindow, Cancel, forget_access, Rotate, Refuse, TurnAway, prepare, write, retire, Inspect,
           exchange, prove, save, Interrupt, Ask, LockToRemove, revoke_saved, remove, Die, vars, plane
  <2>2. issued + 1 # c
    BY <1>0 DEF TypeOK, Credentials
  <2> QED BY <1>0, <2>1, <2>2 DEF TypeOK
<1>2. ended \subseteq ended'
  BY DEF Next, Renew, Login, Logout, Save, prepare_refresh, Resume, Abandon, Send, Timeout,
         RecoveryWindow, Cancel, forget_access, Rotate, Refuse, TurnAway, prepare, write, retire, Inspect,
         exchange, prove, save, Interrupt, Ask, LockToRemove, revoke_saved, remove, Die, vars, plane
<1>3. excused \subseteq excused'
  BY ZenonT(60) DEF Next, Renew, Login, Logout, Save, prepare_refresh, Resume, Abandon, Send, Timeout,
         RecoveryWindow, Cancel, forget_access, Rotate, Lost, Granted, Unusable, Refuse, TurnAway, prepare,
         write, retire, SaveFailed, Inspect, exchange, prove, save, Interrupt, Ask, LockToRemove,
         revoke_saved, remove, Die, vars
<1> QED BY <1>1, <1>2, <1>3 DEF Sound

\* A request that leaves carries the saved credential and the key of the refresh.
LEMMA SendFacts ==
  ASSUME Inv, NEW s \in Sessions, Send(s)
  PROVE  /\ pending[s] \in Refreshes /\ pending[s] # None
         /\ record \in Saved /\ pending[s].cred = record.cred
         /\ record.cred \in Credentials /\ pending[s].key \in Nat
         /\ lock = s
         /\ UNCHANGED <<record, new, used, issued, excused, ended, family>>
         /\ \/ net' = net
            \/ net' = net \cup {[cred |-> record.cred, key |-> pending[s].key]}
         /\ \A c \in Credentials : c # record.cred =>
              (Sent(c)' => Sent(c)) /\ \A k \in Nat : Agrees(c, k) => Agrees(c, k)'
<1> USE NativeLoginAssumption
<1>1. pending[s] \in Refreshes /\ pending[s] # None /\ lock = s
  BY DEF Send, Inv, LockInv, TypeOK
<1>2. record \in Saved /\ pending[s].cred = record.cred
  BY <1>1 DEF Inv, SaveInv, TypeOK
<1>3. record.cred \in Credentials /\ pending[s].key \in Nat
  BY <1>1, <1>2 DEF Saved, Refreshes, Keys
<1>4. UNCHANGED <<record, new, used, issued, excused, ended, family>>
  BY DEF Send, work, plane
<1>5. net' = net \/ net' = net \cup {[cred |-> record.cred, key |-> pending[s].key]}
  BY <1>2 DEF Send
<1>6. \A c \in Credentials : c # record.cred =>
        (Sent(c)' => Sent(c)) /\ \A k \in Nat : Agrees(c, k) => Agrees(c, k)'
  BY <1>4, <1>5 DEF Sent, Agrees
<1> QED BY <1>1, <1>2, <1>3, <1>4, <1>5, <1>6

-----------------------------------------------------------------------------

LEMMA UnsavedHasNew ==
  ASSUME Inv, NEW a \in Actors, pc[a] \in Unsaved
  PROVE  new[a] \in Saved /\ new[a] # None /\ new[a].cred \in Credentials
<1>1. new[a] # None
  BY DEF Unsaved, Inv, SaveInv, LabelInv, Actors, Commands
<1>2. new[a] \in Saved
  BY <1>1 DEF Inv, TypeOK
<1> QED BY <1>1, <1>2 DEF Saved

LEMMA FreshKept ==
  ASSUME Inv, Inv', FreshInv, used' = used, net' \subseteq net,
         \A a \in Actors : pc'[a] \in Unsaved => pc[a] \in Unsaved,
         \A a \in Actors : new'[a] # None => new[a] # None /\ new'[a].cred = new[a].cred,
         \/ record' \in {record, None}
         \/ \E a \in Actors : pc'[a] \notin Unsaved /\ new[a] # None /\ record' = new[a]
  PROVE  FreshInv'
<1> USE DEF Unsaved
<1>1. \A a \in Actors : pc'[a] \in Unsaved =>
        pc[a] \in Unsaved /\ new'[a].cred = new[a].cred /\ new[a].cred \in Credentials
  <2>1. ASSUME NEW a \in Actors, pc'[a] \in Unsaved PROVE new'[a] # None
    BY <2>1 DEF Inv, SaveInv, LabelInv, Actors, Commands
  <2> QED BY <2>1, UnsavedHasNew
<1>2. ASSUME NEW a \in Actors, pc'[a] \in Unsaved PROVE ~Sent(new[a].cred)'
  <2>1. ~Sent(new[a].cred) /\ new'[a].cred = new[a].cred
    BY <1>1, <1>2 DEF FreshInv
  <2> QED BY <2>1 DEF Sent
<1>3. ASSUME NEW l \in Logins, pc'[l] \in Unsaved
      PROVE  /\ record' # None => record'.cred # new'[l].cred
             /\ \A c \in Credentials : used'[c] # None => used'[c].next # new'[l].cred
             /\ \A a \in Actors \ {l} : new'[a] # None => new'[a].cred # new'[l].cred
  <2>0. l \in Actors
    BY DEF Actors, Commands
  <2>1. pc[l] \in Unsaved /\ new'[l].cred = new[l].cred
    BY <1>1, <1>3, <2>0
  <2>2. /\ record # None => record.cred # new[l].cred
        /\ \A c \in Credentials : used[c] # None => used[c].next # new[l].cred
        /\ \A a \in Actors \ {l} : new[a] # None => new[a].cred # new[l].cred
    BY <2>1 DEF FreshInv
  <2>3. record' # None => record'.cred # new[l].cred
    BY <1>3, <2>0, <2>2
  <2> QED BY <2>1, <2>2, <2>3
<1> QED BY <1>2, <1>3 DEF FreshInv

LEMMA FreshStep == Inv /\ Inv' /\ FreshInv /\ NextInv /\ [Next]_vars => FreshInv'
<1> SUFFICES ASSUME Inv, Inv', FreshInv, NextInv, [Next]_vars PROVE FreshInv'
  OBVIOUS
<1> USE NativeLoginAssumption DEF Unsaved
<1>0. TypeOK /\ LockInv /\ CredInv /\ LabelInv /\ issued \in Nat
  BY DEF Inv, TypeOK
<1>1. ASSUME UNCHANGED <<record, new, used>>, net' \subseteq net,
             \A a \in Actors : pc'[a] \in Unsaved => pc[a] \in Unsaved
      PROVE FreshInv'
  BY <1>1, FreshKept
<1>2. ASSUME NEW s \in Sessions,
             \/ prepare_refresh(s) \/ Resume(s) \/ Abandon(s) \/ RecoveryWindow(s)
             \/ Timeout(s) \/ Cancel(s) \/ forget_access(s)
      PROVE FreshInv'
  <2>1. UNCHANGED <<record, new, used, net>>
    BY <1>2 DEF prepare_refresh, Resume, Abandon, RecoveryWindow, Timeout, Cancel, forget_access,
                store, work, plane
  <2>2. \A a \in Actors : pc'[a] \in Unsaved => pc[a] \in Unsaved
    BY <1>0, <1>2 DEF prepare_refresh, Resume, Abandon, RecoveryWindow, Timeout, Retry, GiveUp, Cancel,
                      forget_access, Go, TypeOK
  <2> QED BY <1>1, <2>1, <2>2
<1>3. ASSUME NEW s \in Sessions, Send(s) PROVE FreshInv'
  <2>1. UNCHANGED <<record, new, used>> /\ lock = s /\ record # None /\ pc[s] = "ready"
    BY <1>3, SendFacts DEF Send
  <2>2. \A a \in Actors : pc'[a] \in Unsaved => a \in Logins /\ pc[a] \in Unsaved
    <3>1. \A a \in Actors : pc'[a] \in Unsaved => pc[a] \in Unsaved
      BY <1>0, <1>3 DEF Send, Retry, Go, TypeOK
    <3>2. \A a \in Actors : pc[a] \in {"set", "write"} => a = s
      BY <1>0, <2>1 DEF LockInv
    <3> QED BY <1>0, <2>1, <3>1, <3>2 DEF LabelInv, Actors, Commands
  <2>3. ASSUME NEW a \in Actors, pc'[a] \in Unsaved PROVE ~Sent(new[a].cred)'
    <3>1. new[a].cred \in Credentials /\ ~Sent(new[a].cred) /\ new[a].cred # record.cred
      BY <2>1, <2>2, <2>3, UnsavedHasNew DEF FreshInv
    <3>2. ~Sent(new[a].cred) => ~(used'[new[a].cred] # None \/ \E r \in net' : r.cred = new[a].cred)
      BY <1>3, <3>1, SendFacts DEF Sent
    <3> QED BY <2>1, <3>1, <3>2 DEF Sent
  <2>4. ASSUME NEW l \in Logins, pc'[l] \in Unsaved PROVE pc[l] \in Unsaved
    BY <2>2, <2>4 DEF Actors, Commands
  <2>5. \A a \in Actors : pc'[a] \in Unsaved => ~Sent(new[a].cred)'
    BY <2>3
  <2> QED BY <2>1, <2>4, <2>5 DEF FreshInv
<1>4. ASSUME NEW r \in net, Rotate(r) PROVE FreshInv'
  <2>0. UNCHANGED record /\ used'[r.cred] # None
    <3>1. CASE used[r.cred] = None
      <4>1. used'[r.cred] = [key |-> r.key, next |-> issued + 1]
        BY <1>0, <1>4, <3>1, RotateFacts DEF Rotate, TypeOK
      <4>2. r.key \in Keys /\ issued + 1 \in Credentials
        BY <1>0, <1>4, <3>1, RotateFacts DEF TypeOK, Requests
      <4> QED BY <1>4, <4>1, <4>2 DEF Uses, Rotate
    <3> QED BY <1>4, <3>1 DEF Rotate
  <2>1. ASSUME NEW l \in Logins, pc[l] \in Unsaved, NEW c \in Credentials, used'[c] # None
        PROVE used'[c].next # new[l].cred
    <3>1. l \in Actors /\ new[l].cred <= issued /\ new[l].cred \in Credentials
      BY <1>0, <2>1, UnsavedHasNew DEF CredInv, Actors, Commands
    <3>2. CASE used'[c] = used[c]
      BY <2>1, <3>2 DEF FreshInv
    <3>3. CASE used'[c].next = issued + 1
      BY <1>0, <3>1, <3>3 DEF Credentials
    <3> QED BY <1>4, <3>2, <3>3, RotateFacts
  <2>2. CASE Lost \/ \E s \in Sessions : Unusable(s)
    <3>1. UNCHANGED new /\ \A a \in Actors : pc'[a] \in Unsaved => pc[a] \in Unsaved
      BY <1>0, <2>2 DEF Lost, Unusable, GiveUp, Go, TypeOK
    <3>2. ASSUME NEW a \in Actors, pc'[a] \in Unsaved PROVE ~Sent(new[a].cred)'
      <4>1. new[a].cred \in Credentials /\ ~Sent(new[a].cred)
        BY <3>1, <3>2, UnsavedHasNew DEF FreshInv
      <4>2. ~(used'[new[a].cred] # None \/ \E q \in net' : q.cred = new[a].cred)
        BY <1>4, <4>1, RotateFacts DEF Sent
      <4> QED BY <3>1, <4>2 DEF Sent
    <3>3. \A l \in Logins : pc'[l] \in Unsaved => pc[l] \in Unsaved
      BY <3>1 DEF Actors, Commands
    <3>4. \A a \in Actors : pc'[a] \in Unsaved => ~Sent(new[a].cred)'
      BY <3>2
    <3> QED BY <2>0, <2>1, <3>1, <3>3, <3>4 DEF FreshInv
  <2>3. ASSUME NEW s \in Sessions, Waiting(s, r), Granted(s, used'[r.cred].next) PROVE FreshInv'
    <3>1. /\ s \in Actors /\ s \notin Logins
          /\ \A a \in Actors : a # s => pc'[a] = pc[a] /\ new'[a] = new[a]
          /\ new'[s].cred = used'[r.cred].next
      BY <1>0, <2>3 DEF Granted, Go, TypeOK, Actors, Commands
    <3>2. record # None /\ r.cred = record.cred
      BY <2>3 DEF Waiting, Inv, LockInv, KeyInv, SaveInv
    <3>3. used'[r.cred].next \in Credentials /\ ~Sent(used'[r.cred].next)
      <4>1. CASE used' = used /\ used[r.cred] # None
        BY <1>0, <1>4, <3>2, <4>1, RotateFacts DEF NextInv, TypeOK, Uses
      <4>2. CASE used'[r.cred].next = issued + 1 /\ issued + 1 \in Credentials
        BY <4>2, UnissuedUnsent
      <4> QED BY <1>4, <4>1, <4>2, RotateFacts
    <3>4. ASSUME NEW a \in Actors, pc'[a] \in Unsaved PROVE ~Sent(new[a].cred)'
      <4>1. new'[a].cred \in Credentials /\ ~Sent(new'[a].cred)
        BY <3>1, <3>3, <3>4, UnsavedHasNew DEF FreshInv
      <4>2. ~(used'[new'[a].cred] # None \/ \E q \in net' : q.cred = new'[a].cred)
        BY <1>4, <4>1, RotateFacts DEF Sent
      <4> QED BY <4>2 DEF Sent
    <3>5. ASSUME NEW l \in Logins, pc'[l] \in Unsaved
          PROVE  /\ record' # None => record'.cred # new'[l].cred
                 /\ \A c \in Credentials : used'[c] # None => used'[c].next # new'[l].cred
                 /\ \A a \in Actors \ {l} : new'[a] # None => new'[a].cred # new'[l].cred
      <4>1. l \in Actors /\ l # s /\ pc[l] \in Unsaved /\ new'[l] = new[l]
        BY <3>1, <3>5 DEF Actors, Commands
      <4>2. r.cred \in Credentials /\ used'[r.cred].next # new[l].cred
        BY <1>4, <2>0, <2>1, <4>1, RotateFacts
      <4> QED BY <2>0, <2>1, <3>1, <4>1, <4>2 DEF FreshInv
    <3> QED BY <3>4, <3>5 DEF FreshInv
  <2> QED BY <1>4, <2>2, <2>3 DEF Rotate
<1>5. ASSUME NEW r \in net, Refuse(r) \/ TurnAway(r) PROVE FreshInv'
  <2>1. UNCHANGED <<record, new, used>> /\ net' \subseteq net
    BY <1>5 DEF Refuse, Lost, Unusable, TurnAway, plane
  <2>2. \A a \in Actors : pc'[a] \in Unsaved => pc[a] \in Unsaved
    BY <1>0, <1>5 DEF Refuse, Lost, Unusable, TurnAway, GiveUp, Go, TypeOK
  <2> QED BY <1>1, <2>1, <2>2
<1>6. ASSUME NEW a \in Actors, Save(a) PROVE FreshInv'
  <2>1. UNCHANGED <<used, net>>
    BY <1>6 DEF Save, prepare, write, retire, plane
  <2>2. \A b \in Actors : pc'[b] \in Unsaved => pc[b] \in Unsaved
    BY <1>0, <1>6 DEF Save, prepare, write, retire, SaveFailed, Go, TypeOK
  <2>3. record' = record \/ (new[a] # None /\ record' = new[a] /\ pc'[a] \notin Unsaved)
    BY <1>0, <1>6, SavingHasNew DEF Save, prepare, write, retire, Go, TypeOK
  <2>4. ASSUME NEW b \in Actors, new'[b] # None PROVE new[b] # None /\ new'[b].cred = new[b].cred
    <3>1. CASE new' = [new EXCEPT ![a].place = "native"] /\ pc[a] = "set"
      BY <1>0, <2>4, <3>1, SavingHasNew DEF TypeOK, Saved
    <3>2. CASE UNCHANGED new \/ new' = [new EXCEPT ![a] = None]
      BY <1>0, <2>4, <3>2 DEF TypeOK
    <3> QED BY <1>6, <3>1, <3>2 DEF Save, prepare, write, retire, SaveFailed, work
  <2> QED BY <2>1, <2>2, <2>3, <2>4, FreshKept
<1>7. ASSUME NEW l \in Logins, exchange(l) PROVE FreshInv'
  <2>0. UNCHANGED <<record, used, net>> /\ l \in Actors
    BY <1>7 DEF exchange, store, Actors, Commands
  <2>1. issued + 1 \in Credentials /\ ~Sent(issued + 1)
    BY <1>0, <1>7, UnissuedUnsent DEF exchange, TypeOK, Credentials
  <2>2. /\ \A a \in Actors : a # l => pc'[a] = pc[a] /\ new'[a] = new[a]
        /\ pc'[l] \in Unsaved => new'[l].cred = issued + 1
        /\ new'[l] = new[l] \/ new'[l].cred = issued + 1
    BY <1>0, <1>7, <2>0 DEF exchange, Go, TypeOK
  <2>3. ASSUME NEW a \in Actors, pc'[a] \in Unsaved PROVE ~Sent(new[a].cred)'
    <3>1. ~Sent(new'[a].cred)
      BY <2>1, <2>2, <2>3 DEF FreshInv
    <3> QED BY <2>0, <3>1 DEF Sent
  <2>4. ASSUME NEW k \in Logins, pc'[k] \in Unsaved
        PROVE  /\ record' # None => record'.cred # new'[k].cred
               /\ \A c \in Credentials : used'[c] # None => used'[c].next # new'[k].cred
               /\ \A a \in Actors \ {k} : new'[a] # None => new'[a].cred # new'[k].cred
    <3>1. CASE k = l
      <4>1. /\ record # None => record.cred # issued + 1
            /\ \A c \in Credentials : used[c] # None => used[c].next # issued + 1
            /\ \A a \in Actors : new[a] # None => new[a].cred # issued + 1
        BY <1>0 DEF CredInv
      <4> QED BY <2>0, <2>2, <2>4, <3>1, <4>1
    <3>2. CASE k # l
      <4>1. k \in Actors /\ pc[k] \in Unsaved /\ new'[k] = new[k]
        BY <2>2, <2>4, <3>2 DEF Actors, Commands
      <4>2. new[k].cred # issued + 1
        BY <1>0, <4>1, UnsavedHasNew DEF CredInv
      <4> QED BY <2>0, <2>2, <4>1, <4>2 DEF FreshInv
    <3> QED BY <3>1, <3>2
  <2> QED BY <2>3, <2>4 DEF FreshInv
<1>8. ASSUME NEW l \in Logins, Inspect(l) \/ prove(l) \/ Interrupt(l) \/ save(l) PROVE FreshInv'
  <2>1. UNCHANGED <<record, used, net>>
    BY <1>8 DEF Inspect, prove, Interrupt, save, store, plane
  <2>2. UNCHANGED new \/ new' = [new EXCEPT ![l] = None]
    BY <1>8 DEF Inspect, prove, Interrupt, save, work
  <2>3. \A a \in Actors : new'[a] # None => new[a] # None /\ new'[a].cred = new[a].cred
    BY <1>0, <2>2 DEF TypeOK
  <2>4. \A a \in Actors : pc'[a] \in Unsaved => pc[a] \in Unsaved
    BY <1>0, <1>8 DEF Inspect, prove, Interrupt, save, Go, TypeOK
  <2> QED BY <2>1, <2>3, <2>4, FreshKept
<1>9. ASSUME NEW o \in Logouts, Ask(o) \/ LockToRemove(o) \/ revoke_saved(o) \/ remove(o) PROVE FreshInv'
  <2>1. UNCHANGED <<new, used, net>> /\ record' \in {record, None}
    BY <1>9 DEF Ask, LockToRemove, revoke_saved, remove, store, work, plane
  <2>2. \A a \in Actors : pc'[a] \in Unsaved => pc[a] \in Unsaved
    BY <1>0, <1>9 DEF Ask, LockToRemove, revoke_saved, remove, Go, TypeOK
  <2> QED BY <2>1, <2>2, FreshKept
<1>10. ASSUME NEW a \in Actors, Die(a) PROVE FreshInv'
  <2>1. UNCHANGED <<record, used, net>>
    BY <1>10 DEF Die, plane
  <2>2. \A b \in Actors : new'[b] # None => new[b] # None /\ new'[b].cred = new[b].cred
    BY <1>0, <1>10 DEF Die, TypeOK
  <2>3. \A b \in Actors : pc'[b] \in Unsaved => pc[b] \in Unsaved
    BY <1>0, <1>10 DEF Die, Go, TypeOK
  <2> QED BY <2>1, <2>2, <2>3, FreshKept
<1>11. CASE UNCHANGED vars
  BY <1>1, <1>11 DEF vars, store, work, plane
<1> QED
  BY <1>2, <1>3, <1>4, <1>5, <1>6, <1>7, <1>8, <1>9, <1>10, <1>11
     DEF Next, Renew, Login, Logout, Actors, Commands

-----------------------------------------------------------------------------

\* Only a request that leaves and one that is answered change what was sent and consumed.
LEMMA Quiet ==
  ASSUME [Next]_vars, ~(\E s \in Sessions : Send(s)), ~(\E r \in net : Rotate(r))
  PROVE  used' = used /\ net' \subseteq net
BY DEF Next, Renew, Login, Logout, Save, prepare_refresh, Resume, Abandon, Timeout, RecoveryWindow,
         Cancel, forget_access, Refuse, TurnAway, prepare, write, retire, Inspect, exchange, prove, save,
         Interrupt, Ask, LockToRemove, revoke_saved, remove, Die, vars, plane

\* What is saved changes by a commit or a removal.
LEMMA RecordChanges ==
  ASSUME [Next]_vars, record' # record
  PROVE  record' = None \/ \E a \in Actors : write(a) /\ record' = new[a]
BY DEF Next, Renew, Login, Logout, Save, prepare_refresh, Resume, Abandon, Send, Timeout,
       RecoveryWindow, Cancel, forget_access, Rotate, Refuse, TurnAway, prepare, write, retire, Inspect,
       exchange, prove, save, Interrupt, Ask, LockToRemove, revoke_saved, remove, Die, vars, store,
       Actors, Commands

LEMMA CommitFacts ==
  ASSUME Inv, FreshInv, NEW a \in Actors, write(a), record' = new[a]
  PROVE  /\ record' \in Saved /\ record'.cred \in Credentials
         /\ ~Sent(record'.cred) /\ used' = used /\ net' = net
<1>1. pc[a] = "write" /\ used' = used /\ net' = net
  BY DEF write, plane
<1>2. new[a] \in Saved /\ new[a].cred \in Credentials /\ ~Sent(new[a].cred)
  BY <1>1, UnsavedHasNew DEF FreshInv, Unsaved
<1> QED BY <1>1, <1>2

LEMMA NextStep == Inv /\ Inv' /\ FreshInv /\ NextInv /\ [Next]_vars => NextInv'
<1> SUFFICES ASSUME Inv, Inv', FreshInv, NextInv, [Next]_vars, record' # None, used'[record'.cred] # None
             PROVE ~Sent(used[record.cred].next)'
  BY DEF NextInv
<1> USE NativeLoginAssumption
<1>0. TypeOK /\ TypeOK' /\ CredInv /\ issued \in Nat
  BY DEF Inv, TypeOK
<1>1. ASSUME NEW a \in Actors, write(a), record' = new[a] PROVE FALSE
  BY <1>1, CommitFacts DEF Sent
<1>2. record' = record
  BY <1>1, RecordChanges
<1>3. record.cred \in Credentials /\ used'[record.cred].next \in Credentials
  BY <1>0, <1>2 DEF TypeOK, Saved, Uses
<1>4. ASSUME NEW n, n = used'[record.cred].next, ~(used'[n] # None \/ \E q \in net' : q.cred = n)
      PROVE ~Sent(used[record.cred].next)'
  BY <1>2, <1>4 DEF Sent
<1>5. ASSUME NEW s \in Sessions, Send(s) PROVE ~Sent(used[record.cred].next)'
  <2>1. used' = used /\ used[record.cred].next # record.cred
    BY <1>0, <1>2, <1>3, <1>5, SendFacts DEF CredInv, Credentials
  <2>2. ~Sent(used[record.cred].next)
    BY <1>2, <2>1 DEF NextInv
  <2>3. ~(used'[used[record.cred].next] # None \/ \E q \in net' : q.cred = used[record.cred].next)
    BY <1>3, <1>5, <2>1, <2>2, SendFacts DEF Sent
  <2> QED BY <1>4, <2>1, <2>3
<1>6. ASSUME NEW r \in net, Rotate(r) PROVE ~Sent(used[record.cred].next)'
  <2>1. ~Sent(used'[record.cred].next)
    <3>1. CASE used'[record.cred] = used[record.cred]
      BY <1>2, <3>1 DEF NextInv
    <3>2. CASE used'[record.cred].next = issued + 1 /\ issued + 1 \in Credentials
      BY <3>2, UnissuedUnsent
    <3> QED BY <1>3, <1>6, <3>1, <3>2, RotateFacts
  <2>2. ~(used'[used'[record.cred].next] # None \/ \E q \in net' : q.cred = used'[record.cred].next)
    BY <1>3, <1>6, <2>1, RotateFacts DEF Sent
  <2> QED BY <1>4, <2>2
<1>7. ASSUME used' = used, net' \subseteq net PROVE ~Sent(used[record.cred].next)'
  BY <1>2, <1>7 DEF NextInv, Sent
<1> QED BY <1>5, <1>6, <1>7, Quiet

LEMMA OneKeyStep == Inv /\ OneKeyInv /\ RenewInv /\ [Next]_vars => OneKeyInv'
<1> SUFFICES ASSUME Inv, OneKeyInv, RenewInv, [Next]_vars, NEW c \in Credentials, Sound(c)'
             PROVE \E k \in Nat : Agrees(c, k)'
  BY DEF OneKeyInv
<1> USE NativeLoginAssumption
<1>1. ASSUME \A k \in Nat : Agrees(c, k) => Agrees(c, k)', Sent(c) PROVE \E k \in Nat : Agrees(c, k)'
  <2>1. Sound(c)
    BY <1>1, SentIssued, SoundFacts
  <2>2. PICK k \in Nat : Agrees(c, k)
    BY <2>1 DEF OneKeyInv
  <2> QED BY <1>1, <2>2
<1>2. ASSUME ~(used'[c] # None \/ \E q \in net' : q.cred = c) PROVE \E k \in Nat : Agrees(c, k)'
  <2>1. Agrees(c, 0)'
    BY <1>2 DEF Agrees
  <2> QED BY <2>1
<1>3. ASSUME NEW s \in Sessions, Send(s) PROVE \E k \in Nat : Agrees(c, k)'
  <2>1. CASE c # record.cred
    <3>1. CASE Sent(c)
      BY <1>1, <1>3, <2>1, <3>1, SendFacts
    <3>2. CASE ~Sent(c)
      BY <1>2, <1>3, <2>1, <3>2, SendFacts DEF Sent
    <3> QED BY <3>1, <3>2
  <2>2. CASE c = record.cred
    <3>1. Agrees(c, pending[s].key)
      <4>1. CASE Sent(c)
        <5>1. Sound(c) /\ record # None
          BY <1>3, <4>1, SentIssued, SoundFacts, SendFacts
        <5>2. PICK q \in Sessions :
                \/ pc[q] \in {"set", "write"}
                \/ pending[q] # None /\ pending[q].unknown /\ Agrees(c, pending[q].key)
          BY <2>2, <4>1, <5>1 DEF RenewInv, Held
        <5>3. lock = s /\ pc[s] = "ready"
          BY <1>3, SendFacts DEF Send
        <5>4. lock = q
          BY <5>2 DEF Inv, LockInv, Actors
        <5> QED BY <5>2, <5>3, <5>4
      <4>2. CASE ~Sent(c)
        BY <4>2 DEF Sent, Agrees
      <4> QED BY <4>1, <4>2
    <3>2. \A q \in net' : q \in net \/ q.key = pending[s].key
      BY <1>3, SendFacts
    <3>3. Agrees(c, pending[s].key) => /\ used'[c] # None => used'[c].key = pending[s].key
                                       /\ \A q \in net' : q.cred = c => q.key = pending[s].key
      BY <1>3, <3>2, SendFacts DEF Agrees
    <3>4. \A k \in Nat : k = pending[s].key => Agrees(c, k)'
      BY <3>1, <3>3 DEF Agrees
    <3> QED BY <1>3, <3>4, SendFacts
  <2> QED BY <2>1, <2>2
<1>4. ASSUME NEW r \in net, Rotate(r) PROVE \E k \in Nat : Agrees(c, k)'
  <2>1. CASE Sent(c)
    BY <1>1, <1>4, <2>1, RotateFacts
  <2>2. CASE ~Sent(c)
    BY <1>2, <1>4, <2>2, RotateFacts DEF Sent
  <2> QED BY <2>1, <2>2
<1>5. ASSUME used' = used, net' \subseteq net PROVE \E k \in Nat : Agrees(c, k)'
  <2>1. CASE Sent(c)
    BY <1>1, <1>5, <2>1, QuietFacts
  <2>2. CASE ~Sent(c)
    BY <1>2, <1>5, <2>2 DEF Sent
  <2> QED BY <2>1, <2>2
<1> QED BY <1>3, <1>4, <1>5, Quiet

-----------------------------------------------------------------------------

\* Session s renews the saved credential.
Renews(s) == pc[s] \in {"set", "write"} \/ (pending[s] # None /\ pending[s].unknown)

\* It goes on with that.
KeepsOn(s) ==
  \/ pc'[s] \in {"set", "write"}
  \/ pending'[s] # None /\ pending'[s].unknown /\ pending[s] # None /\ pending'[s].key = pending[s].key

LEMMA RetryKeepsOn ==
  ASSUME Inv, NEW s \in Sessions, pending[s] # None, pending[s].unknown, NEW n \in Nat, Retry(s, n, TRUE)
  PROVE  KeepsOn(s)
<1>1. pending[s] \in Refreshes
  BY DEF Inv, TypeOK
<1>2. pending'[s] = [pending[s] EXCEPT !.unknown = TRUE]
  BY DEF Retry, Inv, TypeOK
<1>3. /\ [pending[s] EXCEPT !.unknown = TRUE] \in Refreshes
      /\ [pending[s] EXCEPT !.unknown = TRUE].key = pending[s].key
  BY <1>1, MarkFacts
<1>4. [pending[s] EXCEPT !.unknown = TRUE].unknown
  BY <1>1 DEF Refreshes
<1> QED BY <1>2, <1>3, <1>4, NativeLoginAssumption DEF KeepsOn

\* Whoever renews the saved credential goes on, or has an excuse, or the login ended.
LEMMA RenewsOn ==
  ASSUME Inv, [Next]_vars, record' = record, NEW h \in Sessions, Renews(h), ~KeepsOn(h)
  PROVE  ~Sound(record.cred)'
<1> USE NativeLoginAssumption
<1>0. TypeOK /\ LockInv /\ h \in Actors /\ lock = h
  BY DEF Inv, LockInv, Renews, Actors
<1>1. pc[h] \in {"set", "write"} => old[h].cred = record.cred
  BY DEF Inv, SaveInv
<1>2. pending[h] # None => pending[h].cred = record.cred /\ pc[h] \in {"idle", "ready", "sent"}
  BY DEF Inv, SaveInv, LockInv
<1>3. ASSUME record.cred \in excused' PROVE ~Sound(record.cred)'
  BY <1>3 DEF Sound
<1>4. ASSUME pc'[h] = pc[h] \/ pc[h] \notin {"set", "write"}, pending'[h] = pending[h] PROVE FALSE
  BY <1>4 DEF Renews, KeepsOn
<1>5. ASSUME NEW s \in Sessions,
             \/ prepare_refresh(s) \/ Resume(s) \/ Abandon(s) \/ RecoveryWindow(s)
             \/ Send(s) \/ Timeout(s) \/ Cancel(s) \/ forget_access(s)
      PROVE ~Sound(record.cred)'
  <2>0. s \in Actors
    BY DEF Actors
  <2>1. CASE s # h
    <3>1. pc'[h] = pc[h] /\ pending'[h] = pending[h]
      BY <1>0, <1>5, <2>0, <2>1 DEF prepare_refresh, Resume, Abandon, RecoveryWindow, Send, Timeout, Retry,
            GiveUp, Cancel, forget_access, Go, TypeOK
    <3> QED BY <1>4, <3>1
  <2>2. CASE s = h /\ prepare_refresh(h)
    BY <1>0, <2>2 DEF prepare_refresh
  <2>3. CASE s = h /\ (Resume(h) \/ Cancel(h) \/ forget_access(h))
    <3>1. pending' = pending /\ (pc'[h] = pc[h] \/ pc[h] \notin {"set", "write"})
      BY <1>0, <2>3 DEF Resume, Callable, Cancel, forget_access, Go, TypeOK
    <3> QED BY <1>4, <3>1
  <2>4. CASE s = h /\ Abandon(h)
    BY <1>2, <1>3, <2>4 DEF Abandon
  <2>5. CASE s = h /\ RecoveryWindow(h)
    <3>1. pending[h] \in Refreshes /\ pending[h] # None /\ pc[h] \notin {"set", "write"}
      BY <1>0, <1>2, <2>5 DEF RecoveryWindow, TypeOK
    <3>2. pending'[h] = [pending[h] EXCEPT !.late = TRUE]
      BY <1>0, <2>5 DEF RecoveryWindow, TypeOK
    <3>3. /\ [pending[h] EXCEPT !.late = TRUE] \in Refreshes
          /\ [pending[h] EXCEPT !.late = TRUE].key = pending[h].key
      BY <3>1, MarkFacts
    <3>4. [pending[h] EXCEPT !.late = TRUE].unknown = pending[h].unknown
      BY <3>1 DEF Refreshes
    <3> QED BY <3>1, <3>2, <3>3, <3>4 DEF Renews, KeepsOn
  <2>6. CASE s = h /\ Timeout(h)
    <3>1. pending[h] # None /\ pending[h].unknown /\ tries[h] \in Nat
      BY <1>0, <2>6 DEF Timeout, Renews, TypeOK
    <3> QED BY <2>6, <3>1, RetryKeepsOn DEF Timeout
  <2>7. CASE s = h /\ Send(h)
    <3>1. pending[h] # None /\ pending[h].unknown /\ tries'[h] \in Nat /\ pending[h] \in Refreshes
      BY <1>0, <2>7 DEF Send, Renews, TypeOK
    <3>2. CASE Retry(h, tries'[h], pending[h].unknown)
      <4>1. pending[h].unknown = TRUE
        BY <3>1 DEF Refreshes
      <4>2. Retry(h, tries'[h], TRUE)
        BY <3>2, <4>1
      <4> QED BY <3>1, <4>2, RetryKeepsOn
    <3>3. CASE pending' = [pending EXCEPT ![h].unknown = TRUE]
      <4>1. pending'[h] = [pending[h] EXCEPT !.unknown = TRUE]
        BY <1>0, <3>3 DEF TypeOK
      <4>2. /\ [pending[h] EXCEPT !.unknown = TRUE] \in Refreshes
            /\ [pending[h] EXCEPT !.unknown = TRUE].key = pending[h].key
        BY <3>1, MarkFacts
      <4>3. [pending[h] EXCEPT !.unknown = TRUE].unknown
        BY <3>1 DEF Refreshes
      <4> QED BY <3>1, <4>1, <4>2, <4>3 DEF KeepsOn
    <3> QED BY <2>7, <3>2, <3>3 DEF Send
  <2> QED BY <1>5, <2>1, <2>2, <2>3, <2>4, <2>5, <2>6, <2>7
<1>6. ASSUME NEW r \in net, Rotate(r) PROVE ~Sound(record.cred)'
  <2>1. CASE Lost
    BY <1>4, <2>1 DEF Lost
  <2>2. ASSUME NEW s \in Sessions, Waiting(s, r), Granted(s, used'[r.cred].next) \/ Unusable(s)
        PROVE ~Sound(record.cred)'
    <3>1. s = h
      BY <1>0, <2>2 DEF Waiting, LockInv
    <3>2. CASE Granted(h, used'[r.cred].next)
      BY <1>0, <3>2 DEF Granted, Go, TypeOK, KeepsOn
    <3>3. CASE Unusable(h)
      <4>1. pending[h] # None
        BY <1>0, <2>2, <3>1 DEF Waiting, LockInv
      <4> QED BY <1>2, <1>3, <3>3, <4>1 DEF Unusable
    <3> QED BY <2>2, <3>1, <3>2, <3>3
  <2> QED BY <1>6, <2>1, <2>2 DEF Rotate
<1>7. ASSUME NEW r \in net, Refuse(r) PROVE ~Sound(record.cred)'
  <2>1. CASE Lost
    BY <1>4, <2>1 DEF Lost
  <2>2. ASSUME NEW s \in Sessions, Waiting(s, r) PROVE ~Sound(record.cred)'
    <3>1. pending[s] # None /\ r.cred = pending[s].cred /\ r.cred = record.cred
      BY <2>2 DEF Waiting, Inv, LockInv, KeyInv, SaveInv
    <3>2. family' = family /\ family[r.cred] \in ended'
      BY <1>7 DEF Refuse
    <3> QED BY <3>1, <3>2 DEF Sound
  <2> QED BY <1>7, <2>1, <2>2 DEF Refuse
<1>8. ASSUME NEW r \in net, TurnAway(r) PROVE ~Sound(record.cred)'
  <2>1. CASE Lost
    BY <1>4, <2>1 DEF Lost
  <2>2. ASSUME NEW s \in Sessions, Waiting(s, r), Unusable(s) PROVE ~Sound(record.cred)'
    <3>1. s = h /\ pending[h] # None
      BY <1>0, <2>2 DEF Waiting, LockInv
    <3> QED BY <1>2, <1>3, <2>2, <3>1 DEF Unusable
  <2> QED BY <1>8, <2>1, <2>2 DEF TurnAway
<1>9. ASSUME NEW a \in Actors, Save(a) PROVE ~Sound(record.cred)'
  <2>1. a = h /\ pc[h] \in {"set", "write"}
    BY <1>0, <1>2, <1>9 DEF Save, prepare, write, retire, LockInv, Renews
  <2>2. CASE SaveFailed(h)
    <3>1. old[h] # None /\ old[h].cred = record.cred
      BY <2>1 DEF Inv, SaveInv
    <3> QED BY <1>3, <2>2, <3>1 DEF SaveFailed
  <2>3. CASE Go(h, "write")
    BY <1>0, <2>3 DEF Go, TypeOK, KeepsOn
  <2>4. CASE record' = new[h]
    BY <2>1, <2>4, SuccessorDiffers
  <2> QED BY <1>9, <2>1, <2>2, <2>3, <2>4 DEF Save, prepare, write, retire
<1>10. ASSUME NEW a \in Commands,
              \/ Inspect(a) \/ exchange(a) \/ prove(a) \/ Interrupt(a) \/ save(a)
              \/ Ask(a) \/ LockToRemove(a) \/ revoke_saved(a) \/ remove(a)
       PROVE ~Sound(record.cred)'
  <2>1. a # h
    OBVIOUS
  <2>2. pending' = pending
    BY <1>10 DEF Inspect, exchange, prove, Interrupt, save, Ask, LockToRemove, revoke_saved, remove, session
  <2>3. pc'[h] = pc[h]
    BY <1>0, <1>10, <2>1 DEF Inspect, exchange, prove, Interrupt, save, Ask, LockToRemove, revoke_saved,
                             remove, Go, TypeOK
  <2> QED BY <1>4, <2>2, <2>3
<1>11. ASSUME NEW a \in Actors, Die(a) PROVE ~Sound(record.cred)'
  <2>1. CASE a # h
    <3>1. pc'[h] = pc[h] /\ pending'[h] = pending[h]
      BY <1>0, <1>11, <2>1 DEF Die, Go, TypeOK
    <3> QED BY <1>4, <3>1
  <2>2. CASE a = h
    <3>1. record.cred \in Renewing(h)
      BY <1>1, <1>2 DEF Renewing, Renews
    <3> QED BY <1>3, <1>11, <2>2, <3>1 DEF Die
  <2> QED BY <2>1, <2>2
<1>12. CASE UNCHANGED vars
  BY <1>4, <1>12 DEF vars, session
<1> QED
  BY <1>5, <1>6, <1>7, <1>8, <1>9, <1>10, <1>11, <1>12 DEF Next, Renew, Login, Logout, Actors, Commands

LEMMA RenewStep == Inv /\ Inv' /\ RenewInv /\ FreshInv /\ [Next]_vars => RenewInv'
<1> SUFFICES ASSUME Inv, Inv', RenewInv, FreshInv, [Next]_vars,
                    record' # None, Sound(record.cred)', Sent(record.cred)'
             PROVE Held(record.cred)'
  BY DEF RenewInv
<1> USE NativeLoginAssumption
<1>0. TypeOK /\ TypeOK' /\ LockInv
  BY DEF Inv
<1>1. ASSUME NEW a \in Actors, write(a), record' = new[a] PROVE FALSE
  BY <1>1, CommitFacts DEF Sent
<1>2. record' = record
  BY <1>1, RecordChanges
<1>3. PICK c \in Credentials : c = record.cred
  BY <1>0, <1>2 DEF TypeOK, Saved
<1>4. Sound(c)' /\ Sent(c)'
  BY <1>2, <1>3 DEF Sound, Sent
<1>5. Held(c)' => Held(record.cred)'
  BY <1>2, <1>3 DEF Held, Agrees
<1>6. ASSUME Sent(c), \A k \in Nat : Agrees(c, k) => Agrees(c, k)' PROVE Held(c)'
  <2>1. Sound(c)
    BY <1>4, <1>6, SentIssued, SoundFacts
  <2>2. Held(c)
    BY <1>2, <1>3, <1>6, <2>1 DEF RenewInv
  <2>3. PICK h \in Sessions :
          \/ pc[h] \in {"set", "write"}
          \/ pending[h] # None /\ pending[h].unknown /\ Agrees(c, pending[h].key)
    BY <2>2 DEF Held
  <2>4. KeepsOn(h)
    BY <1>2, <2>3, RenewsOn DEF Renews
  <2>5. CASE pc'[h] \in {"set", "write"}
    BY <2>5 DEF Held
  <2>6. CASE /\ pc'[h] \notin {"set", "write"}
             /\ pending'[h] # None /\ pending'[h].unknown
             /\ pending[h] # None /\ pending'[h].key = pending[h].key
    <3>1. pc[h] \notin {"set", "write"} /\ pending[h].key \in Nat
      BY <1>0, <2>6 DEF LockInv, TypeOK, Refreshes, Keys
    <3>2. Agrees(c, pending[h].key)
      BY <2>3, <3>1
    <3>3. PICK k \in Nat : k = pending[h].key
      BY <3>1
    <3>4. Agrees(c, k)'
      BY <1>6, <3>2, <3>3
    <3>5. k = pending'[h].key
      BY <2>6, <3>3
    <3> QED BY <2>6, <3>4, <3>5 DEF Held, Agrees
  <2> QED BY <2>4, <2>5, <2>6 DEF KeepsOn
<1>7. ASSUME NEW s \in Sessions, Send(s) PROVE Held(c)'
  <2>0. /\ pending[s] \in Refreshes /\ pending[s] # None /\ pending[s].key \in Nat
        /\ lock = s /\ used' = used /\ pc[s] = "ready"
    BY <1>7, SendFacts DEF Send
  <2>1. CASE net' = net
    <3>1. Sent(c) /\ \A k \in Nat : Agrees(c, k) => Agrees(c, k)'
      BY <1>4, <2>0, <2>1 DEF Sent, Agrees
    <3> QED BY <1>6, <3>1
  <2>2. CASE net' # net
    <3>1. /\ pending' = [pending EXCEPT ![s].unknown = TRUE]
          /\ net' = net \cup {[cred |-> record.cred, key |-> pending[s].key]}
      BY <1>7, <2>2, SendFacts DEF Send
    <3>2. pending'[s] = [pending[s] EXCEPT !.unknown = TRUE]
      BY <1>0, <3>1 DEF TypeOK
    <3>3. /\ [pending[s] EXCEPT !.unknown = TRUE] \in Refreshes
          /\ [pending[s] EXCEPT !.unknown = TRUE].key = pending[s].key
      BY <2>0, MarkFacts
    <3>4. [pending[s] EXCEPT !.unknown = TRUE].unknown
      BY <2>0 DEF Refreshes
    <3>5. Agrees(c, pending[s].key)
      <4>1. CASE Sent(c)
        <5>1. Held(c)
          BY <1>2, <1>3, <1>4, <4>1, SentIssued, SoundFacts DEF RenewInv
        <5>2. PICK h \in Sessions :
                \/ pc[h] \in {"set", "write"}
                \/ pending[h] # None /\ pending[h].unknown /\ Agrees(c, pending[h].key)
          BY <5>1 DEF Held
        <5>3. lock = h
          BY <1>0, <5>2 DEF LockInv, Actors
        <5> QED BY <2>0, <5>2, <5>3
      <4>2. CASE ~Sent(c)
        BY <4>2 DEF Sent, Agrees
      <4> QED BY <4>1, <4>2
    <3>6. /\ used'[c] # None => used'[c].key = pending[s].key
          /\ \A r \in net' : r.cred = c => r.key = pending[s].key
      BY <2>0, <3>1, <3>5 DEF Agrees
    <3>7. /\ pending'[s] # None /\ pending'[s].unknown
          /\ used'[c] # None => used'[c].key = pending'[s].key
          /\ \A r \in net' : r.cred = c => r.key = pending'[s].key
      BY <3>2, <3>3, <3>4, <3>6
    <3> QED BY <3>7 DEF Held, Agrees
  <2> QED BY <2>1, <2>2
<1>8. ASSUME NEW r \in net, Rotate(r) PROVE Held(c)'
  BY <1>4, <1>6, <1>8, RotateFacts
<1>9. ASSUME used' = used, net' \subseteq net PROVE Held(c)'
  BY <1>4, <1>6, <1>9, QuietFacts
<1> QED BY <1>5, <1>7, <1>8, <1>9, Quiet

LEMMA ReusedStep == Inv /\ OneKeyInv /\ ReusedOnlyAfterTrouble /\ [Next]_vars => ReusedOnlyAfterTrouble'
<1> SUFFICES ASSUME Inv, OneKeyInv, ReusedOnlyAfterTrouble, [Next]_vars PROVE ReusedOnlyAfterTrouble'
  OBVIOUS
<1>1. excused \subseteq excused'
  BY ZenonT(60) DEF Next, Renew, Login, Logout, Save, prepare_refresh, Resume, Abandon, Send, Timeout,
         RecoveryWindow, Cancel, forget_access, Rotate, Lost, Granted, Unusable, Refuse, TurnAway, prepare,
         write, retire, SaveFailed, Inspect, exchange, prove, save, Interrupt, Ask, LockToRemove,
         revoke_saved, remove, Die, vars
<1>2. reused' = reused \/ \E r \in net : Refuse(r) /\ reused' # reused
  BY DEF Next, Renew, Login, Logout, Save, prepare_refresh, Resume, Abandon, Send, Timeout,
         RecoveryWindow, Cancel, forget_access, Rotate, Refuse, TurnAway, prepare, write, retire, Inspect,
         exchange, prove, save, Interrupt, Ask, LockToRemove, revoke_saved, remove, Die, vars
<1>3. ASSUME NEW r \in net, Refuse(r), reused' # reused PROVE reused' \subseteq excused'
  <2>1. /\ reused' = reused \cup {r.cred} /\ family[r.cred] \notin ended
        /\ used[r.cred] # None /\ used[r.cred].key # r.key
    BY <1>3 DEF Refuse
  <2>2. r.cred \in Credentials
    BY DEF Inv, TypeOK, Requests
  <2>3. r.cred \in excused
    BY <2>1, <2>2 DEF OneKeyInv, Sound, Agrees
  <2> QED BY <1>1, <2>1, <2>3 DEF ReusedOnlyAfterTrouble
<1> QED BY <1>1, <1>2, <1>3 DEF ReusedOnlyAfterTrouble

(* No live login ends because two keys were used for one credential, however *)
(* many processes share the store, and whatever is lost, late, retried or    *)
(* cancelled, unless whoever renewed that credential had trouble that is     *)
(* excused (NativeSession::access_token and prepare_refresh).                *)
THEOREM NoReuseWithoutTrouble == Spec => []ReusedOnlyAfterTrouble
<1>1. Init => ReuseInv
  BY DEF Init, ReuseInv, ReusedOnlyAfterTrouble, OneKeyInv, Agrees, RenewInv, NextInv, FreshInv, Unsaved,
         Actors, Commands
<1>2. Inv /\ Inv' /\ ReuseInv /\ [Next]_vars => ReuseInv'
  BY ReusedStep, OneKeyStep, RenewStep, NextStep, FreshStep DEF ReuseInv
<1>3. ReuseInv => ReusedOnlyAfterTrouble
  BY DEF ReuseInv
<1> QED BY <1>1, <1>2, <1>3, InvAlways, PTL DEF Spec
=============================================================================
