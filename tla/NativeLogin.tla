---------------------------- MODULE NativeLogin ----------------------------
(***************************************************************************)
(* The saved login of a machine: the connection store                      *)
(* (crates/firma-connection-store), the sessions that renew it             *)
(* (crates/firma-login) and the login and logout commands.                 *)
(*                                                                         *)
(* A renewable credential works once: the Control Plane consumes it and    *)
(* issues its successor.  A refresh carries a key, and the same credential *)
(* under the same key gets the same successor; under another key it is a   *)
(* reuse, and the family of the credential ends (external).  The sessions  *)
(* are in different processes and share only the store: one record file,   *)
(* replaced by rename, the credentials of the system's keyring, one per    *)
(* record, and an advisory lock that the system releases when its holder   *)
(* dies.                                                                   *)
(***************************************************************************)
EXTENDS Naturals

CONSTANTS
  Sessions,   \* processes with a NativeSession
  Logins, Logouts,
  None,
  Attempts,   \* REFRESH_ATTEMPTS
  Plaintext,  \* --allow-plaintext-refresh-token
  MaxIssued,  \* bound: credentials the Control Plane issues
  MaxKeys,    \* bound: refreshes that are prepared
  MaxFaults   \* bound: deaths, failing store operations, unusable answers

Commands == Logins \cup Logouts
Actors == Sessions \cup Commands
Credentials == 1..MaxIssued
Keys == 1..MaxKeys
Places == {"native", "file"}
Saved == [cred : Credentials, place : Places]
Requests == [cred : Credentials, key : Keys]
Refreshes == [cred : Credentials, key : Keys, place : Places, unknown : BOOLEAN, late : BOOLEAN]
Uses == [key : Keys, next : Credentials]

ASSUME NativeLoginAssumption ==
  /\ Attempts \in Nat \ {0}
  /\ {MaxIssued, MaxKeys, MaxFaults} \subseteq Nat
  /\ Plaintext \in BOOLEAN
  /\ Sessions \cap Commands = {} /\ Logins \cap Logouts = {}
  /\ None \notin Actors /\ None \notin Saved /\ None \notin Refreshes /\ None \notin Uses

VARIABLES
  record,    \* connection.json: the credential it names and where it is kept
  keyring,   \* credentials in the system's credential store
  lock,      \* holder of the exclusive lock on connection.lock
  pc,        \* pc[a]: what the actor is doing
  pending,   \* pending[s]: PendingRefresh, which keeps the lock
  tries,     \* tries[s]: attempts of the current call
  cached,    \* sessions with an access token that is still fresh
  required,  \* sessions that answer LoginRequired
  cut,       \* sessions whose caller went away during the save
  new,       \* new[a]: the credential the actor is saving, and where
  old,       \* old[a]: the record whose credential is to be retired
  issued,    \* external: credentials issued so far
  family,    \* external: family[c] names the login c descends from
  used,      \* external: used[c]: the key that consumed c and its successor
  ended,     \* external: families that were revoked
  net,       \* requests on their way
  keys,      \* keys generated so far
  faults,
  excused,   \* history: credentials some process could not finish renewing
  reused     \* history: credentials of a live login presented again under another key

store == <<record, keyring, lock>>
session == <<pending, tries, cached, required, cut>>
work == <<new, old>>
plane == <<issued, family, used, ended>>
vars == <<store, pc, session, work, plane, net, keys, faults, excused, reused>>

Labels == {"idle", "ready", "sent", "set", "write", "retire", "exchange", "prove",
           "save", "waiting", "revoke", "remove", "done"}

TypeOK ==
  /\ record \in Saved \cup {None}
  /\ keyring \subseteq Credentials
  /\ lock \in Actors \cup {None}
  /\ pc \in [Actors -> Labels]
  /\ pending \in [Sessions -> Refreshes \cup {None}]
  /\ tries \in [Sessions -> 0..Attempts]
  /\ cached \subseteq Sessions /\ required \subseteq Sessions /\ cut \subseteq Sessions
  /\ new \in [Actors -> Saved \cup {None}] /\ old \in [Actors -> Saved \cup {None}]
  /\ issued \in 0..MaxIssued
  /\ family \in [Credentials -> 0..MaxIssued]
  /\ used \in [Credentials -> Uses \cup {None}]
  /\ ended \subseteq 0..MaxIssued
  /\ net \subseteq Requests
  /\ keys \in 0..MaxKeys /\ faults \in 0..MaxFaults
  /\ excused \subseteq Credentials /\ reused \subseteq Credentials

Init ==
  /\ record = None /\ keyring = {} /\ lock = None
  /\ pc = [a \in Actors |-> "idle"]
  /\ pending = [s \in Sessions |-> None] /\ tries = [s \in Sessions |-> 0]
  /\ cached = {} /\ required = {} /\ cut = {}
  /\ new = [a \in Actors |-> None] /\ old = new
  /\ issued = 0 /\ family = [c \in Credentials |-> 0]
  /\ used = [c \in Credentials |-> None] /\ ended = {}
  /\ net = {} /\ keys = 0 /\ faults = 0
  /\ excused = {} /\ reused = {}

Go(a, label) == pc' = [pc EXCEPT ![a] = label]
Fault == faults < MaxFaults /\ faults' = faults + 1

-----------------------------------------------------------------------------
(* NativeSession::access_token *)

Callable(s) == pc[s] = "idle" /\ s \notin required \cup cached

\* prepare_refresh: under the exclusive lock, the saved credential and a new key.
prepare_refresh(s) ==
  /\ Callable(s) /\ pending[s] = None
  /\ lock = None /\ record # None
  /\ record.place = "native" => record.cred \in keyring
  /\ keys < MaxKeys /\ keys' = keys + 1
  /\ lock' = s
  /\ pending' = [pending EXCEPT ![s] =
       [cred |-> record.cred, key |-> keys', place |-> record.place,
        unknown |-> FALSE, late |-> FALSE]]
  /\ tries' = [tries EXCEPT ![s] = 0]
  /\ Go(s, "ready")
  /\ UNCHANGED <<record, keyring, cached, required, cut, work, plane, net, faults, excused, reused>>

\* A later call takes up the refresh an earlier one left, key and lock included.
Resume(s) ==
  /\ Callable(s) /\ pending[s] # None
  /\ ~(pending[s].unknown /\ pending[s].late)
  /\ tries' = [tries EXCEPT ![s] = 0]
  /\ Go(s, "ready")
  /\ UNCHANGED <<store, pending, cached, required, cut, work, plane, net, keys, faults, excused, reused>>

\* The session is done with its refresh and will not try again.
GiveUp(s) ==
  /\ pending' = [pending EXCEPT ![s] = None]
  /\ required' = required \cup {s}
  /\ lock' = None
  /\ Go(s, "idle")

\* After RECOVERY_WINDOW a refresh whose outcome is unknown is abandoned.
Abandon(s) ==
  /\ Callable(s) /\ pending[s] # None
  /\ pending[s].unknown /\ pending[s].late
  /\ GiveUp(s)
  /\ excused' = excused \cup {pending[s].cred}
  /\ UNCHANGED <<record, keyring, tries, cached, cut, work, plane, net, keys, faults, reused>>

RecoveryWindow(s) ==
  /\ pending[s] # None /\ ~pending[s].late
  /\ pending' = [pending EXCEPT ![s].late = TRUE]
  /\ UNCHANGED <<store, pc, tries, cached, required, cut, work, plane, net, keys, faults, excused, reused>>

\* Mutant: the last failure gives up the refresh, whatever its outcome.
Bug_ForgetUnknown(s, attempt, unknown) ==
  IF attempt < Attempts
  THEN /\ Go(s, "ready")
       /\ pending' = [pending EXCEPT ![s].unknown = unknown]
       /\ UNCHANGED lock
  ELSE /\ Go(s, "idle")
       /\ pending' = [pending EXCEPT ![s] = None]
       /\ lock' = None

\* A retryable failure: again, or back to the caller.  Only a refresh that never
\* left the machine gives up the lock.
Retry(s, attempt, unknown) ==
  IF attempt < Attempts
  THEN /\ Go(s, "ready")
       /\ pending' = [pending EXCEPT ![s].unknown = unknown]
       /\ UNCHANGED lock
  ELSE /\ Go(s, "idle")
       /\ pending' = [pending EXCEPT ![s] =
            IF unknown THEN [@ EXCEPT !.unknown = TRUE] ELSE None]
       /\ lock' = IF unknown THEN lock ELSE None

\* refresh_with_retry: the request leaves, or there is no connection.
Send(s) ==
  /\ pc[s] = "ready"
  /\ tries' = [tries EXCEPT ![s] = @ + 1]
  /\ \/ /\ net' = net \cup {[cred |-> pending[s].cred, key |-> pending[s].key]}
        /\ pending' = [pending EXCEPT ![s].unknown = TRUE]
        /\ Go(s, "sent")
        /\ UNCHANGED lock
     \/ /\ Retry(s, tries'[s], pending[s].unknown)
        /\ UNCHANGED net
  /\ UNCHANGED <<record, keyring, cached, required, cut, work, plane, keys, faults, excused, reused>>

\* No answer in time.  The request may still arrive.
Timeout(s) ==
  /\ pc[s] = "sent"
  /\ Retry(s, tries[s], TRUE)
  /\ UNCHANGED <<record, keyring, tries, cached, required, cut, work, plane, net, keys, faults, excused, reused>>

\* The caller drops the future; the refresh stays with the session.
Cancel(s) ==
  /\ \/ pc[s] \in {"ready", "sent"} /\ tries[s] > 0
        /\ Go(s, "idle") /\ UNCHANGED cut
     \/ pc[s] \in {"set", "write", "retire"} /\ s \notin cut
        /\ cut' = cut \cup {s} /\ UNCHANGED pc
  /\ UNCHANGED <<store, pending, tries, cached, required, work, plane, net, keys, faults, excused, reused>>

\* The access token is about to expire, or was refused.
forget_access(s) ==
  /\ s \in cached
  /\ cached' = cached \ {s}
  /\ UNCHANGED <<store, pc, pending, tries, required, cut, work, plane, net, keys, faults, excused, reused>>

-----------------------------------------------------------------------------
(* The Control Plane (external) *)

Waiting(s, r) == pc[s] = "sent" /\ pending[s].key = r.key

\* The answer with successor c: the session keeps the lock for the save.
Granted(s, c) ==
  /\ Go(s, "set")
  /\ new' = [new EXCEPT ![s] = [cred |-> c, place |-> pending[s].place]]
  /\ old' = [old EXCEPT ![s] = record]
  /\ pending' = [pending EXCEPT ![s] = None]
  /\ required' = required \cup {s}
  /\ UNCHANGED <<lock, faults, excused>>

\* An answer no retry can change: not a token response, for someone else, or a
\* refusal other than invalid_grant.
Unusable(s) ==
  /\ Fault
  /\ GiveUp(s)
  /\ excused' = excused \cup {pending[s].cred}
  /\ UNCHANGED <<new, old>>

\* The answer reaches nobody.
Lost == UNCHANGED <<lock, pc, pending, required, new, old, faults, excused>>

\* The request is answered with the successor.
Rotate(r) ==
  /\ r \in net
  /\ family[r.cred] \notin ended
  /\ \/ /\ used[r.cred] = None
        /\ issued < MaxIssued
        /\ issued' = issued + 1
        /\ family' = [family EXCEPT ![issued + 1] = family[r.cred]]
        /\ used' = [used EXCEPT ![r.cred] = [key |-> r.key, next |-> issued + 1]]
     \/ /\ used[r.cred] # None /\ used[r.cred].key = r.key
        /\ UNCHANGED <<issued, family, used>>
  /\ net' = net \ {r}
  /\ \/ Lost
     \/ \E s \in Sessions : Waiting(s, r) /\ (Granted(s, used'[r.cred].next) \/ Unusable(s))
  /\ UNCHANGED <<record, keyring, tries, cached, cut, ended, keys, reused>>

\* Consumed under another key, or its family has ended: invalid_grant.
Refuse(r) ==
  /\ r \in net
  /\ net' = net \ {r}
  /\ \/ family[r.cred] \in ended /\ UNCHANGED <<ended, reused>>
     \/ /\ family[r.cred] \notin ended
        /\ used[r.cred] # None /\ used[r.cred].key # r.key
        /\ ended' = ended \cup {family[r.cred]}
        /\ reused' = reused \cup {r.cred}
  /\ \/ Lost
     \/ \E s \in Sessions : Waiting(s, r) /\ GiveUp(s) /\ UNCHANGED <<new, old, faults, excused>>
  /\ UNCHANGED <<record, keyring, tries, cached, cut, issued, family, used, keys>>

\* Nothing is consumed: the request is dropped or turned away with a status that
\* may be retried, or refused for good, which ends the refresh though a copy of
\* the request may still be on its way.
TurnAway(r) ==
  /\ r \in net
  /\ net' \in {net, net \ {r}}
  /\ Lost \/ \E s \in Sessions : Waiting(s, r) /\ Unusable(s)
  /\ UNCHANGED <<record, keyring, tries, cached, cut, plane, keys, reused>>

-----------------------------------------------------------------------------
(* ConnectionStore::replace, for a session or a login that holds the lock *)

\* The saving actor fails; a session that consumed its credential cannot go on.
SaveFailed(a) ==
  /\ Go(a, IF a \in Sessions THEN "idle" ELSE "done")
  /\ lock' = None
  /\ new' = [new EXCEPT ![a] = None] /\ old' = [old EXCEPT ![a] = None]
  /\ cut' = cut \ {a}
  /\ excused' = IF old[a] # None THEN excused \cup {old[a].cred} ELSE excused

\* Mutant: the old entry is deleted when the new one is set.
Bug_RetireBeforeRename(a) ==
  /\ pc[a] = "set"
  /\ keyring' = (keyring \cup {new[a].cred}) \ (IF old[a] = None THEN {} ELSE {old[a].cred})
  /\ new' = [new EXCEPT ![a].place = "native"]
  /\ Go(a, "write")
  /\ UNCHANGED <<record, lock, session, old, plane, net, keys, faults, excused, reused>>

\* prepare: the keyring first; a file only when that was agreed to.
prepare(a) ==
  /\ pc[a] = "set"
  /\ \/ /\ keyring' = keyring \cup {new[a].cred}
        /\ new' = [new EXCEPT ![a].place = "native"]
        /\ Go(a, "write")
        /\ UNCHANGED <<lock, old, cut, faults, excused>>
     \/ /\ Fault
        /\ new[a].place = "file"
        /\ Go(a, "write")
        /\ UNCHANGED <<keyring, lock, work, cut, excused>>
     \/ Fault /\ SaveFailed(a) /\ UNCHANGED keyring
  /\ UNCHANGED <<record, pending, tries, cached, required, plane, net, keys, reused>>

\* file::write: the rename commits.  When it fails the new entry is deleted,
\* if that works.
write(a) ==
  /\ pc[a] = "write"
  /\ \/ /\ record' = new[a]
        /\ Go(a, "retire")
        /\ UNCHANGED <<keyring, lock, work, cut, faults, excused>>
     \/ /\ Fault /\ SaveFailed(a)
        /\ \/ keyring' = keyring \ {new[a].cred}
           \/ UNCHANGED keyring
        /\ UNCHANGED record
  /\ UNCHANGED <<pending, tries, cached, required, plane, net, keys, reused>>

\* The credential of the record that was replaced or removed goes last, best
\* effort.  The lock is dropped; a session has its access unless its caller went
\* away.
retire(a) ==
  /\ pc[a] = "retire"
  /\ \/ /\ keyring' = IF old[a] = None THEN keyring ELSE keyring \ {old[a].cred}
        /\ UNCHANGED faults
     \/ old[a] # None /\ Fault /\ UNCHANGED keyring
  /\ lock' = None
  /\ new' = [new EXCEPT ![a] = None] /\ old' = [old EXCEPT ![a] = None]
  /\ IF a \in Sessions
     THEN /\ Go(a, "idle")
          /\ cached' = IF a \in cut THEN cached ELSE cached \cup {a}
          /\ required' = IF a \in cut THEN required ELSE required \ {a}
          /\ cut' = cut \ {a}
     ELSE Go(a, "done") /\ UNCHANGED <<cached, required, cut>>
  /\ UNCHANGED <<record, pending, tries, plane, net, keys, excused, reused>>

Save(a) == prepare(a) \/ write(a) \/ retire(a)

-----------------------------------------------------------------------------
(* firma login *)

\* authenticate: nothing may be saved.
Inspect(l) ==
  /\ pc[l] = "idle" /\ lock = None
  /\ Go(l, IF record = None THEN "exchange" ELSE "done")
  /\ UNCHANGED <<store, session, work, plane, net, keys, faults, excused, reused>>

\* exchange, never retried: the answer may be lost.
exchange(l) ==
  /\ pc[l] = "exchange"
  /\ issued < MaxIssued /\ issued' = issued + 1
  /\ family' = [family EXCEPT ![issued + 1] = issued + 1]
  /\ \/ /\ Go(l, "prove")
        /\ new' = [new EXCEPT ![l] =
             [cred |-> issued + 1, place |-> IF Plaintext THEN "file" ELSE "native"]]
     \/ Go(l, "done") /\ UNCHANGED new
  /\ UNCHANGED <<store, session, old, used, ended, net, keys, faults, excused, reused>>

\* prove: a login that is not accepted is revoked, if that works.
prove(l) ==
  /\ pc[l] = "prove"
  /\ \/ Go(l, "save") /\ UNCHANGED <<new, ended>>
     \/ /\ Go(l, "done")
        /\ new' = [new EXCEPT ![l] = None]
        /\ ended' \in {ended, ended \cup {family[new[l].cred]}}
  /\ UNCHANGED <<store, session, old, issued, family, used, net, keys, faults, excused, reused>>

\* Ctrl-C, until the save begins.
Interrupt(l) ==
  /\ pc[l] \in {"exchange", "prove"}
  /\ Go(l, "done")
  /\ new' = [new EXCEPT ![l] = None]
  /\ UNCHANGED <<store, session, old, plane, net, keys, faults, excused, reused>>

\* Mutant: the record is not looked at again.
Bug_SaveUnchecked(l) ==
  /\ pc[l] = "save" /\ lock = None
  /\ Go(l, "set") /\ lock' = l
  /\ UNCHANGED <<record, keyring, session, work, plane, net, keys, faults, excused, reused>>

\* save: again nothing may be saved, now under the exclusive lock.
save(l) ==
  /\ pc[l] = "save" /\ lock = None
  /\ IF record = None
     THEN Go(l, "set") /\ lock' = l /\ UNCHANGED new
     ELSE Go(l, "done") /\ new' = [new EXCEPT ![l] = None] /\ UNCHANGED lock
  /\ UNCHANGED <<record, keyring, session, old, plane, net, keys, faults, excused, reused>>

-----------------------------------------------------------------------------
(* firma logout *)

Ask(o) ==
  /\ pc[o] = "idle"
  /\ Go(o, "waiting")
  /\ UNCHANGED <<store, session, work, plane, net, keys, faults, excused, reused>>

\* The exclusive lock, and what is saved.
LockToRemove(o) ==
  /\ pc[o] = "waiting" /\ lock = None
  /\ IF record = None THEN Go(o, "done") /\ UNCHANGED lock
     ELSE Go(o, "revoke") /\ lock' = o
  /\ UNCHANGED <<record, keyring, session, work, plane, net, keys, faults, excused, reused>>

\* revoke_saved: confirmed or not, the removal follows.
revoke_saved(o) ==
  /\ pc[o] = "revoke"
  /\ ended' \in {ended, ended \cup {family[record.cred]}}
  /\ Go(o, "remove")
  /\ UNCHANGED <<store, session, work, issued, family, used, net, keys, faults, excused, reused>>

\* remove: the file, then the credential.
remove(o) ==
  /\ pc[o] = "remove"
  /\ \/ /\ record' = None
        /\ old' = [old EXCEPT ![o] = record]
        /\ Go(o, "retire")
        /\ UNCHANGED <<lock, faults>>
     \/ /\ Fault
        /\ Go(o, "done")
        /\ lock' = None
        /\ UNCHANGED <<record, old>>
  /\ UNCHANGED <<keyring, session, new, plane, net, keys, excused, reused>>

-----------------------------------------------------------------------------

\* The credential a session is renewing.
Renewing(s) == IF pending[s] # None /\ pending[s].unknown THEN {pending[s].cred}
               ELSE IF pc[s] \in {"set", "write"} THEN {old[s].cred} ELSE {}

\* A process dies.  Its session starts again from nothing.
Die(a) ==
  /\ Fault
  /\ pc[a] \notin {"done"}
  /\ lock' = IF lock = a THEN None ELSE lock
  /\ Go(a, IF a \in Sessions THEN "idle" ELSE "done")
  /\ new' = [new EXCEPT ![a] = None] /\ old' = [old EXCEPT ![a] = None]
  /\ IF a \in Sessions
     THEN /\ pending' = [pending EXCEPT ![a] = None]
          /\ excused' = excused \cup Renewing(a)
          /\ cached' = cached \ {a} /\ required' = required \ {a} /\ cut' = cut \ {a}
     ELSE UNCHANGED <<pending, excused, cached, required, cut>>
  /\ UNCHANGED <<record, keyring, tries, plane, net, keys, reused>>

Renew(s) == Resume(s) \/ Abandon(s) \/ Send(s) \/ Timeout(s) \/ Save(s)
Login(l) == Inspect(l) \/ exchange(l) \/ prove(l) \/ save(l) \/ Save(l)
Logout(o) == LockToRemove(o) \/ revoke_saved(o) \/ remove(o) \/ Save(o)

Next ==
  \/ \E s \in Sessions : prepare_refresh(s) \/ Renew(s) \/ RecoveryWindow(s) \/ Cancel(s)
                           \/ forget_access(s)
  \/ \E r \in net : Rotate(r) \/ Refuse(r) \/ TurnAway(r)
  \/ \E l \in Logins : Login(l) \/ Interrupt(l)
  \/ \E o \in Logouts : Ask(o) \/ Logout(o)
  \/ \E a \in Actors : Die(a)

Spec == Init /\ [][Next]_vars

-----------------------------------------------------------------------------
(* Properties *)

(***************************************************************************)
(* The record never names a credential of the keyring that is not there,   *)
(* whoever dies between any two steps: the new entry is written before the *)
(* rename and the old one deleted after it (store.rs, replace and remove). *)
(***************************************************************************)
RecordHasItsCredential ==
  record # None /\ record.place = "native" => record.cred \in keyring

(***************************************************************************)
(* A saved login is replaced only by the successor the Control Plane       *)
(* issued for it: no login overwrites another one, and no session that     *)
(* began with an older record (session.rs and login.rs, save).             *)
(***************************************************************************)
ReplacedBySuccessor ==
  [][record # None /\ record' # None /\ record' # record
       => used[record.cred] # None /\ used[record.cred].next = record'.cred]_vars

(***************************************************************************)
(* With lost answers, requests that arrive late, retries, cancelled calls  *)
(* and other processes, no live login ends because its credential is       *)
(* presented again under another key, unless the process that was renewing *)
(* that credential died, gave up after the recovery window, could not      *)
(* save, or could not use the answer (session.rs, access_token).           *)
(***************************************************************************)
ReusedOnlyAfterTrouble == reused \subseteq excused
=============================================================================
