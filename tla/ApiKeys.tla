------------------------------ MODULE ApiKeys ------------------------------
(***************************************************************************)
(* The API keys of one service account: the requests that create, revoke   *)
(* and rotate keys and delete the account (security/service and            *)
(* security/persistence), and the requests that clients authenticate with  *)
(* a key (auth/middleware.rs), statement by statement.                     *)
(*                                                                         *)
(* rotate and the cascading DELETE of the account are transactions of      *)
(* several steps, the other statements commit on their own.  What they     *)
(* rely on in PostgreSQL: an updated row stays locked to the end of its    *)
(* transaction; inserting a key needs the row of the account (foreign key) *)
(* and waits while it is being deleted, and deleting it waits for such an  *)
(* insert to commit; the cascade waits for locked rows of keys; a cycle of *)
(* waiting transactions is broken by aborting one.                         *)
(*                                                                         *)
(* A credential is the key it was issued for: generate, hash, parse and    *)
(* verify_secret tell keys apart.  Prefixes are unique in the table; a new *)
(* one may collide with any row.  NULL scopes restrict nothing and are the *)
(* set of all permissions.  Left out: permission checks on administrators, *)
(* audit records, and last_used_at, which the throttled touch_last_used    *)
(* sets and nothing but listings reads.                                    *)
(***************************************************************************)
EXTENDS Integers, FiniteSets

CONSTANTS Admins,   \* slots, each serving one administrative request at a time
          Clients,  \* slots, each serving one request with a key at a time
          MaxKeys,  \* bound on the number of keys ever inserted
          Perms,    \* permission codes
          Scopes,   \* values of the scopes of a key
          Grants    \* permissions the roles of the account can grant

Keys == 1..MaxKeys
NoKey == 0

ASSUME ApiKeysAssumption ==
    /\ MaxKeys \in Nat
    /\ Scopes \subseteq SUBSET Perms /\ Perms \in Scopes /\ {} \notin Scopes
    /\ Grants \subseteq SUBSET Perms /\ {} \in Grants

VARIABLES
    account,   \* row of the account: present, being deleted, gone
    roles,     \* permissions its roles grant
    made,      \* ids of keys used so far
    status,    \* committed row of a key: none, active, revoked, deleted
    scopes,    \* scopes of a key
    pc,        \* where an administrative request is
    target,    \* the key it is about
    want,      \* scopes of the key it creates
    tries,     \* attempts left in its loop over prefixes
    held,      \* the key whose row its transaction has locked
    fresh,     \* the key its transaction has inserted, unseen by others
    at,        \* where a client's request is
    cred,      \* the key it presents
    allowed,   \* VerifiedKey: the scopes read with the key
    perms,     \* permissions it is served with
    origin,    \* history: the key a key replaced
    byHand,    \* history: keys revoked by revoke_api_key
    seen,      \* history: the status its key has had since the request began
    granted    \* history: permissions the account has had since then

keyVars == <<made, status, scopes, origin, byHand>>
adminVars == <<pc, target, want, tries, held, fresh>>
clientVars == <<at, cred, allowed, perms>>
historyVars == <<seen, granted>>
vars == <<account, roles, keyVars, adminVars, clientVars, historyVars>>

InTransaction == {"rotate_insert", "rotate_commit", "cascade"}
Phase == {"idle", "create_find", "create_insert", "revoke_find", "revoke_update",
          "rotate_find", "rotate_find_key", "rotate_update", "delete_find",
          "delete"} \cup InTransaction
Status == {"none", "active", "revoked", "deleted"}
Place == {"idle", "verify", "load", "served", "invalid_api_key"}

TypeOK ==
    /\ account \in {"present", "deleting", "deleted"}
    /\ roles \in Grants
    /\ made \in 0..MaxKeys
    /\ status \in [Keys -> Status]
    /\ scopes \in [Keys -> Scopes]
    /\ pc \in [Admins -> Phase]
    /\ target \in [Admins -> Keys \cup {NoKey}]
    /\ want \in [Admins -> Scopes \cup {{}}]
    /\ tries \in [Admins -> 0..2]
    /\ held \in [Admins -> Keys \cup {NoKey}]
    /\ fresh \in [Admins -> Keys \cup {NoKey}]
    /\ at \in [Clients -> Place]
    /\ cred \in [Clients -> Keys \cup {NoKey}]
    /\ allowed \in [Clients -> Scopes]
    /\ perms \in [Clients -> SUBSET Perms]
    /\ origin \in [Keys -> Keys \cup {NoKey}]
    /\ byHand \subseteq Keys
    /\ seen \in [Clients -> SUBSET Status]
    /\ granted \in [Clients -> SUBSET Perms]

Init ==
    /\ account = "present"
    /\ roles = {}
    /\ made = 0
    /\ status = [k \in Keys |-> "none"]
    /\ scopes = [k \in Keys |-> Perms]
    /\ pc = [a \in Admins |-> "idle"]
    /\ target = [a \in Admins |-> NoKey]
    /\ want = [a \in Admins |-> Perms]
    /\ tries = [a \in Admins |-> 0]
    /\ held = [a \in Admins |-> NoKey]
    /\ fresh = [a \in Admins |-> NoKey]
    /\ at = [c \in Clients |-> "idle"]
    /\ cred = [c \in Clients |-> NoKey]
    /\ allowed = [c \in Clients |-> Perms]
    /\ perms = [c \in Clients |-> {}]
    /\ origin = [k \in Keys |-> NoKey]
    /\ byHand = {}
    /\ seen = [c \in Clients |-> {}]
    /\ granted = [c \in Clients |-> {}]

-----------------------------------------------------------------------------
Rows == {k \in Keys : status[k] \in {"active", "revoked"}}

\* No transaction but that of a has locked the row of key k.
Free(a, k) == \A b \in Admins \ {a} : held[b] # k

\* Mutant of End: the transaction stays open.
End_KeepsLock(a) ==
    /\ pc' = [pc EXCEPT ![a] = "idle"]
    /\ target' = [target EXCEPT ![a] = NoKey]
    /\ want' = [want EXCEPT ![a] = Perms]
    /\ tries' = [tries EXCEPT ![a] = 0]
    /\ fresh' = [fresh EXCEPT ![a] = NoKey]
    /\ UNCHANGED held

\* The request of a is over: answered (after the audit record), failed or abandoned.
\* An open transaction is rolled back.
End(a) ==
    /\ pc' = [pc EXCEPT ![a] = "idle"]
    /\ target' = [target EXCEPT ![a] = NoKey]
    /\ want' = [want EXCEPT ![a] = Perms]
    /\ tries' = [tries EXCEPT ![a] = 0]
    /\ held' = [held EXCEPT ![a] = NoKey]
    /\ fresh' = [fresh EXCEPT ![a] = NoKey]

Goto(a, p) ==
    /\ pc' = [pc EXCEPT ![a] = p]
    /\ UNCHANGED <<target, want, tries, held, fresh>>

Begin(a, p, k, s) ==
    /\ pc[a] = "idle"
    /\ pc' = [pc EXCEPT ![a] = p]
    /\ target' = [target EXCEPT ![a] = k]
    /\ want' = [want EXCEPT ![a] = s]
    /\ tries' = [tries EXCEPT ![a] = 2]
    /\ UNCHANGED <<held, fresh, account, roles, keyVars, clientVars>>

\* There is an id for one more key, besides those that requests still have to insert.
Minting == {"create_find", "create_insert", "rotate_find", "rotate_find_key",
            "rotate_update", "rotate_insert"}
Room == made + Cardinality({a \in Admins : pc[a] \in Minting}) < MaxKeys

\* The first statement of three of the services: the account, or an error.
FindAccount(a, p) ==
    /\ \/ account # "deleted" /\ Goto(a, p)
       \/ account = "deleted" /\ End(a)
    /\ UNCHANGED <<account, roles, keyVars, clientVars>>

\* Mutant of DuplicatePrefix: the loop does not count its attempts.
DuplicatePrefix_Unbounded(a, p) ==
    /\ pc' = [pc EXCEPT ![a] = p]
    /\ tries' = [tries EXCEPT ![a] = @ - 1]
    /\ held' = [held EXCEPT ![a] = NoKey]
    /\ UNCHANGED <<target, want, fresh, account, roles, keyVars, clientVars>>

\* The prefix of a new key is taken by a row: the insert fails, and the loop of the
\* service goes on at p with a new prefix if it has an attempt left.
DuplicatePrefix(a, p) ==
    /\ \/ /\ tries[a] > 1
          /\ pc' = [pc EXCEPT ![a] = p]
          /\ tries' = [tries EXCEPT ![a] = @ - 1]
          /\ held' = [held EXCEPT ![a] = NoKey]
          /\ UNCHANGED <<target, want, fresh>>
       \/ tries[a] = 1 /\ End(a)
    /\ UNCHANGED <<account, roles, keyVars, clientVars>>

\* The foreign key of a new row has no account any more.
AccountGone(a) ==
    /\ account = "deleted"
    /\ End(a)
    /\ UNCHANGED <<account, roles, keyVars, clientVars>>

-----------------------------------------------------------------------------
(* create_api_key *)

create_api_key(a, s) == Room /\ Begin(a, "create_find", NoKey, s)

CreateFind(a) == pc[a] = "create_find" /\ FindAccount(a, "create_insert")

\* Mutant of create: nothing ties the row to an account.
create_NoForeignKey(a) ==
    /\ pc[a] = "create_insert"
    /\ made < MaxKeys
    /\ made' = made + 1
    /\ status' = [status EXCEPT ![made + 1] = "active"]
    /\ scopes' = [scopes EXCEPT ![made + 1] = want[a]]
    /\ End(a)
    /\ UNCHANGED <<account, roles, origin, byHand, clientVars>>

\* The INSERT commits on its own.
create(a) ==
    /\ pc[a] = "create_insert"
    /\ account = "present"
    /\ made < MaxKeys
    /\ made' = made + 1
    /\ status' = [status EXCEPT ![made + 1] = "active"]
    /\ scopes' = [scopes EXCEPT ![made + 1] = want[a]]
    /\ End(a)
    /\ UNCHANGED <<account, roles, origin, byHand, clientVars>>

CreateFails(a) == pc[a] = "create_insert" /\ AccountGone(a)

-----------------------------------------------------------------------------
(* revoke_api_key *)

revoke_api_key(a, k) == Begin(a, "revoke_find", k, Perms)

RevokeFind(a) == pc[a] = "revoke_find" /\ FindAccount(a, "revoke_update")

\* One UPDATE; no row to update is KeyNotFound.
revoke(a) ==
    /\ pc[a] = "revoke_update"
    /\ Free(a, target[a])
    /\ \/ /\ status[target[a]] = "active"
          /\ status' = [status EXCEPT ![target[a]] = "revoked"]
          /\ byHand' = byHand \cup {target[a]}
          /\ End(a)
       \/ /\ status[target[a]] # "active"
          /\ End(a)
          /\ UNCHANGED <<status, byHand>>
    /\ UNCHANGED <<account, roles, made, scopes, origin, clientVars>>

-----------------------------------------------------------------------------
(* rotate_api_key.  want is first the override of the scopes, {} if there is none. *)

rotate_api_key(a, k, s) == Room /\ Begin(a, "rotate_find", k, s)

RotateFind(a) == pc[a] = "rotate_find" /\ FindAccount(a, "rotate_find_key")

\* The old key is read, revoked or not; its scopes are inherited unless overridden.
RotateFindKey(a) ==
    /\ pc[a] = "rotate_find_key"
    /\ \/ /\ target[a] \in Rows
          /\ pc' = [pc EXCEPT ![a] = "rotate_update"]
          /\ want' = [want EXCEPT ![a] = IF want[a] = {} THEN scopes[target[a]] ELSE @]
          /\ UNCHANGED <<target, tries, held, fresh>>
       \/ target[a] \notin Rows /\ End(a)
    /\ UNCHANGED <<account, roles, keyVars, clientVars>>

\* BEGIN and the UPDATE that revokes the old key, if it is still active.
RotateUpdate(a) ==
    /\ pc[a] = "rotate_update"
    /\ Free(a, target[a])
    /\ pc' = [pc EXCEPT ![a] = "rotate_insert"]
    /\ held' = [held EXCEPT ![a] = IF status[target[a]] = "active"
                                   THEN target[a] ELSE NoKey]
    /\ UNCHANGED <<target, want, tries, fresh, account, roles, keyVars, clientVars>>

\* The new key, seen by others only after the commit.
RotateInsert(a) ==
    /\ pc[a] = "rotate_insert"
    /\ account = "present"
    /\ made < MaxKeys
    /\ made' = made + 1
    /\ scopes' = [scopes EXCEPT ![made + 1] = want[a]]
    /\ pc' = [pc EXCEPT ![a] = "rotate_commit"]
    /\ fresh' = [fresh EXCEPT ![a] = made + 1]
    /\ UNCHANGED <<target, want, tries, held, account, roles, status, origin, byHand,
                   clientVars>>

RotateInsertFails(a) == pc[a] = "rotate_insert" /\ AccountGone(a)

\* Mutant of RotateCommit: the update is lost, the insert is not.
RotateCommit_KeepsOld(a) ==
    /\ pc[a] = "rotate_commit"
    /\ status' = [status EXCEPT ![fresh[a]] = "active"]
    /\ origin' = [origin EXCEPT ![fresh[a]] = target[a]]
    /\ End(a)
    /\ UNCHANGED <<account, roles, made, scopes, byHand, clientVars>>

RotateCommit(a) ==
    /\ pc[a] = "rotate_commit"
    /\ status' = [k \in Keys |-> IF k = fresh[a] THEN "active"
                                 ELSE IF k = held[a] THEN "revoked" ELSE status[k]]
    /\ origin' = [origin EXCEPT ![fresh[a]] = target[a]]
    /\ End(a)
    /\ UNCHANGED <<account, roles, made, scopes, byHand, clientVars>>

-----------------------------------------------------------------------------
(* delete_service_account *)

delete_service_account(a) == Begin(a, "delete_find", NoKey, Perms)

DeleteFind(a) == pc[a] = "delete_find" /\ FindAccount(a, "delete")

\* The DELETE reaches the row of the account, unless it is gone.  It waits for
\* another DELETE and for inserted keys to commit.
DeleteAccount(a) ==
    /\ pc[a] = "delete"
    /\ \/ /\ account = "present"
          /\ \A b \in Admins : pc[b] # "rotate_commit"
          /\ account' = "deleting"
          /\ Goto(a, "cascade")
       \/ /\ account = "deleted"
          /\ End(a)
          /\ UNCHANGED account
    /\ UNCHANGED <<roles, keyVars, clientVars>>

\* The cascade to keys and roles, and the commit.
Cascade(a) ==
    /\ pc[a] = "cascade"
    /\ \A k \in Rows : Free(a, k)
    /\ account' = "deleted"
    /\ roles' = {}
    /\ status' = [k \in Keys |-> IF k \in Rows THEN "deleted" ELSE status[k]]
    /\ End(a)
    /\ UNCHANGED <<made, scopes, origin, byHand, clientVars>>

-----------------------------------------------------------------------------
(* Any of the requests *)

Rollback(a) ==
    /\ account' = IF pc[a] = "cascade" THEN "present" ELSE account
    /\ End(a)
    /\ UNCHANGED <<roles, keyVars, clientVars>>

\* The client left, a statement failed or the process died.
Abandon(a) == pc[a] # "idle" /\ Rollback(a)

\* PostgreSQL aborts one of a rotation that waits for the row of the account and a
\* cascade that waits for the row of the key.
DeadlockAbort(a) ==
    /\ \E d, r \in Admins : /\ a \in {d, r}
                            /\ pc[d] = "cascade"
                            /\ pc[r] = "rotate_insert" /\ held[r] # NoKey
    /\ Rollback(a)

-----------------------------------------------------------------------------
(* Requests with a key *)

\* Roles are assigned to the account or taken away.
SetRoles(R) ==
    /\ account = "present"
    /\ roles' = R
    /\ UNCHANGED <<account, keyVars, adminVars, clientVars>>

\* A request arrives with key k.
call(c, k) ==
    /\ at[c] = "idle"
    /\ at' = [at EXCEPT ![c] = "verify"]
    /\ cred' = [cred EXCEPT ![c] = k]
    /\ UNCHANGED <<allowed, perms, account, roles, keyVars, adminVars>>

\* Mutant of find_active_by_prefix: the filter on revoked_at is missing.
find_active_by_prefix_AnyRow(k) == k \in Rows

\* The row of an active key.
find_active_by_prefix(k) == status[k] = "active"

\* The key is looked up and its secret compared.
verify(c) ==
    /\ at[c] = "verify"
    /\ \/ /\ find_active_by_prefix(cred[c])
          /\ at' = [at EXCEPT ![c] = "load"]
          /\ allowed' = [allowed EXCEPT ![c] = scopes[cred[c]]]
       \/ /\ ~find_active_by_prefix(cred[c])
          /\ at' = [at EXCEPT ![c] = "invalid_api_key"]
          /\ UNCHANGED allowed
    /\ UNCHANGED <<cred, perms, account, roles, keyVars, adminVars>>

\* Mutant of intersect: scopes add permissions.
intersect_Union(P, S) == P \cup S

\* PermissionSet::intersect.
intersect(P, S) == P \cap S

\* Permissions of the account, cut to the scopes.
load(c) ==
    /\ at[c] = "load"
    /\ at' = [at EXCEPT ![c] = "served"]
    /\ perms' = [perms EXCEPT ![c] = intersect(roles, allowed[c])]
    /\ UNCHANGED <<cred, allowed, account, roles, keyVars, adminVars>>

\* The answer is sent, an error is answered at any await, the header the key came in is
\* not in the allowlist auth.api_key_headers, or the client leaves.
Leave(c) ==
    /\ at[c] # "idle"
    /\ at' = [at EXCEPT ![c] = "idle"]
    /\ cred' = [cred EXCEPT ![c] = NoKey]
    /\ allowed' = [allowed EXCEPT ![c] = Perms]
    /\ perms' = [perms EXCEPT ![c] = {}]
    /\ UNCHANGED <<account, roles, keyVars, adminVars>>

-----------------------------------------------------------------------------
AdminStep(a) ==
    \/ CreateFind(a) \/ create(a) \/ CreateFails(a)
    \/ RevokeFind(a) \/ revoke(a)
    \/ RotateFind(a) \/ RotateFindKey(a) \/ RotateUpdate(a)
    \/ RotateInsert(a) \/ RotateInsertFails(a) \/ RotateCommit(a)
    \/ DeleteFind(a) \/ DeleteAccount(a) \/ Cascade(a)

\* Keys that have been issued; what is not one of them is refused and changes nothing.
Known == {k \in Keys : status[k] # "none"}

Request(a) ==
    \/ \E s \in Scopes : create_api_key(a, s)
    \/ \E k \in Known : revoke_api_key(a, k)
    \/ \E k \in Known, s \in Scopes \cup {{}} : rotate_api_key(a, k, s)
    \/ delete_service_account(a)

ClientStep(c) ==
    \/ \E k \in Known : call(c, k)
    \/ verify(c) \/ load(c) \/ Leave(c)

PrefixCollision(a) ==
    \/ pc[a] = "create_insert" /\ DuplicatePrefix(a, "create_insert")
    \/ pc[a] = "rotate_insert" /\ DuplicatePrefix(a, "rotate_update")

\* What the properties remember of a client's request, since it began.
Observe ==
    /\ seen' = [c \in Clients |->
                  IF at'[c] = "idle" THEN {}
                  ELSE seen[c] \cup {status'[cred'[c]]}]
    /\ granted' = [c \in Clients |->
                     IF at'[c] = "idle" THEN {} ELSE granted[c] \cup roles']

Next ==
    /\ \/ \E a \in Admins : Request(a)
       \/ \E a \in Admins : AdminStep(a)
       \/ \E a \in Admins : PrefixCollision(a)
       \/ \E a \in Admins : Abandon(a)
       \/ \E a \in Admins : DeadlockAbort(a)
       \/ \E R \in Grants : SetRoles(R)
       \/ \E c \in Clients : ClientStep(c)
    /\ Observe

Spec == Init /\ [][Next]_vars

-----------------------------------------------------------------------------
\* A request is served only with a key that was active when the request began or
\* later: a key revoked, rotated or deleted before is never accepted.
RevocationTakesEffect ==
    \A c \in Clients : at[c] \in {"load", "served"} => "active" \in seen[c]

\* A served request has no permission outside the scopes of its key, and none that
\* the roles of the account did not grant at some time since the request began.
PermissionsWithin ==
    \A c \in Clients : at[c] = "served" =>
        perms[c] \subseteq scopes[cred[c]] \cap granted[c]

\* Rotation is atomic: a successor is never there beside the active key it replaces,
\* and a key that nobody revoked is revoked only if it has a successor.
RotationAtomic ==
    \A k \in Keys :
        /\ k \in Rows /\ origin[k] # NoKey => status[origin[k]] # "active"
        /\ status[k] = "revoked" /\ k \notin byHand =>
              \E j \in Keys : origin[j] = k /\ j \in Rows

\* Once the account is deleted no key of it is left, whatever creations and rotations
\* were under way.
DeletedAccountHasNoKeys == account = "deleted" => Rows = {} /\ roles = {}

\* Administrative requests never all wait for each other: one that is under way can go
\* on, or a deadlock of a rotation and the deletion of the account is being broken.
NobodyStuck ==
    (\E a \in Admins : pc[a] # "idle") =>
        \E a \in Admins : ENABLED AdminStep(a) \/ ENABLED DeadlockAbort(a)
=============================================================================
