--------------------------- MODULE ApiKeysProofs ---------------------------
(***************************************************************************)
(* Safety of API keys, for any number of administrators, clients, keys,    *)
(* permissions and scopes.                                                 *)
(***************************************************************************)
EXTENDS ApiKeys, TLAPS

(* The inductive invariant *)

\* The type invariant without the history of clients.
TypeCore ==
    /\ account \in {"present", "deleting", "deleted"}
    /\ roles \in Grants
    /\ made \in 0..MaxKeys
    /\ status \in [Keys -> Status]
    /\ scopes \in [Keys -> Scopes]
    /\ pc \in [Admins -> Phase]
    /\ target \in [Admins -> Keys \cup {NoKey}]
    /\ want \in [Admins -> Scopes \cup {{}}]
    /\ tries \in [Admins -> 0..2]
    /\ held \in [Admins -> Keys \cup {NoKey}]
    /\ fresh \in [Admins -> Keys \cup {NoKey}]
    /\ at \in [Clients -> Place]
    /\ cred \in [Clients -> Keys \cup {NoKey}]
    /\ allowed \in [Clients -> Scopes]
    /\ perms \in [Clients -> SUBSET Perms]
    /\ origin \in [Keys -> Keys \cup {NoKey}]
    /\ byHand \subseteq Keys

\* What a request carries: scopes that are not empty, a key that has been issued.
RequestInv ==
    \A a \in Admins :
        /\ pc[a] \in {"create_find", "create_insert", "rotate_update", "rotate_insert"}
             => want[a] # {}
        /\ pc[a] \in {"revoke_find", "revoke_update", "rotate_find", "rotate_find_key",
                      "rotate_update", "rotate_insert", "rotate_commit"}
             => target[a] \in Keys /\ status[target[a]] # "none"

\* A locked row is that of an active key, and one transaction has locked it.  A
\* rotation past its UPDATE has locked the old key or found it inactive for good.
LockInv ==
    \A a \in Admins :
        /\ held[a] # NoKey =>
             /\ pc[a] \in {"rotate_insert", "rotate_commit"}
             /\ held[a] = target[a]
             /\ status[held[a]] = "active"
             /\ \A b \in Admins : held[b] = held[a] => b = a
        /\ pc[a] \in {"rotate_insert", "rotate_commit"} /\ held[a] = NoKey =>
             status[target[a]] \in {"revoked", "deleted"}

\* An inserted key is unseen, and each belongs to one transaction.
FreshInv ==
    /\ \A k \in Keys : k > made => status[k] = "none"
    /\ \A a \in Admins :
        /\ pc[a] = "rotate_commit" => fresh[a] # NoKey
        /\ fresh[a] # NoKey =>
             /\ pc[a] = "rotate_commit"
             /\ fresh[a] =< made
             /\ status[fresh[a]] = "none"
             /\ \A b \in Admins : fresh[b] = fresh[a] => b = a

\* The account is being deleted by one request, not while a key is being inserted.
AccountInv ==
    /\ \A a \in Admins :
        /\ pc[a] = "cascade" =>
             account = "deleting" /\ \A b \in Admins : pc[b] = "cascade" => b = a
        /\ pc[a] = "rotate_commit" => account = "present"
    /\ DeletedAccountHasNoKeys

\* Only an inactive key has a successor, and a key revoked by nobody has one.
OriginInv ==
    \A k \in Keys :
        /\ status[k] = "none" => origin[k] = NoKey
        /\ origin[k] # NoKey => status[origin[k]] \in {"revoked", "deleted"}
        /\ status[k] = "revoked" /\ k \notin byHand =>
              \E j \in Keys : origin[j] = k /\ status[j] \in {"active", "revoked"}

\* A client presents an issued key and has read its scopes.
ClientInv ==
    \A c \in Clients : at[c] # "idle" =>
        /\ cred[c] \in Keys /\ status[cred[c]] # "none"
        /\ at[c] \in {"load", "served"} => allowed[c] = scopes[cred[c]]

Core ==
    /\ TypeCore /\ RequestInv /\ LockInv /\ FreshInv
    /\ AccountInv /\ OriginInv /\ ClientInv

IInv ==
    /\ Core
    /\ seen \in [Clients -> SUBSET Status]
    /\ granted \in [Clients -> SUBSET Perms]
    /\ RevocationTakesEffect
    /\ PermissionsWithin
    /\ \A c \in Clients : at[c] = "verify" => status[cred[c]] \in seen[c]

-----------------------------------------------------------------------------
LEMMA InitIInv == Init => IInv
  BY ApiKeysAssumption
     DEF Init, IInv, Core, TypeCore, RequestInv, LockInv, FreshInv, AccountInv,
         OriginInv, ClientInv, RevocationTakesEffect, PermissionsWithin,
         DeletedAccountHasNoKeys, Rows, Keys, NoKey, Phase, InTransaction, Place, Status

-----------------------------------------------------------------------------
(* Steps of administrators *)

\* A request ends without effect on keys.  If it was deleting the account, the account
\* is there again.
LEMMA EndCore ==
    ASSUME Core, NEW a \in Admins, End(a), UNCHANGED <<roles, keyVars, clientVars>>,
           account' = IF pc[a] = "cascade" THEN "present" ELSE account
    PROVE  Core'
  <1> USE DEF Core, End, keyVars, clientVars
  <1>1. TypeCore'
    BY ApiKeysAssumption DEF TypeCore, Phase, InTransaction, NoKey, AccountInv
  <1>2. RequestInv'
    BY ApiKeysAssumption DEF TypeCore, RequestInv
  <1>3. LockInv'
    BY DEF TypeCore, LockInv, NoKey, Keys
  <1>4. FreshInv'
    BY DEF TypeCore, FreshInv, NoKey, Keys
  <1>5. AccountInv'
    BY DEF TypeCore, AccountInv, DeletedAccountHasNoKeys, Rows
  <1>6. OriginInv' /\ ClientInv'
    BY DEF OriginInv, ClientInv
  <1> QED BY <1>1, <1>2, <1>3, <1>4, <1>5, <1>6

\* A request moves on without effect on keys, locks or the account.
LEMMA MoveCore ==
    ASSUME Core, NEW a \in Admins, NEW p \in Phase \ InTransaction,
           held[a] = NoKey, fresh[a] = NoKey, pc[a] # "cascade",
           pc' = [pc EXCEPT ![a] = p],
           target' \in [Admins -> Keys \cup {NoKey}],
           want' \in [Admins -> Scopes \cup {{}}],
           tries' \in [Admins -> 0..2],
           \A b \in Admins \ {a} : target'[b] = target[b] /\ want'[b] = want[b],
           RequestInv',
           UNCHANGED <<held, fresh, account, roles, keyVars, clientVars>>
    PROVE  Core'
  <1> USE DEF Core, keyVars, clientVars
  <1>1. TypeCore'
    BY DEF TypeCore, Phase, InTransaction
  <1>3. LockInv'
    BY DEF TypeCore, LockInv, NoKey, Keys, Phase, InTransaction
  <1>4. FreshInv'
    BY DEF TypeCore, FreshInv, NoKey, Keys, Phase, InTransaction
  <1>5. AccountInv'
    BY DEF TypeCore, AccountInv, DeletedAccountHasNoKeys, Rows, Phase, InTransaction
  <1>6. OriginInv' /\ ClientInv'
    BY DEF OriginInv, ClientInv
  <1> QED BY <1>1, <1>3, <1>4, <1>5, <1>6

\* A new key is active under an id that nothing refers to yet.
LEMMA CreateCore ==
    ASSUME Core, NEW a \in Admins, create(a)
    PROVE  Core'
  <1> USE DEF Core, create, End, keyVars, clientVars
  <1>1. TypeCore'
    BY ApiKeysAssumption DEF TypeCore, RequestInv, LockInv, FreshInv, Keys, NoKey,
       Phase, InTransaction, Status
  <1>2. RequestInv'
    BY ApiKeysAssumption DEF TypeCore, RequestInv, LockInv, FreshInv, Keys, NoKey,
       Status
  <1>3. LockInv'
    BY DEF TypeCore, RequestInv, LockInv, FreshInv, Keys, NoKey, Status
  <1>4. FreshInv'
    BY ApiKeysAssumption DEF TypeCore, LockInv, FreshInv, Keys, NoKey
  <1>5. AccountInv'
    BY DEF TypeCore, LockInv, FreshInv, AccountInv, DeletedAccountHasNoKeys, Rows,
       Keys, NoKey
  <1>6. OriginInv'
    BY DEF TypeCore, RequestInv, LockInv, FreshInv, OriginInv, Keys, NoKey, Status
  <1>7. ClientInv'
    BY DEF TypeCore, LockInv, FreshInv, ClientInv, Keys, NoKey
  <1> QED BY <1>1, <1>2, <1>3, <1>4, <1>5, <1>6, <1>7

\* A row that no transaction has locked is revoked.
LEMMA RevokeCore ==
    ASSUME Core, NEW a \in Admins, revoke(a)
    PROVE  Core'
  <1> DEFINE t == target[a]
  <1>0. /\ t \in Keys /\ pc[a] = "revoke_update"
        /\ \A b \in Admins : held[b] # t
    BY DEF Core, revoke, Free, RequestInv, LockInv, TypeCore, Keys, NoKey
  <1>1. CASE status[t] # "active"
    <2>1. /\ End(a)
          /\ UNCHANGED <<roles, keyVars, clientVars>>
          /\ account' = account
      BY <1>1 DEF revoke, keyVars, clientVars
    <2> QED BY <1>0, <2>1, EndCore
  <1>2. CASE status[t] = "active"
    <2>1. /\ End(a)
          /\ status' = [status EXCEPT ![t] = "revoked"]
          /\ byHand' = byHand \cup {t}
          /\ UNCHANGED <<account, roles, made, scopes, origin, clientVars>>
      BY <1>2 DEF revoke
    <2>2. \A k \in Keys : status'[k] = IF k = t THEN "revoked" ELSE status[k]
      BY <2>1, <1>0 DEF Core, TypeCore
    <2> HIDE DEF t
    <2> USE <1>0, <1>2, <2>1, <2>2 DEF Core, End, clientVars
    <2>3. TypeCore'
      BY ApiKeysAssumption DEF TypeCore, Keys, NoKey, Phase, InTransaction, Status
    <2>4. RequestInv'
      BY ApiKeysAssumption DEF TypeCore, RequestInv
    <2>5. LockInv'
      BY DEF TypeCore, RequestInv, LockInv, Keys, NoKey
    <2>6. FreshInv'
      BY DEF TypeCore, FreshInv, Keys, NoKey
    <2>7. AccountInv'
      BY DEF TypeCore, AccountInv, DeletedAccountHasNoKeys, Rows
    <2>8. OriginInv'
      <3> SUFFICES ASSUME NEW k \in Keys
                   PROVE  /\ status'[k] = "none" => origin'[k] = NoKey
                          /\ origin'[k] # NoKey =>
                               status'[origin'[k]] \in {"revoked", "deleted"}
                          /\ status'[k] = "revoked" /\ k \notin byHand' =>
                               \E j \in Keys : /\ origin'[j] = k
                                               /\ status'[j] \in {"active", "revoked"}
        BY DEF OriginInv
      <3> QED BY DEF TypeCore, OriginInv, Keys, NoKey
    <2>9. ClientInv'
      BY DEF TypeCore, ClientInv
    <2> QED BY <2>3, <2>4, <2>5, <2>6, <2>7, <2>8, <2>9
  <1> QED BY <1>1, <1>2

\* The old key is locked, or was inactive.
LEMMA RotateUpdateCore ==
    ASSUME Core, NEW a \in Admins, RotateUpdate(a)
    PROVE  Core'
  <1> USE DEF Core, RotateUpdate, Free, keyVars, clientVars
  <1>1. TypeCore'
    BY ApiKeysAssumption DEF TypeCore, RequestInv, LockInv, FreshInv, Keys, NoKey,
       Phase, InTransaction, Status
  <1>2. RequestInv'
    BY ApiKeysAssumption DEF TypeCore, RequestInv, LockInv, FreshInv, Keys, NoKey,
       Status
  <1>3. LockInv'
    BY DEF TypeCore, RequestInv, LockInv, FreshInv, Keys, NoKey, Status
  <1>4. FreshInv'
    BY ApiKeysAssumption DEF TypeCore, LockInv, FreshInv, Keys, NoKey
  <1>5. AccountInv'
    BY DEF TypeCore, LockInv, FreshInv, AccountInv, DeletedAccountHasNoKeys, Rows,
       Keys, NoKey
  <1>6. OriginInv'
    BY DEF TypeCore, RequestInv, LockInv, FreshInv, OriginInv, Keys, NoKey, Status
  <1>7. ClientInv'
    BY DEF TypeCore, LockInv, FreshInv, ClientInv, Keys, NoKey
  <1> QED BY <1>1, <1>2, <1>3, <1>4, <1>5, <1>6, <1>7

\* The new key is inserted, unseen.
LEMMA RotateInsertCore ==
    ASSUME Core, NEW a \in Admins, RotateInsert(a)
    PROVE  Core'
  <1> USE DEF Core, RotateInsert, keyVars, clientVars
  <1>1. TypeCore'
    BY ApiKeysAssumption DEF TypeCore, RequestInv, LockInv, FreshInv, Keys, NoKey,
       Phase, InTransaction, Status
  <1>2. RequestInv'
    BY ApiKeysAssumption DEF TypeCore, RequestInv, LockInv, FreshInv, Keys, NoKey,
       Status
  <1>3. LockInv'
    BY DEF TypeCore, RequestInv, LockInv, FreshInv, Keys, NoKey, Status
  <1>4. FreshInv'
    BY ApiKeysAssumption DEF TypeCore, LockInv, FreshInv, Keys, NoKey
  <1>5. AccountInv'
    BY DEF TypeCore, LockInv, FreshInv, AccountInv, DeletedAccountHasNoKeys, Rows,
       Keys, NoKey
  <1>6. OriginInv'
    BY DEF TypeCore, RequestInv, LockInv, FreshInv, OriginInv, Keys, NoKey, Status
  <1>7. ClientInv'
    BY DEF TypeCore, LockInv, FreshInv, ClientInv, Keys, NoKey
  <1> QED BY <1>1, <1>2, <1>3, <1>4, <1>5, <1>6, <1>7

\* Old and new key change together.
LEMMA RotateCommitCore ==
    ASSUME Core, NEW a \in Admins, RotateCommit(a)
    PROVE  Core'
  <1> USE DEF Core, RotateCommit, End, keyVars, clientVars
  <1>1. TypeCore'
    BY ApiKeysAssumption DEF TypeCore, RequestInv, LockInv, FreshInv, Keys, NoKey,
       Phase, InTransaction, Status
  <1>2. RequestInv'
    BY ApiKeysAssumption DEF TypeCore, RequestInv, LockInv, FreshInv, Keys, NoKey,
       Status
  <1>3. LockInv'
    BY DEF TypeCore, RequestInv, LockInv, FreshInv, Keys, NoKey, Status
  <1>4. FreshInv'
    BY ApiKeysAssumption DEF TypeCore, LockInv, FreshInv, Keys, NoKey
  <1>5. AccountInv'
    BY DEF TypeCore, LockInv, FreshInv, AccountInv, DeletedAccountHasNoKeys, Rows,
       Keys, NoKey
  <1>6. OriginInv'
    BY DEF TypeCore, RequestInv, LockInv, FreshInv, OriginInv, Keys, NoKey, Status
  <1>7. ClientInv'
    BY DEF TypeCore, LockInv, FreshInv, ClientInv, Keys, NoKey
  <1> QED BY <1>1, <1>2, <1>3, <1>4, <1>5, <1>6, <1>7

\* The account is locked when no key is being inserted.
LEMMA DeleteAccountCore ==
    ASSUME Core, NEW a \in Admins, DeleteAccount(a)
    PROVE  Core'
  <1>1. CASE account # "present"
    BY <1>1, EndCore DEF DeleteAccount
  <1>2. CASE account = "present"
    <2> USE <1>2 DEF Core, DeleteAccount, Goto, keyVars, clientVars
    <2>1. TypeCore'
      BY DEF TypeCore, Phase, InTransaction
    <2>2. RequestInv'
      BY DEF TypeCore, RequestInv
    <2>3. LockInv'
      BY DEF TypeCore, LockInv, NoKey
    <2>4. FreshInv'
      BY DEF TypeCore, FreshInv, NoKey
    <2>5. AccountInv'
      BY DEF TypeCore, AccountInv, DeletedAccountHasNoKeys
    <2>6. OriginInv' /\ ClientInv'
      BY DEF OriginInv, ClientInv
    <2> QED BY <2>1, <2>2, <2>3, <2>4, <2>5, <2>6
  <1> QED BY <1>1, <1>2

\* No key is locked, all rows go.
LEMMA CascadeCore ==
    ASSUME Core, NEW a \in Admins, Cascade(a)
    PROVE  Core'
  <1> USE DEF Core, Cascade, End, Free, Rows, keyVars, clientVars
  <1>1. TypeCore'
    BY ApiKeysAssumption DEF TypeCore, RequestInv, LockInv, FreshInv, Keys, NoKey,
       Phase, InTransaction, Status
  <1>2. RequestInv'
    BY ApiKeysAssumption DEF TypeCore, RequestInv, LockInv, FreshInv, Keys, NoKey,
       Status
  <1>3. LockInv'
    BY DEF TypeCore, RequestInv, LockInv, FreshInv, Keys, NoKey, Status
  <1>4. FreshInv'
    BY ApiKeysAssumption DEF TypeCore, LockInv, FreshInv, Keys, NoKey
  <1>5. AccountInv'
    BY DEF TypeCore, LockInv, FreshInv, AccountInv, DeletedAccountHasNoKeys, Rows,
       Keys, NoKey
  <1>6. OriginInv'
    BY DEF TypeCore, RequestInv, LockInv, FreshInv, OriginInv, Keys, NoKey, Status
  <1>7. ClientInv'
    BY DEF TypeCore, LockInv, FreshInv, ClientInv, Keys, NoKey
  <1> QED BY <1>1, <1>2, <1>3, <1>4, <1>5, <1>6, <1>7

\* A collision rolls the transaction back; the request tries again or ends.
LEMMA DuplicatePrefixCore ==
    ASSUME Core, NEW a \in Admins, PrefixCollision(a)
    PROVE  Core'
  <1> USE DEF PrefixCollision, DuplicatePrefix
  <1>1. pc[a] # "cascade" /\ account' = account
    OBVIOUS
  <1>2. CASE tries[a] = 1
    BY <1>1, <1>2, EndCore
  <1>3. CASE tries[a] > 1
    <2> USE <1>3 DEF Core, keyVars, clientVars
    <2>1. TypeCore'
      BY DEF TypeCore, Phase, InTransaction
    <2>2. RequestInv'
      BY DEF TypeCore, RequestInv
    <2>3. LockInv'
      BY DEF TypeCore, LockInv, NoKey
    <2>4. FreshInv'
      BY DEF TypeCore, FreshInv, NoKey
    <2>5. AccountInv'
      BY DEF TypeCore, AccountInv, DeletedAccountHasNoKeys, Rows
    <2>6. OriginInv' /\ ClientInv'
      BY DEF OriginInv, ClientInv
    <2> QED BY <2>1, <2>2, <2>3, <2>4, <2>5, <2>6
  <1> QED BY <1>2, <1>3 DEF Core, TypeCore

LEMMA BeginCore ==
    ASSUME Core, NEW a \in Admins, Request(a)
    PROVE  Core'
  <1>1. PICK p \in Phase \ InTransaction, k \in Keys \cup {NoKey}, s \in Scopes \cup {{}} :
            /\ Begin(a, p, k, s)
            /\ p \in {"create_find", "create_insert"} => s # {}
            /\ p \in {"revoke_find", "rotate_find"} => k \in Keys /\ status[k] # "none"
            /\ p \in {"create_find", "revoke_find", "rotate_find", "delete_find"}
    <2>1. CASE \E s \in Scopes : create_api_key(a, s)
      BY <2>1, ApiKeysAssumption DEF create_api_key, Phase, InTransaction
    <2>2. CASE \E k \in Known : revoke_api_key(a, k)
      BY <2>2, ApiKeysAssumption DEF revoke_api_key, Known, Phase, InTransaction
    <2>3. CASE \E k \in Known, s \in Scopes \cup {{}} : rotate_api_key(a, k, s)
      BY <2>3 DEF rotate_api_key, Known, Phase, InTransaction
    <2>4. CASE delete_service_account(a)
      BY <2>4, ApiKeysAssumption DEF delete_service_account, Phase, InTransaction
    <2> QED BY <2>1, <2>2, <2>3, <2>4 DEF Request
  <1>2. held[a] = NoKey /\ fresh[a] = NoKey /\ pc[a] # "cascade"
    BY <1>1 DEF Begin, Core, LockInv, FreshInv
  <1>3. /\ pc' = [pc EXCEPT ![a] = p]
        /\ target' = [target EXCEPT ![a] = k]
        /\ want' = [want EXCEPT ![a] = s]
        /\ tries' = [tries EXCEPT ![a] = 2]
        /\ UNCHANGED <<held, fresh, account, roles, keyVars, clientVars>>
    BY <1>1 DEF Begin
  <1>4. RequestInv'
    BY <1>1, <1>3 DEF Core, TypeCore, RequestInv, keyVars
  <1>5. /\ target' \in [Admins -> Keys \cup {NoKey}]
        /\ want' \in [Admins -> Scopes \cup {{}}]
        /\ tries' \in [Admins -> 0..2]
        /\ \A b \in Admins \ {a} : target'[b] = target[b] /\ want'[b] = want[b]
    BY <1>3 DEF Core, TypeCore
  <1> QED BY <1>1, <1>2, <1>3, <1>4, <1>5, MoveCore

\* The account is found or not.
LEMMA FindAccountCore ==
    ASSUME Core, NEW a \in Admins, NEW p \in Phase \ InTransaction,
           FindAccount(a, p),
           \/ pc[a] = "create_find" /\ p = "create_insert"
           \/ pc[a] = "revoke_find" /\ p = "revoke_update"
           \/ pc[a] = "rotate_find" /\ p = "rotate_find_key"
           \/ pc[a] = "delete_find" /\ p = "delete"
    PROVE  Core'
  <1>1. CASE account = "deleted"
    BY <1>1, EndCore DEF FindAccount
  <1>2. CASE account # "deleted"
    <2>1. Goto(a, p) /\ UNCHANGED <<account, roles, keyVars, clientVars>>
      BY <1>2 DEF FindAccount
    <2>2. held[a] = NoKey /\ fresh[a] = NoKey /\ pc[a] # "cascade"
      BY DEF Core, LockInv, FreshInv
    <2>3. RequestInv'
      BY <2>1 DEF Goto, Core, TypeCore, RequestInv, keyVars
    <2> QED BY <2>1, <2>2, <2>3, MoveCore DEF Goto, Core, TypeCore
  <1> QED BY <1>1, <1>2

LEMMA RotateFindKeyCore ==
    ASSUME Core, NEW a \in Admins, RotateFindKey(a)
    PROVE  Core'
  <1>1. CASE target[a] \notin Rows
    BY <1>1, EndCore DEF RotateFindKey
  <1>2. CASE target[a] \in Rows
    <2>1. /\ pc[a] = "rotate_find_key"
          /\ pc' = [pc EXCEPT ![a] = "rotate_update"]
          /\ want' = [want EXCEPT ![a] = IF want[a] = {} THEN scopes[target[a]]
                                         ELSE want[a]]
          /\ UNCHANGED <<target, tries, held, fresh, account, roles, keyVars, clientVars>>
      BY <1>2 DEF RotateFindKey
    <2>2. held[a] = NoKey /\ fresh[a] = NoKey
      BY <2>1 DEF Core, LockInv, FreshInv
    <2>3. scopes[target[a]] \in Scopes /\ scopes[target[a]] # {}
      <3>1. scopes[target[a]] \in Scopes
        BY <1>2 DEF Core, TypeCore, Rows
      <3>2. {} \notin Scopes
        BY ApiKeysAssumption
      <3> QED BY <3>1, <3>2
    <2>4. want' \in [Admins -> Scopes \cup {{}}] /\ want'[a] # {}
      BY <2>1, <2>3 DEF Core, TypeCore
    <2>5. RequestInv'
      BY <2>1, <2>4 DEF Core, TypeCore, RequestInv, keyVars
    <2> QED BY <2>1, <2>2, <2>4, <2>5, MoveCore DEF Core, TypeCore, Phase, InTransaction
  <1> QED BY <1>1, <1>2

LEMMA AdminCore ==
    ASSUME Core, NEW a \in Admins,
           AdminStep(a) \/ Abandon(a) \/ DeadlockAbort(a)
    PROVE  Core'
  <1>1. CASE CreateFind(a) \/ RevokeFind(a) \/ RotateFind(a) \/ DeleteFind(a)
    BY <1>1, FindAccountCore
       DEF CreateFind, RevokeFind, RotateFind, DeleteFind, Phase, InTransaction
  <1>2. CASE CreateFails(a) \/ RotateInsertFails(a)
    BY <1>2, EndCore DEF CreateFails, RotateInsertFails, AccountGone
  <1>3. CASE Abandon(a) \/ DeadlockAbort(a)
    BY <1>3, EndCore DEF Abandon, DeadlockAbort, Rollback
  <1> QED BY <1>1, <1>2, <1>3, CreateCore, RevokeCore, RotateFindKeyCore,
             RotateUpdateCore, RotateInsertCore, RotateCommitCore, DeleteAccountCore,
             CascadeCore
          DEF AdminStep

-----------------------------------------------------------------------------
(* Steps of clients *)

LEMMA ClientCore ==
    ASSUME Core,
           \/ \E R \in Grants : SetRoles(R)
           \/ \E c \in Clients : ClientStep(c)
    PROVE  Core'
  <1> USE DEF Core, keyVars, adminVars, clientVars
  <1>1. CASE \E R \in Grants : SetRoles(R)
    BY <1>1 DEF SetRoles, TypeCore, RequestInv, LockInv, FreshInv, AccountInv,
                DeletedAccountHasNoKeys, OriginInv, ClientInv, Rows
  <1>2. ASSUME NEW c \in Clients, ClientStep(c)
        PROVE  Core'
    <2>1. UNCHANGED <<account, roles, keyVars, adminVars>>
      BY <1>2 DEF ClientStep, call, verify, load, Leave
    <2>2. RequestInv' /\ LockInv' /\ FreshInv' /\ AccountInv' /\ OriginInv'
      BY <2>1 DEF RequestInv, LockInv, FreshInv, AccountInv, OriginInv,
                  DeletedAccountHasNoKeys, Rows
    <2>3. CASE \E k \in Known : call(c, k)
      BY <2>1, <2>2, <2>3 DEF call, Known, TypeCore, ClientInv, Place
    <2>4. CASE verify(c)
      BY <2>1, <2>2, <2>4 DEF verify, TypeCore, ClientInv, Place
    <2>5. CASE load(c)
      BY <2>1, <2>2, <2>5, ApiKeysAssumption
         DEF load, intersect, TypeCore, ClientInv, Place
    <2>6. CASE Leave(c)
      BY <2>1, <2>2, <2>6, ApiKeysAssumption
         DEF Leave, TypeCore, ClientInv, Place, NoKey
    <2> QED BY <1>2, <2>3, <2>4, <2>5, <2>6 DEF ClientStep
  <1> QED BY <1>1, <1>2

-----------------------------------------------------------------------------
(* The history of clients *)

\* Once issued, a key keeps its scopes.
LEMMA KeysStable ==
    ASSUME Core, [Next]_vars, NEW k \in Keys, status[k] # "none"
    PROVE  scopes'[k] = scopes[k]
  <1>1. CASE UNCHANGED scopes
    BY <1>1
  <1>2. CASE \E a \in Admins : create(a) \/ RotateInsert(a)
    <2>1. PICK a \in Admins : scopes' = [scopes EXCEPT ![made + 1] = want[a]]
      BY <1>2 DEF create, RotateInsert
    <2>2. made \in Nat /\ ~(k > made)
      BY ApiKeysAssumption DEF Core, TypeCore, FreshInv
    <2>3. k # made + 1
      BY <2>2 DEF Keys
    <2> QED BY <2>1, <2>3 DEF Core, TypeCore
  <1>3. UNCHANGED scopes \/ \E a \in Admins : create(a) \/ RotateInsert(a)
    <2>1. CASE UNCHANGED vars
      BY <2>1 DEF vars, keyVars
    <2>2. CASE \E a \in Admins : Request(a)
      BY <2>2 DEF Request, create_api_key, revoke_api_key, rotate_api_key,
                  delete_service_account, Begin, keyVars
    <2>3. CASE \E a \in Admins : AdminStep(a)
      BY <2>3 DEF AdminStep, CreateFind, CreateFails, RevokeFind, revoke, RotateFind,
                  RotateFindKey, RotateUpdate, RotateInsertFails, RotateCommit,
                  DeleteFind, DeleteAccount, Cascade, FindAccount, AccountGone, keyVars
    <2>4. CASE \E a \in Admins : PrefixCollision(a) \/ Abandon(a) \/ DeadlockAbort(a)
      BY <2>4 DEF PrefixCollision, DuplicatePrefix, Abandon, DeadlockAbort, Rollback,
                  keyVars
    <2>5. CASE \/ \E R \in Grants : SetRoles(R)
               \/ \E c \in Clients : ClientStep(c)
      BY <2>5 DEF SetRoles, ClientStep, call, verify, load, Leave, keyVars
    <2> QED BY <2>1, <2>2, <2>3, <2>4, <2>5 DEF Next
  <1> QED BY <1>1, <1>2, <1>3

\* Steps of others leave a client where it is.
LEMMA ClientPlaces ==
    ASSUME Core, [Next]_vars, NEW c \in Clients
    PROVE  \/ UNCHANGED <<at[c], cred[c], perms[c]>>
           \/ at'[c] \in {"idle", "invalid_api_key"}
           \/ at[c] = "idle" /\ at'[c] = "verify"
           \/ /\ at[c] = "verify" /\ at'[c] = "load"
              /\ cred'[c] = cred[c] /\ status[cred[c]] = "active"
           \/ /\ at[c] = "load" /\ at'[c] = "served"
              /\ cred'[c] = cred[c] /\ roles' = roles
              /\ perms'[c] = roles \cap allowed[c]
  <1>1. CASE UNCHANGED clientVars
    BY <1>1 DEF clientVars
  <1>2. CASE \E d \in Clients : ClientStep(d)
    <2> PICK d \in Clients : ClientStep(d)
      BY <1>2
    <2> USE DEF Core, TypeCore
    <2>1. CASE \E k \in Known : call(d, k)
      BY <2>1 DEF call
    <2>2. CASE verify(d)
      BY <2>2 DEF verify, find_active_by_prefix
    <2>3. CASE load(d)
      BY <2>3 DEF load, intersect
    <2>4. CASE Leave(d)
      BY <2>4 DEF Leave
    <2> QED BY <2>1, <2>2, <2>3, <2>4 DEF ClientStep
  <1>3. UNCHANGED clientVars \/ \E d \in Clients : ClientStep(d)
    <2>1. CASE UNCHANGED vars
      BY <2>1 DEF vars
    <2>2. CASE \E a \in Admins : Request(a)
      BY <2>2 DEF Request, create_api_key, revoke_api_key, rotate_api_key,
                  delete_service_account, Begin
    <2>3. CASE \E a \in Admins : AdminStep(a)
      BY <2>3 DEF AdminStep, CreateFind, create, CreateFails, RevokeFind, revoke,
                  RotateFind, RotateFindKey, RotateUpdate, RotateInsert,
                  RotateInsertFails, RotateCommit, DeleteFind, DeleteAccount, Cascade,
                  FindAccount, AccountGone
    <2>4. CASE \E a \in Admins : PrefixCollision(a) \/ Abandon(a) \/ DeadlockAbort(a)
      BY <2>4 DEF PrefixCollision, DuplicatePrefix, Abandon, DeadlockAbort, Rollback
    <2>5. CASE \E R \in Grants : SetRoles(R)
      BY <2>5 DEF SetRoles
    <2> QED BY <2>1, <2>2, <2>3, <2>4, <2>5 DEF Next
  <1> QED BY <1>1, <1>2, <1>3

LEMMA NextIInv == IInv /\ [Next]_vars => IInv'
  <1> SUFFICES ASSUME IInv, [Next]_vars PROVE IInv'
    OBVIOUS
  <1>1. CASE UNCHANGED vars
    BY <1>1 DEF vars, keyVars, adminVars, clientVars, historyVars, IInv, Core, TypeCore,
                RequestInv, LockInv, FreshInv, AccountInv, DeletedAccountHasNoKeys,
                OriginInv, ClientInv, RevocationTakesEffect, PermissionsWithin, Rows
  <1>2. CASE Next
    <2>1. Core'
      BY <1>2, BeginCore, AdminCore, DuplicatePrefixCore, ClientCore DEF Next, IInv
    <2>2. /\ seen' = [c \in Clients |-> IF at'[c] = "idle" THEN {}
                                        ELSE seen[c] \cup {status'[cred'[c]]}]
          /\ granted' = [c \in Clients |-> IF at'[c] = "idle" THEN {}
                                           ELSE granted[c] \cup roles']
      BY <1>2 DEF Next, Observe
    <2>3. \A c \in Clients : at'[c] # "idle" =>
              cred'[c] \in Keys /\ status'[cred'[c]] \in Status
      BY <2>1 DEF Core, TypeCore, ClientInv
    <2>4. roles' \subseteq Perms
      BY <2>1, ApiKeysAssumption DEF Core, TypeCore
    <2>5. seen' \in [Clients -> SUBSET Status] /\ granted' \in [Clients -> SUBSET Perms]
      BY <2>2, <2>3, <2>4 DEF IInv
    <2>6. ASSUME NEW c \in Clients
          PROVE  /\ at'[c] \in {"load", "served"} => "active" \in seen'[c]
                 /\ at'[c] = "verify" => status'[cred'[c]] \in seen'[c]
      BY <2>2, ClientPlaces DEF IInv, Core, TypeCore, RevocationTakesEffect
    <2>7. ASSUME NEW c \in Clients, at'[c] = "served"
          PROVE  perms'[c] \subseteq scopes'[cred'[c]] \cap granted'[c]
      <3>1. at[c] \in {"load", "served"} /\ cred'[c] = cred[c]
        BY <2>7, ClientPlaces DEF IInv
      <3>2. /\ cred[c] \in Keys /\ status[cred[c]] # "none"
            /\ allowed[c] = scopes[cred[c]]
        BY <3>1 DEF IInv, Core, ClientInv
      <3>3. scopes'[cred[c]] = scopes[cred[c]]
        BY <3>2, KeysStable DEF IInv
      <3>4. granted'[c] = granted[c] \cup roles'
        BY <2>2, <2>7
      <3>5. CASE at[c] = "load"
        <4>1. perms'[c] = roles \cap allowed[c] /\ roles' = roles
          BY <2>7, <3>5, ClientPlaces DEF IInv
        <4> QED BY <4>1, <3>1, <3>2, <3>3, <3>4
      <3>6. CASE at[c] = "served"
        <4>1. perms'[c] = perms[c]
          BY <2>7, <3>6, ClientPlaces DEF IInv
        <4>2. perms[c] \subseteq scopes[cred[c]] \cap granted[c]
          BY <3>6 DEF IInv, PermissionsWithin
        <4> QED BY <4>1, <4>2, <3>1, <3>3, <3>4
      <3> QED BY <3>1, <3>5, <3>6
    <2> QED BY <2>1, <2>5, <2>6, <2>7
            DEF IInv, RevocationTakesEffect, PermissionsWithin
  <1> QED BY <1>1, <1>2

-----------------------------------------------------------------------------
\* The type invariant of the key tables and of the requests in progress.
THEOREM TypeCorrect == Spec => []TypeOK
  <1>1. IInv => TypeOK
    BY DEF IInv, Core, TypeCore, TypeOK
  <1> QED BY <1>1, InitIInv, NextIInv, PTL DEF Spec

\* handle_api_key never accepts a key that was revoked, rotated away or deleted before
\* the request began.
THEOREM RevocationHolds == Spec => []RevocationTakesEffect
  <1>1. IInv => RevocationTakesEffect
    BY DEF IInv
  <1> QED BY <1>1, InitIInv, NextIInv, PTL DEF Spec

\* handle_api_key gives a request permissions within the scopes of its key and the
\* roles of the account, although both are read at different times.
THEOREM PermissionsHold == Spec => []PermissionsWithin
  <1>1. IInv => PermissionsWithin
    BY DEF IInv
  <1> QED BY <1>1, InitIInv, NextIInv, PTL DEF Spec

\* rotate replaces a key in one step, also when rotations, revocations and the deletion
\* of the account run at the same time and are rolled back.
THEOREM RotationHolds == Spec => []RotationAtomic
  <1>1. IInv => RotationAtomic
    BY DEF IInv, Core, OriginInv, RotationAtomic, Rows
  <1> QED BY <1>1, InitIInv, NextIInv, PTL DEF Spec

\* Deleting a service account leaves no key and no role of it.
THEOREM DeletionHolds == Spec => []DeletedAccountHasNoKeys
  <1>1. IInv => DeletedAccountHasNoKeys
    BY DEF IInv, Core, AccountInv
  <1> QED BY <1>1, InitIInv, NextIInv, PTL DEF Spec

-----------------------------------------------------------------------------
(* Waiting *)

\* The next statement of a's request waits for nothing: the guards of AdminStep(a),
\* except that the model has an id for a key it inserts.
CanGo(a) ==
    /\ pc[a] # "idle"
    /\ pc[a] \in {"create_insert", "rotate_insert"} => account # "deleting"
    /\ pc[a] \in {"revoke_update", "rotate_update"} => Free(a, target[a])
    /\ pc[a] = "delete" =>
         \/ account = "deleted"
         \/ account = "present" /\ \A b \in Admins : pc[b] # "rotate_commit"
    /\ pc[a] = "cascade" => \A k \in Rows : Free(a, k)

\* The cycle that PostgreSQL breaks: the guard of DeadlockAbort.
Deadlocked(d, r) ==
    pc[d] = "cascade" /\ pc[r] = "rotate_insert" /\ held[r] # NoKey

\* Unless all requests are over, one of them can go on or is in that cycle.
OnlyKnownCycle ==
    (\E a \in Admins : pc[a] # "idle") =>
        \/ \E a \in Admins : CanGo(a)
        \/ \E d, r \in Admins : Deadlocked(d, r)

\* The account stays locked only as long as somebody deletes it.
DeleterInv == account = "deleting" => \E a \in Admins : pc[a] = "cascade"

\* An administrator's step begins a deletion, ends its own, or leaves both alone.
LEMMA AdminDeleter ==
    ASSUME TypeCore, NEW a \in Admins,
           \/ Request(a) \/ AdminStep(a) \/ PrefixCollision(a)
           \/ Abandon(a) \/ DeadlockAbort(a)
    PROVE  /\ \A b \in Admins \ {a} : pc'[b] = pc[b]
           /\ \/ account' \in {"present", "deleted"}
              \/ account' = "deleting" /\ pc'[a] = "cascade"
              \/ account' = account /\ pc[a] # "cascade"
  <1> USE DEF TypeCore, End, Goto
  <1>1. CASE Request(a)
    BY <1>1 DEF Request, create_api_key, revoke_api_key, rotate_api_key,
                delete_service_account, Begin
  <1>2. CASE CreateFind(a) \/ RevokeFind(a) \/ RotateFind(a) \/ DeleteFind(a)
    BY <1>2 DEF CreateFind, RevokeFind, RotateFind, DeleteFind, FindAccount
  <1>3. CASE CreateFails(a) \/ RotateInsertFails(a)
    BY <1>3 DEF CreateFails, RotateInsertFails, AccountGone
  <1>4. CASE create(a) \/ revoke(a)
    BY <1>4 DEF create, revoke
  <1>5. CASE RotateFindKey(a) \/ RotateUpdate(a) \/ RotateInsert(a) \/ RotateCommit(a)
    BY <1>5 DEF RotateFindKey, RotateUpdate, RotateInsert, RotateCommit
  <1>6. CASE DeleteAccount(a) \/ Cascade(a)
    BY <1>6 DEF DeleteAccount, Cascade
  <1>7. CASE PrefixCollision(a)
    BY <1>7 DEF PrefixCollision, DuplicatePrefix
  <1>8. CASE Abandon(a) \/ DeadlockAbort(a)
    BY <1>8 DEF Abandon, DeadlockAbort, Rollback
  <1> QED BY <1>1, <1>2, <1>3, <1>4, <1>5, <1>6, <1>7, <1>8 DEF AdminStep

LEMMA NextDeleter == IInv /\ DeleterInv /\ [Next]_vars => DeleterInv'
  <1> SUFFICES ASSUME IInv, DeleterInv, [Next]_vars PROVE DeleterInv'
    OBVIOUS
  <1>1. CASE UNCHANGED <<account, adminVars>>
    BY <1>1 DEF DeleterInv, adminVars
  <1>2. ASSUME NEW a \in Admins,
               \/ Request(a) \/ AdminStep(a) \/ PrefixCollision(a)
               \/ Abandon(a) \/ DeadlockAbort(a)
        PROVE  DeleterInv'
    BY <1>2, AdminDeleter DEF DeleterInv, IInv, Core
  <1>3. ASSUME NEW R \in Grants, SetRoles(R)
        PROVE  DeleterInv'
    BY <1>1, <1>3 DEF SetRoles
  <1>4. ASSUME NEW c \in Clients, ClientStep(c)
        PROVE  DeleterInv'
    BY <1>1, <1>4 DEF ClientStep, call, verify, load, Leave
  <1>5. CASE UNCHANGED vars
    BY <1>1, <1>5 DEF vars
  <1> QED BY <1>2, <1>3, <1>4, <1>5 DEF Next

\* Whoever has locked a key can go on, or is in the cycle with the deletion.
LEMMA HolderGoes ==
    ASSUME IInv, DeleterInv, NEW b \in Admins, held[b] # NoKey
    PROVE  CanGo(b) \/ \E d \in Admins : Deadlocked(d, b)
  <1>1. pc[b] \in {"rotate_insert", "rotate_commit"}
    BY DEF IInv, Core, LockInv
  <1> QED BY <1>1 DEF CanGo, Deadlocked, DeleterInv

\* A deletion can go on, or waits for somebody who has locked a key.
LEMMA DeleterGoes ==
    ASSUME IInv, DeleterInv, NEW d \in Admins, pc[d] = "cascade"
    PROVE  OnlyKnownCycle
  <1>1. CASE \A k \in Rows : Free(d, k)
    BY <1>1 DEF CanGo, OnlyKnownCycle
  <1>2. ASSUME NEW k \in Rows, NEW b \in Admins, held[b] = k
        PROVE  OnlyKnownCycle
    <2>1. k # NoKey
      BY ApiKeysAssumption DEF Rows, Keys, NoKey
    <2> QED BY <1>2, <2>1, HolderGoes DEF OnlyKnownCycle
  <1> QED BY <1>1, <1>2 DEF Free

LEMMA KnownCycleOnly == IInv /\ DeleterInv => OnlyKnownCycle
  <1> SUFFICES ASSUME IInv, DeleterInv, NEW a \in Admins, pc[a] # "idle"
               PROVE  OnlyKnownCycle
    BY DEF OnlyKnownCycle
  <1>1. CASE CanGo(a)
    BY <1>1 DEF OnlyKnownCycle
  <1>2. CASE account = "deleting"
    BY <1>2, DeleterGoes DEF DeleterInv
  <1>3. CASE account # "deleting" /\ ~CanGo(a)
    <2>1. \/ pc[a] \in {"revoke_update", "rotate_update"} /\ ~Free(a, target[a])
          \/ pc[a] = "delete" /\ \E b \in Admins : pc[b] = "rotate_commit"
          \/ pc[a] = "cascade"
      BY <1>3 DEF CanGo, IInv, Core, TypeCore
    <2>2. CASE pc[a] \in {"revoke_update", "rotate_update"} /\ ~Free(a, target[a])
      <3>1. target[a] \in Keys
        BY <2>2 DEF IInv, Core, RequestInv
      <3>2. PICK b \in Admins : held[b] = target[a]
        BY <2>2 DEF Free
      <3>3. held[b] # NoKey
        BY <3>1, <3>2, ApiKeysAssumption DEF Keys, NoKey
      <3> QED BY <3>3, HolderGoes DEF OnlyKnownCycle
    <2>3. CASE \E b \in Admins : pc[b] = "rotate_commit"
      BY <2>3 DEF CanGo, OnlyKnownCycle
    <2> QED BY <2>1, <2>2, <2>3, DeleterGoes
  <1> QED BY <1>1, <1>2, <1>3

\* Requests that create, revoke, rotate and delete never all wait for one another,
\* however many there are: the locks of rotate and of the cascade form no cycle but
\* that of one rotation and one deletion, which the database breaks.
THEOREM OnlyKnownCycleHolds == Spec => []OnlyKnownCycle
  <1>1. Init => IInv /\ DeleterInv
    BY InitIInv DEF Init, DeleterInv
  <1>2. IInv /\ DeleterInv /\ [Next]_vars => (IInv /\ DeleterInv)'
    BY NextIInv, NextDeleter
  <1> QED BY <1>1, <1>2, KnownCycleOnly, PTL DEF Spec
=============================================================================
