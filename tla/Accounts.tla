------------------------------ MODULE Accounts ------------------------------
(***************************************************************************)
(* One user and the tokens that reset the password: the user is created by *)
(* register_user or by the command seed-admin, logs in, changes the        *)
(* password, or asks for a token and confirms it (security/service,        *)
(* security/persistence).                                                  *)
(*                                                                         *)
(* Every statement commits on its own and the request may end between any  *)
(* two of them: none of these services opens a transaction, except         *)
(* create_and_add_to_org, whose statements appear together.                *)
(*                                                                         *)
(* A password is a value, its hash that value and the parameters it was    *)
(* hashed with; the hash in the first state may come from a build with     *)
(* other parameters.  A raw token is the id of its row, given in the order *)
(* of created_at.  Left out: inputs that are refused before the database   *)
(* is asked, audit records, and later changes of memberships (Membership). *)
(***************************************************************************)
EXTENDS Integers, FiniteSets

CONSTANTS Requests,                     \* slots, each serving one request, or one
                                        \* run of seed-admin, at a time
          Passwords,
          NoPassword,                   \* what there is before there is a user
          MAX_PENDING_TOKENS_PER_USER,  \* 3 in the code
          MaxTokens                     \* bound on the number of tokens inserted

Tokens == 1..MaxTokens
NoToken == 0

ASSUME AccountsAssumption ==
    /\ NoPassword \notin Passwords
    /\ MAX_PENDING_TOKENS_PER_USER \in Nat \ {0}
    /\ MaxTokens \in Nat

VARIABLES
    user,       \* none, created (a row of users), member (and a membership)
    hash,       \* password_hash
    made,       \* number of tokens inserted so far
    token,      \* row of a token: none, pending, consumed, expired, deleted
    pc,         \* where a request is
    current,    \* the password it submits as the present one
    want,       \* the password it is to set
    tok,        \* the token it confirms or evicts
    known,      \* history: the passwords of the user since the request began
    live,       \* history: the token it confirms was pending since then
    late,       \* history: a confirmation of that token had ended before
    overtaken,  \* history: another request wrote since it counted or read
    spent,      \* history: tokens with which a confirmation has ended
    racedInserts,  \* history: number of tokens inserted by overtaken requests
    seedDied    \* history: seed-admin ended between its two INSERTs

tables == <<user, hash, made, token>>
request == <<pc, current, want, tok>>
history == <<known, live, late, overtaken, spent, racedInserts, seedDied>>
vars == <<tables, request, history>>

Hashes == [password : Passwords \cup {NoPassword}, params : {"current", "other"}]
TokenState == {"none", "pending", "consumed", "expired", "deleted"}
Seeding == {"seed_role", "seed_member"}
Inserting == {"reset_evict", "reset_delete", "reset_insert"}
Confirming == {"confirm_update", "confirm_consume"}
Phase == {"idle", "register", "seed_exists", "seed_insert", "login_find",
          "login_rehash", "login_list", "change_find", "change_update",
          "reset_find", "reset_count", "confirm_find"}
         \cup Seeding \cup Inserting \cup Confirming

TypeOK ==
    /\ user \in {"none", "created", "member"}
    /\ hash \in Hashes
    /\ made \in 0..MaxTokens
    /\ token \in [Tokens -> TokenState]
    /\ pc \in [Requests -> Phase]
    /\ current \in [Requests -> Passwords \cup {NoPassword}]
    /\ want \in [Requests -> Passwords \cup {NoPassword}]
    /\ tok \in [Requests -> Tokens \cup {NoToken}]
    /\ known \in [Requests -> SUBSET (Passwords \cup {NoPassword})]
    /\ live \in [Requests -> BOOLEAN]
    /\ late \in [Requests -> BOOLEAN]
    /\ overtaken \in [Requests -> BOOLEAN]
    /\ spent \subseteq Tokens
    /\ racedInserts \in 0..MaxTokens
    /\ seedDied \in BOOLEAN

\* An empty database, or one with a user whose hash is of any age.
Init ==
    /\ \/ user = "none" /\ hash = [password |-> NoPassword, params |-> "current"]
       \/ user = "member" /\ hash \in Hashes /\ hash.password # NoPassword
    /\ made = 0
    /\ token = [t \in Tokens |-> "none"]
    /\ pc = [r \in Requests |-> "idle"]
    /\ current = [r \in Requests |-> NoPassword]
    /\ want = [r \in Requests |-> NoPassword]
    /\ tok = [r \in Requests |-> NoToken]
    /\ known = [r \in Requests |-> {}]
    /\ live = [r \in Requests |-> FALSE]
    /\ late = [r \in Requests |-> FALSE]
    /\ overtaken = [r \in Requests |-> FALSE]
    /\ spent = {}
    /\ racedInserts = 0
    /\ seedDied = FALSE

-----------------------------------------------------------------------------
Begin(r, p, cur, new, t) ==
    /\ pc[r] = "idle"
    /\ pc' = [pc EXCEPT ![r] = p]
    /\ current' = [current EXCEPT ![r] = cur]
    /\ want' = [want EXCEPT ![r] = new]
    /\ tok' = [tok EXCEPT ![r] = t]

Goto(r, p) ==
    /\ pc' = [pc EXCEPT ![r] = p]
    /\ UNCHANGED <<current, want, tok>>

\* The request is over: answered, refused or failed.
End(r) ==
    /\ pc' = [pc EXCEPT ![r] = "idle"]
    /\ current' = [current EXCEPT ![r] = NoPassword]
    /\ want' = [want EXCEPT ![r] = NoPassword]
    /\ tok' = [tok EXCEPT ![r] = NoToken]

\* A look-up that leads to p if it succeeds, and to the end of the request otherwise.
Check(r, ok, p) ==
    /\ \/ ok /\ Goto(r, p)
       \/ ~ok /\ End(r)
    /\ UNCHANGED tables

\* Mutant of hash_password: a hash without parameters.
hash_password_NoParams(p) == [password |-> p, params |-> "none"]

\* hash_password: always with the present parameters.
hash_password(p) == [password |-> p, params |-> "current"]

\* Mutant of verify_password: any password will do.
verify_password_Always(p) == TRUE

\* The parameters are read from the hash, so a hash of any age can be verified.
verify_password(p) == p = hash.password

needs_rehash == hash.params # "current"

update_password_hash(r) ==
    /\ hash' = hash_password(want[r])
    /\ UNCHANGED <<user, made, token>>

-----------------------------------------------------------------------------
(* Creation *)

register_user(r, p) == Begin(r, "register", NoPassword, p, NoToken) /\ UNCHANGED tables

\* Mutant of create_and_add_to_org: the two INSERTs are not one transaction.
create_and_add_to_org_UserOnly(r) ==
    /\ pc[r] = "register"
    /\ \/ user = "none" /\ user' = "created" /\ hash' = hash_password(want[r])
       \/ user # "none" /\ UNCHANGED <<user, hash>>
    /\ End(r)
    /\ UNCHANGED <<made, token>>

\* The user and the membership, or neither if the name or address is taken.
create_and_add_to_org(r) ==
    /\ pc[r] = "register"
    /\ \/ user = "none" /\ user' = "member" /\ hash' = hash_password(want[r])
       \/ user # "none" /\ UNCHANGED <<user, hash>>
    /\ End(r)
    /\ UNCHANGED <<made, token>>

\* The operator organisation is found; it is there from the first migration on.
bootstrap_seed_admin(r, p) == Begin(r, "seed_exists", NoPassword, p, NoToken) /\ UNCHANGED tables

\* UserAlreadyExists if there is a row, be it one of an earlier run that died.
SeedExists(r) == pc[r] = "seed_exists" /\ Check(r, user = "none", "seed_insert")

\* The INSERT of the user, refused if another request was faster.
SeedInsert(r) ==
    /\ pc[r] = "seed_insert"
    /\ \/ /\ user = "none"
          /\ user' = "created"
          /\ hash' = hash_password(want[r])
          /\ Goto(r, "seed_role")
       \/ user # "none" /\ End(r) /\ UNCHANGED <<user, hash>>
    /\ UNCHANGED <<made, token>>

\* The role given on the command line may not exist.
SeedRole(r) ==
    /\ pc[r] = "seed_role"
    /\ \E exists \in BOOLEAN : Check(r, exists, "seed_member")

SeedMember(r) ==
    /\ pc[r] = "seed_member"
    /\ user' = "member"
    /\ End(r)
    /\ UNCHANGED <<hash, made, token>>

-----------------------------------------------------------------------------
(* login and change_password *)

login(r, p) == Begin(r, "login_find", p, p, NoToken) /\ UNCHANGED tables

\* The row is read, the password verified and the age of the hash looked at.
LoginFind(r) ==
    /\ pc[r] = "login_find"
    /\ Check(r, user # "none" /\ verify_password(current[r]),
             IF needs_rehash THEN "login_rehash" ELSE "login_list")

\* Opportunistic rehash; if it fails the login goes on.
LoginRehash(r) ==
    /\ pc[r] = "login_rehash"
    /\ \/ update_password_hash(r)
       \/ UNCHANGED tables
    /\ Goto(r, "login_list")

\* NoOrganisation for a user without membership, otherwise the token of a session.
LoginList(r) == pc[r] = "login_list" /\ End(r) /\ UNCHANGED tables

\* Needs a session, which only a user with a membership has got.
change_password(r, cur, new) ==
    /\ user = "member"
    /\ Begin(r, "change_find", cur, new, NoToken)
    /\ UNCHANGED tables

ChangeFind(r) ==
    pc[r] = "change_find" /\ Check(r, verify_password(current[r]), "change_update")

ChangeUpdate(r) ==
    /\ pc[r] = "change_update"
    /\ update_password_hash(r)
    /\ End(r)

-----------------------------------------------------------------------------
(* Tokens that reset the password *)

Pending == {t \in Tokens : token[t] = "pending"}

password_reset_request(r) ==
    Begin(r, "reset_find", NoPassword, NoPassword, NoToken) /\ UNCHANGED tables

ResetFind(r) == pc[r] = "reset_find" /\ Check(r, user # "none", "reset_count")

\* Mutant of AtCap: off by one.
AtCap_OffByOne == Cardinality(Pending) > MAX_PENDING_TOKENS_PER_USER

AtCap == Cardinality(Pending) >= MAX_PENDING_TOKENS_PER_USER

\* count_pending_for_user, the first statement of TokenRepositoryPg::insert.
ResetCount(r) ==
    /\ pc[r] = "reset_count"
    /\ Goto(r, IF AtCap THEN "reset_evict" ELSE "reset_insert")
    /\ UNCHANGED tables

\* The DELETE looks for the oldest pending token, if one is left.
ResetEvict(r) ==
    /\ pc[r] = "reset_evict"
    /\ \/ \E t \in Pending :
            /\ \A u \in Pending : t <= u
            /\ tok' = [tok EXCEPT ![r] = t]
            /\ pc' = [pc EXCEPT ![r] = "reset_delete"]
            /\ UNCHANGED <<current, want>>
       \/ Pending = {} /\ Goto(r, "reset_insert")
    /\ UNCHANGED tables

\* It deletes that row and no other, and nothing if the row has been deleted meanwhile.
ResetDelete(r) ==
    /\ pc[r] = "reset_delete"
    /\ token' = [token EXCEPT ![tok[r]] = "deleted"]
    /\ pc' = [pc EXCEPT ![r] = "reset_insert"]
    /\ tok' = [tok EXCEPT ![r] = NoToken]
    /\ UNCHANGED <<current, want, user, hash, made>>

ResetInsert(r) ==
    /\ pc[r] = "reset_insert"
    /\ made < MaxTokens
    /\ made' = made + 1
    /\ token' = [token EXCEPT ![made + 1] = "pending"]
    /\ End(r)
    /\ UNCHANGED <<user, hash>>

password_reset_confirm(r, t, p) ==
    Begin(r, "confirm_find", NoPassword, p, t) /\ UNCHANGED tables

\* Mutant of find_valid: consumed tokens are found as well.
find_valid_Consumed(t) == token[t] \in {"pending", "consumed"}

find_valid(t) == token[t] = "pending"

ConfirmFind(r) == pc[r] = "confirm_find" /\ Check(r, find_valid(tok[r]), "confirm_update")

ConfirmUpdate(r) ==
    /\ pc[r] = "confirm_update"
    /\ update_password_hash(r)
    /\ Goto(r, "confirm_consume")

\* Whatever has become of the row meanwhile, unless it was deleted.
consume(r) ==
    /\ pc[r] = "confirm_consume"
    /\ token' = [token EXCEPT ![tok[r]] = IF @ = "deleted" THEN @ ELSE "consumed"]
    /\ End(r)
    /\ UNCHANGED <<user, hash, made>>

\* now() passes expires_at.
Expire(t) ==
    /\ token[t] = "pending"
    /\ token' = [token EXCEPT ![t] = "expired"]
    /\ UNCHANGED <<user, hash, made, request>>

\* A statement fails, the client leaves, the process or the command dies: what was
\* committed stays.
Abandon(r) == pc[r] # "idle" /\ End(r) /\ UNCHANGED tables

-----------------------------------------------------------------------------
\* A raw token is known to its user once it is in the table.
Start(r) ==
    \/ \E p \in Passwords : register_user(r, p) \/ bootstrap_seed_admin(r, p) \/ login(r, p)
    \/ \E cur, new \in Passwords : change_password(r, cur, new)
    \/ password_reset_request(r)
    \/ \E t \in 1..made, p \in Passwords : password_reset_confirm(r, t, p)

Step(r) ==
    \/ create_and_add_to_org(r)
    \/ SeedExists(r) \/ SeedInsert(r) \/ SeedRole(r) \/ SeedMember(r)
    \/ LoginFind(r) \/ LoginRehash(r) \/ LoginList(r)
    \/ ChangeFind(r) \/ ChangeUpdate(r)
    \/ ResetFind(r) \/ ResetCount(r) \/ ResetEvict(r) \/ ResetDelete(r) \/ ResetInsert(r)
    \/ ConfirmFind(r) \/ ConfirmUpdate(r) \/ consume(r)

\* A window in which the writes of others are noted: from the count of the tokens to
\* the INSERT, from the row a login reads to its rehash.
Window(p) == p \in Inserting \cup {"login_rehash"}

\* What the properties remember of each request since it began.
Observe ==
    /\ known' = [r \in Requests |->
                   IF current'[r] = NoPassword THEN {} ELSE known[r] \cup {hash'.password}]
    /\ live' = [r \in Requests |->
                  pc'[r] # "idle" /\ tok'[r] # NoToken /\
                  (live[r] \/ token'[tok'[r]] = "pending")]
    /\ late' = [r \in Requests |->
                  pc'[r] # "idle" /\ (IF pc[r] = "idle" THEN tok'[r] \in spent ELSE late[r])]
    /\ overtaken' = [r \in Requests |->
                       /\ Window(pc'[r])
                       /\ Window(pc[r])
                       /\ \/ overtaken[r]
                          \/ pc[r] = "login_rehash" /\ hash'.password # hash.password
                          \/ pc[r] \in Inserting /\ made' # made]
    /\ spent' = spent \cup {tok[r] : r \in {q \in Requests : /\ pc[q] = "confirm_consume"
                                                             /\ pc'[q] = "idle"
                                                             /\ token' # token}}
    /\ racedInserts' = racedInserts +
           (IF made' # made /\ \E r \in Requests : /\ overtaken[r]
                                                   /\ pc[r] = "reset_insert"
                                                   /\ pc'[r] # pc[r]
            THEN 1 ELSE 0)
    /\ seedDied' = (seedDied \/ \E r \in Requests : /\ pc[r] \in Seeding
                                                    /\ pc'[r] = "idle"
                                                    /\ user' = "created")

Next ==
    /\ \/ \E r \in Requests : Start(r)
       \/ \E r \in Requests : Step(r)
       \/ \E r \in Requests : Abandon(r)
       \/ \E t \in Tokens : Expire(t)
    /\ Observe

Spec == Init /\ [][Next]_vars

-----------------------------------------------------------------------------
\* The password of a user changes only through a request that has shown a right to it
\* since it began: change_password with a password that was the present one,
\* password_reset_confirm with a token that was pending.  A login changes it only by
\* bringing back the password it verified, when its rehash comes after another
\* request's change (which RehashKeepsPassword reports).
PasswordWritesProven ==
    [][user # "none" /\ hash'.password # hash.password =>
         \E r \in Requests :
             /\ pc'[r] # pc[r] /\ hash'.password = want[r]
             /\ \/ pc[r] = "change_update" /\ current[r] \in known[r]
                \/ pc[r] = "confirm_update" /\ live[r]
                \/ pc[r] = "login_rehash" /\ want[r] \in known[r] /\ overtaken[r]]_vars

\* What the design says of the opportunistic rehash of login: its UPDATE is guarded by
\* the hash that was verified, so that it never replaces a password set since.  Not so
\* (run accounts_rehash): update_password_hash has no such guard.
RehashKeepsPassword ==
    [][\A r \in Requests :
         pc[r] = "login_rehash" /\ pc'[r] # pc[r] => hash'.password = hash.password]_vars

\* A token resets the password once: a confirmation that begins after another one with
\* the same token has ended never gets to its UPDATE.  Only confirmations that overlap,
\* or that follow one that died before consume, can use it again.  The wiki has the token
\* consumed before the UPDATE, which would shut out the latter.
ResetTokenOnce ==
    \A r \in Requests : pc[r] \in Confirming => ~late[r]

\* Pending tokens exceed the cap by no more than the tokens inserted by requests that
\* another INSERT overtook between their count and their own.
PendingWithinCap ==
    Cardinality(Pending) <= MAX_PENDING_TOKENS_PER_USER + racedInserts

\* What the wiki says of seed-admin: the user and the membership are inserted in a
\* transaction.  Not so (run accounts_seed_admin): a run that dies, or finds no such
\* role, after the first INSERT leaves a user without membership.
SeedAdminLeavesNoOrphan ==
    user = "created" => \E r \in Requests : pc[r] \in Seeding

\* That is the only way: a user without membership, who cannot log in and whom
\* seed-admin refuses to repair, is there only while seed-admin runs or after a run that
\* ended between its INSERTs; register_user never leaves one.
NoOrphanUser ==
    user = "created" => seedDied \/ \E r \in Requests : pc[r] \in Seeding
=============================================================================
