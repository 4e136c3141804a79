--------------------------- MODULE AccountsProofs ---------------------------
(***************************************************************************)
(* Safety of passwords and reset tokens, for any number of requests,       *)
(* passwords and tokens and any cap on the pending ones.                   *)
(***************************************************************************)
EXTENDS Accounts, FiniteSetTheorems, TLAPS

(* The inductive invariant *)

Over == {"consumed", "deleted"}

\* Rows are inserted in order, a token that was confirmed is never pending again, and
\* no more inserts raced than there were inserts.
TokenInv ==
    /\ \A t \in Tokens : t > made => token[t] = "none"
    /\ \A t \in spent : t <= made /\ token[t] \in Over
    /\ racedInserts <= made

\* What a request carries from one statement to the next.
CarryInv ==
    \A r \in Requests :
        /\ pc[r] \in {"confirm_find", "reset_delete"} \cup Confirming => tok[r] \in 1..made
        /\ pc[r] \in {"login_find", "login_rehash", "change_find", "change_update"} =>
               current[r] \in Passwords
        /\ pc[r] \in {"login_find", "login_rehash"} => want[r] = current[r]

\* What a request has shown before it writes a password.
ProofInv ==
    \A r \in Requests :
        /\ pc[r] \in {"login_rehash", "change_update"} => current[r] \in known[r]
        /\ pc[r] = "login_rehash" => overtaken[r] \/ hash.password = want[r]
        /\ pc[r] \in Confirming => live[r]
        /\ late[r] => pc[r] = "confirm_find" /\ tok[r] \in spent

\* There is room for the token of a request that no other INSERT has overtaken.
Room(tokens) == Cardinality(tokens) < MAX_PENDING_TOKENS_PER_USER + racedInserts

CapInv ==
    \A r \in Requests : ~overtaken[r] =>
        /\ pc[r] = "reset_insert" => Room(Pending)
        /\ pc[r] = "reset_delete" => Room(Pending \ {tok[r]})

IInv == TypeOK /\ TokenInv /\ CarryInv /\ ProofInv /\ PendingWithinCap /\ CapInv /\ NoOrphanUser

-----------------------------------------------------------------------------
(* What a step does to the tables *)

\* Everything but the history, which Observe adds.
Action ==
    \/ \E r \in Requests : Start(r) \/ Step(r) \/ Abandon(r)
    \/ \E t \in Tokens : Expire(t)

LEMMA NextIsAction == Next => Action /\ Observe
  BY DEF Next, Action

\* A step inserts one token or makes none pending.
TableStep ==
    /\ user' \in {"none", "created", "member"}
    /\ hash' \in Hashes
    /\ made' \in 0..MaxTokens /\ made <= made'
    /\ token' \in [Tokens -> TokenState]
    /\ \A t \in Tokens : t > made' => token'[t] = "none"
    /\ \A t \in Tokens : token[t] \in Over => token'[t] \in Over
    /\ \/ \E r \in Requests : ResetInsert(r)
       \/ made' = made /\ \A t \in Tokens : token'[t] = "pending" => token[t] = "pending"

LEMMA TablesUnchanged ==
    ASSUME TypeOK, TokenInv, UNCHANGED tables
    PROVE  TableStep
  BY AccountsAssumption DEF TypeOK, TokenInv, tables, TableStep

LEMMA HashTyped ==
    ASSUME TypeOK, NEW r \in Requests
    PROVE  hash_password(want[r]) \in Hashes
  BY DEF TypeOK, Hashes, hash_password

LEMMA TablesOfUser ==
    ASSUME TypeOK, TokenInv,
           user' \in {"none", "created", "member"}, hash' \in Hashes, UNCHANGED <<made, token>>
    PROVE  TableStep
  BY AccountsAssumption DEF TypeOK, TokenInv, TableStep

\* A row of the table of tokens is changed, and not back to pending.
LEMMA TablesOfToken ==
    ASSUME TypeOK, TokenInv, NEW t \in 1..made, NEW s \in TokenState \ {"pending"},
           token[t] \in Over => s \in Over,
           token' = [token EXCEPT ![t] = s], UNCHANGED <<user, hash, made>>
    PROVE  TableStep
  <1>1. t \in Tokens /\ ~(t > made) /\ made \in 0..MaxTokens
    BY AccountsAssumption DEF TypeOK, Tokens
  <1>2. token' \in [Tokens -> TokenState]
    BY DEF TypeOK
  <1>3. \A u \in Tokens : token'[u] = IF u = t THEN s ELSE token[u]
    BY DEF TypeOK
  <1> QED BY <1>1, <1>2, <1>3, AccountsAssumption DEF TypeOK, TokenInv, TableStep

LEMMA TablesOfStep ==
    ASSUME TypeOK, TokenInv, CarryInv, Action
    PROVE  TableStep
  <1>1. ASSUME NEW r \in Requests, Start(r) \/ Abandon(r)
        PROVE  TableStep
    <2>1. UNCHANGED tables
      BY <1>1 DEF Start, Abandon, register_user, bootstrap_seed_admin, login, change_password,
                  password_reset_request, password_reset_confirm
    <2> QED BY <2>1, TablesUnchanged
  <1>2. ASSUME NEW t \in Tokens, Expire(t)
        PROVE  TableStep
    <2>1. t \in 1..made
      BY <1>2, AccountsAssumption DEF Expire, TokenInv, TypeOK, Tokens
    <2> QED BY <1>2, <2>1, TablesOfToken DEF Expire, TokenState, Over
  <1>3. ASSUME NEW r \in Requests, Step(r)
        PROVE  TableStep
    <2>1. CASE \/ SeedExists(r) \/ SeedRole(r) \/ LoginFind(r) \/ LoginList(r) \/ ChangeFind(r)
               \/ ResetFind(r) \/ ResetCount(r) \/ ResetEvict(r) \/ ConfirmFind(r)
      <3>1. UNCHANGED tables
        BY <2>1 DEF SeedExists, SeedRole, LoginFind, LoginList, ChangeFind, ResetFind,
                    ResetCount, ResetEvict, ConfirmFind, Check
      <3> QED BY <3>1, TablesUnchanged
    <2>2. CASE \/ create_and_add_to_org(r) \/ SeedInsert(r) \/ SeedMember(r)
               \/ LoginRehash(r) \/ ChangeUpdate(r) \/ ConfirmUpdate(r)
      <3>1. /\ user' \in {user, "created", "member"}
            /\ hash' \in {hash, hash_password(want[r])}
            /\ UNCHANGED <<made, token>>
        BY <2>2 DEF create_and_add_to_org, SeedInsert, SeedMember, LoginRehash, ChangeUpdate,
                    ConfirmUpdate, update_password_hash, tables
      <3> QED BY <3>1, HashTyped, TablesOfUser DEF TypeOK
    <2>3. CASE ResetDelete(r)
      <3>1. tok[r] \in 1..made
        BY <2>3 DEF ResetDelete, CarryInv
      <3> QED BY <2>3, <3>1, TablesOfToken DEF ResetDelete, TokenState, Over
    <2>4. CASE consume(r)
      <3>1. tok[r] \in 1..made
        BY <2>4 DEF consume, CarryInv, Confirming
      <3> DEFINE s == IF token[tok[r]] = "deleted" THEN "deleted" ELSE "consumed"
      <3>2. token' = [token EXCEPT ![tok[r]] = s] /\ UNCHANGED <<user, hash, made>>
        BY <2>4 DEF consume
      <3> QED BY <3>1, <3>2, TablesOfToken DEF TokenState, Over
    <2>5. CASE ResetInsert(r)
      <3>1. made + 1 \in Tokens /\ token[made + 1] = "none" /\ made' \in 0..MaxTokens /\ made <= made'
        BY <2>5, AccountsAssumption DEF ResetInsert, TypeOK, TokenInv, Tokens
      <3>2. token' \in [Tokens -> TokenState]
        BY <2>5 DEF ResetInsert, TypeOK, TokenState
      <3>3. \A t \in Tokens : token'[t] = IF t = made' THEN "pending" ELSE token[t]
        BY <2>5, <3>1 DEF ResetInsert, TypeOK
      <3>4. \A t \in Tokens : t > made' => token'[t] = "none"
        BY <3>1, <3>3, AccountsAssumption DEF TypeOK, TokenInv, Tokens
      <3>5. \A t \in Tokens : token[t] \in Over => token'[t] \in Over
        BY <2>5, <3>1, <3>3 DEF Over, ResetInsert
      <3> QED BY <2>5, <3>1, <3>2, <3>4, <3>5 DEF TableStep, ResetInsert, TypeOK
    <2> QED BY <1>3, <2>1, <2>2, <2>3, <2>4, <2>5 DEF Step
  <1> QED BY <1>1, <1>2, <1>3 DEF Action

-----------------------------------------------------------------------------
(* What a step does to one request *)

Stays(r) == pc'[r] = pc[r] /\ current'[r] = current[r] /\ want'[r] = want[r] /\ tok'[r] = tok[r]

Ends(r) ==
    pc'[r] = "idle" /\ current'[r] = NoPassword /\ want'[r] = NoPassword /\ tok'[r] = NoToken

Starts(r) ==
    /\ pc[r] = "idle" /\ UNCHANGED tables
    /\ pc'[r] \in {"register", "seed_exists", "login_find", "change_find", "reset_find",
                   "confirm_find"}
    /\ {current'[r], want'[r]} \subseteq Passwords \cup {NoPassword}
    /\ pc'[r] \in {"login_find", "change_find"} => current'[r] \in Passwords
    /\ pc'[r] = "login_find" => want'[r] = current'[r]
    /\ IF pc'[r] = "confirm_find" THEN tok'[r] \in 1..made ELSE tok'[r] = NoToken

\* The statements that read, and what a request has seen when it goes on.
Reads(r) ==
    /\ UNCHANGED tables
    /\ \/ <<pc[r], pc'[r]>> \in {<<"seed_exists", "seed_insert">>, <<"seed_role", "seed_member">>,
                                <<"login_find", "login_list">>, <<"reset_find", "reset_count">>}
          /\ tok'[r] = tok[r]
       \/ /\ <<pc[r], pc'[r]>> \in {<<"login_find", "login_rehash">>, <<"change_find", "change_update">>}
          /\ current[r] = hash.password /\ tok'[r] = tok[r]
       \/ /\ pc[r] = "reset_count" /\ pc'[r] = "reset_evict" /\ tok'[r] = tok[r]
       \/ /\ pc[r] = "reset_count" /\ pc'[r] = "reset_insert" /\ tok'[r] = tok[r] /\ ~AtCap
       \/ /\ pc[r] = "reset_evict" /\ pc'[r] = "reset_insert" /\ tok'[r] = tok[r] /\ Pending = {}
       \/ /\ pc[r] = "reset_evict" /\ pc'[r] = "reset_delete" /\ tok'[r] \in Pending
       \/ /\ pc[r] = "confirm_find" /\ pc'[r] = "confirm_update" /\ tok'[r] = tok[r]
          /\ token[tok[r]] = "pending"

\* The statements that write and are not the last of their request.
Writes(r) ==
    \/ /\ <<pc[r], pc'[r]>> \in {<<"seed_insert", "seed_role">>, <<"login_rehash", "login_list">>,
                                 <<"confirm_update", "confirm_consume">>}
       /\ tok'[r] = tok[r] /\ UNCHANGED <<made, token>>
    \/ /\ pc[r] = "reset_delete" /\ pc'[r] = "reset_insert" /\ tok'[r] = NoToken
       /\ token' = [token EXCEPT ![tok[r]] = "deleted"] /\ UNCHANGED <<user, hash, made>>

Advances(r) ==
    current'[r] = current[r] /\ want'[r] = want[r] /\ (Reads(r) \/ Writes(r))

RequestStep ==
    /\ pc' = [r \in Requests |-> pc'[r]]
    /\ current' = [r \in Requests |-> current'[r]]
    /\ want' = [r \in Requests |-> want'[r]]
    /\ tok' = [r \in Requests |-> tok'[r]]
    /\ \A r \in Requests : Stays(r) \/ Ends(r) \/ Starts(r) \/ Advances(r)

LEMMA EndOfRequest ==
    ASSUME TypeOK, NEW r \in Requests, End(r)
    PROVE  RequestStep
  BY DEF TypeOK, End, RequestStep, Stays, Ends

LEMMA StartOfRequest ==
    ASSUME TypeOK, NEW r \in Requests, NEW p, NEW cur, NEW new, NEW t,
           Begin(r, p, cur, new, t), Starts(r)
    PROVE  RequestStep
  BY DEF TypeOK, Begin, RequestStep, Stays

\* Only request r moves, and it keeps the passwords it was given.
Moves(r) ==
    /\ pc' = [pc EXCEPT ![r] = pc'[r]]
    /\ tok' = [tok EXCEPT ![r] = tok'[r]]
    /\ UNCHANGED <<current, want>>

LEMMA MoveOfRequest ==
    ASSUME TypeOK, NEW r \in Requests, Moves(r), Reads(r) \/ Writes(r)
    PROVE  RequestStep
  BY DEF TypeOK, Moves, RequestStep, Stays, Advances

LEMMA GotoMoves ==
    ASSUME TypeOK, NEW r \in Requests, NEW p, Goto(r, p)
    PROVE  Moves(r) /\ pc'[r] = p /\ tok'[r] = tok[r]
  BY DEF TypeOK, Goto, Moves

LEMMA RequestsOfStart ==
    ASSUME TypeOK, NEW r \in Requests, Start(r)
    PROVE  RequestStep
  <1>1. ASSUME NEW p, NEW cur \in Passwords \cup {NoPassword}, NEW new \in Passwords \cup {NoPassword},
               NEW t, Begin(r, p, cur, new, t), UNCHANGED tables,
               p \in {"register", "seed_exists", "login_find", "change_find", "reset_find",
                      "confirm_find"},
               p \in {"login_find", "change_find"} => cur \in Passwords,
               p = "login_find" => new = cur,
               IF p = "confirm_find" THEN t \in 1..made ELSE t = NoToken
        PROVE  RequestStep
    <2>1. /\ pc[r] = "idle" /\ pc'[r] = p /\ current'[r] = cur /\ want'[r] = new /\ tok'[r] = t
      BY <1>1 DEF Begin, TypeOK
    <2>2. Starts(r)
      BY <1>1, <2>1 DEF Starts
    <2> QED BY <1>1, <2>2, StartOfRequest
  <1>2. ASSUME NEW p \in Passwords, register_user(r, p) \/ bootstrap_seed_admin(r, p) \/ login(r, p)
        PROVE  RequestStep
    BY <1>1, <1>2 DEF register_user, bootstrap_seed_admin, login
  <1>3. ASSUME NEW cur \in Passwords, NEW new \in Passwords, change_password(r, cur, new)
        PROVE  RequestStep
    BY <1>1, <1>3 DEF change_password
  <1>4. CASE password_reset_request(r)
    BY <1>1, <1>4 DEF password_reset_request
  <1>5. ASSUME NEW t \in 1..made, NEW p \in Passwords, password_reset_confirm(r, t, p)
        PROVE  RequestStep
    BY <1>1, <1>5 DEF password_reset_confirm
  <1> QED BY <1>2, <1>3, <1>4, <1>5 DEF Start

LEMMA RequestsOfStep ==
    ASSUME TypeOK, Action
    PROVE  RequestStep
  <1>1. ASSUME NEW r \in Requests, Abandon(r)
        PROVE  RequestStep
    BY <1>1, EndOfRequest DEF Abandon
  <1>2. ASSUME NEW t \in Tokens, Expire(t)
        PROVE  RequestStep
    BY <1>2 DEF Expire, request, TypeOK, RequestStep, Stays
  <1>3. ASSUME NEW r \in Requests, Step(r)
        PROVE  RequestStep
    <2>1. CASE End(r)
      BY <2>1, EndOfRequest
    <2>2. CASE \/ create_and_add_to_org(r) \/ SeedMember(r) \/ LoginList(r) \/ ChangeUpdate(r)
               \/ ResetInsert(r) \/ consume(r)
      BY <2>1, <2>2 DEF create_and_add_to_org, SeedMember, LoginList, ChangeUpdate, ResetInsert, consume
    <2>3. CASE SeedExists(r) \/ SeedRole(r) \/ LoginFind(r) \/ ChangeFind(r) \/ ResetFind(r)
               \/ ConfirmFind(r) \/ ResetCount(r)
      <3>1. UNCHANGED tables
        BY <2>3 DEF SeedExists, SeedRole, LoginFind, ChangeFind, ResetFind, ConfirmFind, ResetCount, Check
      <3>2. CASE SeedExists(r) \/ SeedRole(r) \/ ResetFind(r)
        BY <2>1, <3>1, <3>2, GotoMoves, MoveOfRequest DEF SeedExists, SeedRole, ResetFind, Check, Reads
      <3>3. CASE LoginFind(r)
        BY <2>1, <3>1, <3>3, GotoMoves, MoveOfRequest DEF LoginFind, Check, verify_password, Reads
      <3>4. CASE ChangeFind(r)
        BY <2>1, <3>1, <3>4, GotoMoves, MoveOfRequest DEF ChangeFind, Check, verify_password, Reads
      <3>5. CASE ConfirmFind(r)
        BY <2>1, <3>1, <3>5, GotoMoves, MoveOfRequest DEF ConfirmFind, Check, find_valid, Reads
      <3>6. CASE ResetCount(r)
        BY <3>1, <3>6, GotoMoves, MoveOfRequest DEF ResetCount, Reads
      <3> QED BY <2>3, <3>2, <3>3, <3>4, <3>5, <3>6
    <2>4. CASE ResetEvict(r)
      <3>1. CASE Pending = {} /\ Goto(r, "reset_insert")
        BY <2>4, <3>1, GotoMoves, MoveOfRequest DEF ResetEvict, Reads
      <3>2. ASSUME NEW t \in Pending, tok' = [tok EXCEPT ![r] = t],
                   pc' = [pc EXCEPT ![r] = "reset_delete"], UNCHANGED <<current, want>>
            PROVE  RequestStep
        <4>1. Moves(r) /\ pc'[r] = "reset_delete" /\ tok'[r] = t
          BY <3>2 DEF Moves, TypeOK
        <4> QED BY <2>4, <4>1, MoveOfRequest DEF ResetEvict, Reads
      <3> QED BY <2>4, <3>1, <3>2 DEF ResetEvict
    <2>5. CASE ResetDelete(r)
      <3>1. Moves(r) /\ pc'[r] = "reset_insert" /\ tok'[r] = NoToken
        BY <2>5 DEF ResetDelete, Moves, TypeOK
      <3> QED BY <2>5, <3>1, MoveOfRequest DEF ResetDelete, Writes
    <2>6. CASE SeedInsert(r)
      BY <2>1, <2>6, GotoMoves, MoveOfRequest DEF SeedInsert, Writes
    <2>7. CASE LoginRehash(r) \/ ConfirmUpdate(r)
      <3>1. UNCHANGED <<made, token>>
        BY <2>7 DEF LoginRehash, ConfirmUpdate, update_password_hash, tables
      <3> QED BY <2>7, <3>1, GotoMoves, MoveOfRequest DEF LoginRehash, ConfirmUpdate, Writes
    <2> QED BY <1>3, <2>2, <2>3, <2>4, <2>5, <2>6, <2>7 DEF Step
  <1> QED BY <1>1, <1>2, <1>3, RequestsOfStart DEF Action

-----------------------------------------------------------------------------
(* Every step keeps the invariant *)

\* A token counts as spent only by consume.
LEMMA SpentByConsume ==
    ASSUME TypeOK, Action, NEW q \in Requests,
           pc[q] = "confirm_consume", pc'[q] = "idle", token' # token
    PROVE  consume(q)
  <1>1. ASSUME NEW r \in Requests, r # q, Start(r) \/ Step(r) \/ Abandon(r)
        PROVE  FALSE
    <2>1. pc'[q] = pc[q]
      BY <1>1 DEF Start, register_user, bootstrap_seed_admin, login, change_password,
         password_reset_request, password_reset_confirm, Begin, Abandon, End, Goto, Check, Step,
         create_and_add_to_org, SeedExists, SeedInsert, SeedRole, SeedMember, LoginFind,
         LoginRehash, LoginList, ChangeFind, ChangeUpdate, ResetFind, ResetCount, ResetEvict,
         ResetDelete, ResetInsert, ConfirmFind, ConfirmUpdate, consume, TypeOK
    <2> QED BY <2>1
  <1>2. ~ \E t \in Tokens : Expire(t)
    BY DEF Expire, request
  <1>3. Start(q) \/ Step(q) \/ Abandon(q)
    BY <1>1, <1>2 DEF Action
  <1>4. ~Start(q)
    BY DEF Start, register_user, bootstrap_seed_admin, login, change_password,
       password_reset_request, password_reset_confirm, Begin
  <1>5. ~Abandon(q)
    BY DEF Abandon, tables
  <1> QED BY <1>3, <1>4, <1>5 DEF Step, create_and_add_to_org, SeedExists, SeedInsert, SeedRole,
         SeedMember, LoginFind, LoginRehash, LoginList, ChangeFind, ChangeUpdate, ResetFind,
         ResetCount, ResetEvict, ResetDelete, ResetInsert, ConfirmFind, ConfirmUpdate

LEMMA SpentAfter ==
    ASSUME TypeOK, CarryInv, Action, TableStep, Observe, NEW t \in spent', t \notin spent
    PROVE  t \in Tokens /\ t <= made' /\ token'[t] \in Over
  <1>1. PICK q \in Requests : /\ pc[q] = "confirm_consume" /\ pc'[q] = "idle" /\ token' # token
                              /\ t = tok[q]
    BY DEF Observe
  <1>2. consume(q)
    BY <1>1, SpentByConsume
  <1>3. t \in 1..made /\ t \in Tokens
    BY <1>1, AccountsAssumption DEF CarryInv, Confirming, TypeOK, Tokens
  <1>4. token'[t] = IF token[t] = "deleted" THEN token[t] ELSE "consumed"
    BY <1>1, <1>2, <1>3 DEF consume, TypeOK
  <1> QED BY <1>3, <1>4, AccountsAssumption DEF TableStep, Over, TypeOK

LEMMA TokenAfter ==
    ASSUME IInv, Action, TableStep, Observe
    PROVE  TokenInv' /\ spent' \subseteq Tokens /\ racedInserts' \in 0..MaxTokens
  <1> USE DEF IInv
  <1>1. \A t \in spent' : t \in Tokens /\ t <= made' /\ token'[t] \in Over
    <2> SUFFICES ASSUME NEW t \in spent'
                 PROVE  t \in Tokens /\ t <= made' /\ token'[t] \in Over
      OBVIOUS
    <2>1. CASE t \in spent
      BY <2>1, AccountsAssumption DEF TypeOK, TokenInv, TableStep, Tokens
    <2> QED BY <2>1, SpentAfter
  <1>2. racedInserts' = racedInserts \/ (racedInserts' = racedInserts + 1 /\ made' # made)
    BY DEF Observe, TypeOK
  <1>3. racedInserts' \in 0..MaxTokens /\ racedInserts' <= made'
    BY <1>2, AccountsAssumption DEF TypeOK, TokenInv, TableStep
  <1> QED BY <1>1, <1>3 DEF TokenInv, TableStep

LEMMA TypeAfter ==
    ASSUME IInv, Action, TableStep, RequestStep, Observe
    PROVE  TypeOK'
  <1> USE DEF IInv
  <1>1. spent' \subseteq Tokens /\ racedInserts' \in 0..MaxTokens
    BY TokenAfter
  <1>2. pc' \in [Requests -> Phase]
    BY DEF RequestStep, TypeOK, Stays, Ends, Starts, Advances, Reads, Writes, Phase, Seeding,
           Inserting, Confirming
  <1>3. /\ current' \in [Requests -> Passwords \cup {NoPassword}]
        /\ want' \in [Requests -> Passwords \cup {NoPassword}]
    BY DEF RequestStep, TypeOK, Stays, Ends, Starts, Advances
  <1>4. tok' \in [Requests -> Tokens \cup {NoToken}]
    <2>1. Pending \subseteq Tokens /\ 1..made \subseteq Tokens
      BY AccountsAssumption DEF Pending, Tokens, TypeOK
    <2> QED BY <2>1 DEF RequestStep, TypeOK, Stays, Ends, Starts, Advances, Reads, Writes
  <1>5. known' \in [Requests -> SUBSET (Passwords \cup {NoPassword})]
    BY DEF Observe, TypeOK, TableStep, Hashes
  <1>6. live' \in [Requests -> BOOLEAN] /\ overtaken' \in [Requests -> BOOLEAN]
    BY ZenonT(30) DEF Observe
  <1>7. late' \in [Requests -> BOOLEAN]
    BY ZenonT(30) DEF Observe
  <1>8. seedDied' \in BOOLEAN
    BY ZenonT(30) DEF Observe
  <1> QED BY <1>1, <1>2, <1>3, <1>4, <1>5, <1>6, <1>7, <1>8 DEF TypeOK, TableStep

LEMMA CarryAfter ==
    ASSUME IInv, TableStep, RequestStep
    PROVE  CarryInv'
  <1> USE DEF IInv
  <1>1. 1..made \subseteq 1..made' /\ Pending \subseteq 1..made
    BY AccountsAssumption DEF TypeOK, TableStep, TokenInv, Pending, Tokens
  <1> SUFFICES ASSUME NEW r \in Requests
               PROVE  /\ pc'[r] \in {"confirm_find", "reset_delete"} \cup Confirming =>
                             tok'[r] \in 1..made'
                      /\ pc'[r] \in {"login_find", "login_rehash", "change_find", "change_update"} =>
                             current'[r] \in Passwords
                      /\ pc'[r] \in {"login_find", "login_rehash"} => want'[r] = current'[r]
    BY DEF CarryInv
  <1> USE DEF Confirming
  <1>2. CASE Stays(r)
    BY <1>1, <1>2 DEF Stays, CarryInv
  <1>3. CASE Ends(r) \/ Starts(r)
    BY <1>1, <1>3 DEF Ends, Starts
  <1>4. CASE Advances(r) /\ Reads(r)
    BY <1>1, <1>4 DEF Advances, Reads, CarryInv
  <1>5. CASE Advances(r) /\ Writes(r)
    BY <1>1, <1>5 DEF Advances, Writes, CarryInv
  <1> QED BY <1>2, <1>3, <1>4, <1>5 DEF RequestStep, Advances

LEMMA ProofAfter ==
    ASSUME IInv, TableStep, RequestStep, Observe
    PROVE  ProofInv'
  <1> USE DEF IInv
  <1> SUFFICES ASSUME NEW r \in Requests
               PROVE  /\ pc'[r] \in {"login_rehash", "change_update"} => current'[r] \in known'[r]
                      /\ pc'[r] = "login_rehash" => overtaken'[r] \/ hash'.password = want'[r]
                      /\ pc'[r] \in Confirming => live'[r]
                      /\ late'[r] => pc'[r] = "confirm_find" /\ tok'[r] \in spent'
    BY DEF ProofInv
  <1>1. CarryInv'
    BY CarryAfter
  <1>2. spent \subseteq spent' /\ NoToken \notin spent
    BY DEF Observe, TypeOK, Tokens, NoToken
  <1>3. pc'[r] \in {"login_rehash", "change_update"} => current'[r] \in known'[r]
    <2> SUFFICES ASSUME pc'[r] \in {"login_rehash", "change_update"}
                 PROVE  current'[r] \in known'[r]
      OBVIOUS
    <2>1. current'[r] \in Passwords /\ current'[r] # NoPassword
      BY <1>1, AccountsAssumption DEF CarryInv
    <2>2. known'[r] = known[r] \cup {hash'.password}
      BY <2>1 DEF Observe
    <2>3. CASE Stays(r)
      BY <2>2, <2>3 DEF Stays, ProofInv
    <2>4. CASE Advances(r)
      BY <2>2, <2>4 DEF Advances, Reads, Writes, tables
    <2> QED BY <2>3, <2>4 DEF RequestStep, Ends, Starts
  <1>4. pc'[r] = "login_rehash" => overtaken'[r] \/ hash'.password = want'[r]
    <2> SUFFICES ASSUME pc'[r] = "login_rehash"
                 PROVE  overtaken'[r] \/ hash'.password = want'[r]
      OBVIOUS
    <2>1. CASE Stays(r)
      <3>1. overtaken[r] \/ hash.password = want[r]
        BY <2>1 DEF Stays, ProofInv
      <3>2. overtaken'[r] <=> overtaken[r] \/ hash'.password # hash.password
        BY <2>1 DEF Stays, Observe, Window, Inserting
      <3> QED BY <2>1, <3>1, <3>2 DEF Stays
    <2>2. CASE Advances(r)
      BY <2>2 DEF Advances, Reads, Writes, tables, CarryInv
    <2> QED BY <2>1, <2>2 DEF RequestStep, Ends, Starts
  <1>5. pc'[r] \in Confirming => live'[r]
    <2> SUFFICES ASSUME pc'[r] \in Confirming
                 PROVE  live'[r]
      OBVIOUS
    <2>1. tok'[r] # NoToken
      BY <1>1 DEF CarryInv, NoToken
    <2>2. live'[r] <=> live[r] \/ token'[tok'[r]] = "pending"
      BY <2>1 DEF Observe, Confirming
    <2>3. CASE Stays(r)
      BY <2>2, <2>3 DEF Stays, ProofInv
    <2>4. CASE Advances(r)
      BY <2>2, <2>4 DEF Advances, Reads, Writes, Confirming, ProofInv, tables
    <2> QED BY <2>3, <2>4 DEF RequestStep, Ends, Starts, Confirming
  <1>6. late'[r] => pc'[r] = "confirm_find" /\ tok'[r] \in spent'
    <2> SUFFICES ASSUME late'[r]
                 PROVE  pc'[r] = "confirm_find" /\ tok'[r] \in spent'
      OBVIOUS
    <2>1. pc'[r] # "idle" /\ (IF pc[r] = "idle" THEN tok'[r] \in spent ELSE late[r])
      BY ZenonT(30) DEF Observe
    <2>2. pc[r] # "idle" => pc[r] = "confirm_find" /\ tok[r] \in spent /\ token[tok[r]] \in Over
      BY <2>1 DEF ProofInv, TokenInv
    <2>3. CASE Stays(r)
      BY <1>2, <2>1, <2>2, <2>3 DEF Stays
    <2>4. CASE Starts(r)
      BY <1>2, <2>1, <2>4 DEF Starts
    <2>5. CASE Advances(r)
      BY <2>1, <2>2, <2>5 DEF Advances, Reads, Writes, Over
    <2> QED BY <2>1, <2>3, <2>4, <2>5 DEF RequestStep, Ends
  <1> QED BY <1>3, <1>4, <1>5, <1>6

-----------------------------------------------------------------------------
(* The cap on pending tokens *)

LEMMA TokensFinite ==
    ASSUME NEW S \in SUBSET Tokens
    PROVE  IsFiniteSet(S) /\ Cardinality(S) \in Nat
  <1>1. IsFiniteSet(Tokens)
    BY FS_Interval, AccountsAssumption DEF Tokens
  <1>2. IsFiniteSet(S)
    BY <1>1, FS_Subset
  <1> QED BY <1>2, FS_CardinalityType

LEMMA FewerTokens ==
    ASSUME NEW S \in SUBSET Tokens, NEW T \in SUBSET S
    PROVE  Cardinality(T) <= Cardinality(S)
  BY TokensFinite, FS_Subset

\* If no token was inserted, what was not overtaken still has the room it had.
LEMMA RoomKept ==
    ASSUME TypeOK, NEW S \in SUBSET Tokens, NEW T \in SUBSET S, Room(S), racedInserts' = racedInserts
    PROVE  Room(T)'
  <1>1. Cardinality(T) <= Cardinality(S) /\ Cardinality(T) \in Nat /\ Cardinality(S) \in Nat
    BY FewerTokens, TokensFinite
  <1> QED BY <1>1, AccountsAssumption DEF Room, TypeOK

LEMMA NoneRaced ==
    ASSUME TypeOK, Observe, made' = made
    PROVE  racedInserts' = racedInserts
  BY DEF Observe, TypeOK

\* The INSERT: one more pending token, counted among the raced ones if it was overtaken.
LEMMA InsertWithinCap ==
    ASSUME IInv, Observe, NEW r \in Requests, ResetInsert(r)
    PROVE  PendingWithinCap'
  <1> USE DEF IInv
  <1>1. Pending \in SUBSET Tokens /\ Pending' = Pending \cup {made + 1} /\ made' # made
        /\ made + 1 \in Tokens
    BY AccountsAssumption DEF ResetInsert, Pending, TypeOK, Tokens
  <1>2. Cardinality(Pending) \in Nat /\ Cardinality(Pending') \in Nat
        /\ Cardinality(Pending') <= Cardinality(Pending) + 1
    <2>1. IsFiniteSet(Pending)
      BY <1>1, TokensFinite
    <2>2. \/ Cardinality(Pending \cup {made + 1}) = Cardinality(Pending)
          \/ Cardinality(Pending \cup {made + 1}) = Cardinality(Pending) + 1
      BY <2>1, FS_AddElement
    <2>3. Cardinality(Pending) \in Nat
      BY <2>1, FS_CardinalityType
    <2> QED BY <1>1, <2>2, <2>3
  <1>3. pc[r] = "reset_insert" /\ pc'[r] # pc[r]
    BY DEF ResetInsert, End, TypeOK
  <1>4. racedInserts' = racedInserts \/ racedInserts' = racedInserts + 1
    BY DEF Observe, TypeOK
  <1>5. CASE overtaken[r]
    <2>1. racedInserts' = racedInserts + 1
      BY <1>1, <1>3, <1>5 DEF Observe
    <2> QED BY <1>2, <2>1, AccountsAssumption DEF PendingWithinCap, TypeOK
  <1>6. CASE ~overtaken[r]
    <2>1. Cardinality(Pending) < MAX_PENDING_TOKENS_PER_USER + racedInserts
      BY <1>3, <1>6 DEF CapInv, Room
    <2> QED BY <1>2, <1>4, <2>1, AccountsAssumption DEF PendingWithinCap, TypeOK
  <1> QED BY <1>5, <1>6

LEMMA CapAfter ==
    ASSUME IInv, TableStep, Observe
    PROVE  PendingWithinCap'
  <1> USE DEF IInv
  <1>1. CASE \E r \in Requests : ResetInsert(r)
    BY <1>1, InsertWithinCap
  <1>2. CASE made' = made /\ \A t \in Tokens : token'[t] = "pending" => token[t] = "pending"
    <2>1. Pending \in SUBSET Tokens /\ Pending' \in SUBSET Pending
      BY <1>2 DEF Pending
    <2>2. /\ Cardinality(Pending') <= Cardinality(Pending)
          /\ Cardinality(Pending') \in Nat /\ Cardinality(Pending) \in Nat
      BY <2>1, FewerTokens, TokensFinite
    <2>3. racedInserts' = racedInserts
      BY <1>2, NoneRaced
    <2> QED BY <2>2, <2>3, AccountsAssumption DEF PendingWithinCap, TypeOK
  <1> QED BY <1>1, <1>2 DEF TableStep

LEMMA RoomAfter ==
    ASSUME IInv, TableStep, RequestStep, Observe
    PROVE  CapInv'
  <1> USE DEF IInv
  <1> SUFFICES ASSUME NEW r \in Requests, ~overtaken'[r], pc'[r] \in {"reset_insert", "reset_delete"}
               PROVE  /\ pc'[r] = "reset_insert" => Room(Pending)'
                      /\ pc'[r] = "reset_delete" => Room(Pending \ {tok[r]})'
    BY DEF CapInv
  <1>1. Pending \in SUBSET Tokens /\ Cardinality(Pending) \in Nat
    BY TokensFinite DEF Pending
  <1>2. pc[r] \in Inserting => ~overtaken[r] /\ made' = made
    BY DEF Observe, Window, Inserting
  <1>3. made' = made => Pending' \in SUBSET Pending /\ racedInserts' = racedInserts
    <2>1. ASSUME NEW q \in Requests, ResetInsert(q)
          PROVE  made' # made
      BY <2>1, AccountsAssumption DEF ResetInsert, TypeOK
    <2> QED BY <2>1, NoneRaced DEF TableStep, Pending
  <1>4. CASE Stays(r)
    <2>1. pc[r] \in Inserting /\ pc'[r] = pc[r] /\ tok'[r] = tok[r]
      BY <1>4 DEF Stays, Inserting
    <2>2. /\ pc[r] = "reset_insert" => Room(Pending)
          /\ pc[r] = "reset_delete" => Room(Pending \ {tok[r]})
      BY <1>2, <2>1 DEF CapInv
    <2>3. pc[r] = "reset_insert" => Room(Pending)'
      BY <1>1, <1>2, <1>3, <2>1, <2>2, RoomKept DEF Room
    <2>4. pc[r] = "reset_delete" => Room(Pending \ {tok[r]})'
      <3>1. Pending \ {tok[r]} \in SUBSET Tokens
            /\ Pending' \ {tok'[r]} \in SUBSET (Pending \ {tok[r]})
        BY <1>1, <1>2, <1>3, <2>1
      <3> QED BY <1>2, <1>3, <2>1, <2>2, <3>1, RoomKept DEF Room
    <2> QED BY <2>1, <2>3, <2>4
  <1>5. CASE Reads(r)
    <2>1. Pending' = Pending /\ racedInserts' = racedInserts
      BY <1>5, NoneRaced DEF Reads, tables, Pending
    <2>2. CASE pc'[r] = "reset_insert" /\ pc[r] = "reset_count"
      <3>1. ~AtCap
        BY <1>5, <2>2 DEF Reads
      <3> QED BY <1>1, <2>1, <2>2, <3>1, AccountsAssumption DEF AtCap, Room, TypeOK
    <2>3. CASE pc'[r] = "reset_insert" /\ pc[r] = "reset_evict"
      <3>1. Pending = {}
        BY <1>5, <2>3 DEF Reads
      <3> QED BY <2>1, <2>3, <3>1, FS_EmptySet, AccountsAssumption DEF Room, TypeOK
    <2>4. CASE pc'[r] = "reset_delete"
      <3>1. tok'[r] \in Pending
        BY <1>5, <2>4 DEF Reads
      <3>2. Cardinality(Pending \ {tok'[r]}) = Cardinality(Pending) - 1
        BY <1>1, <3>1, TokensFinite, FS_RemoveElement
      <3> QED BY <1>1, <2>1, <2>4, <3>2, AccountsAssumption DEF Room, PendingWithinCap, TypeOK
    <2> QED BY <1>5, <2>2, <2>3, <2>4 DEF Reads
  <1>6. CASE Writes(r)
    <2>1. pc[r] = "reset_delete" /\ pc'[r] = "reset_insert" /\ made' = made
          /\ token' = [token EXCEPT ![tok[r]] = "deleted"]
      BY <1>6 DEF Writes
    <2>2. Pending \ {tok[r]} \in SUBSET Tokens /\ Pending' \in SUBSET (Pending \ {tok[r]})
      BY <1>1, <2>1 DEF Pending, TypeOK
    <2>3. Room(Pending \ {tok[r]}) /\ racedInserts' = racedInserts
      BY <1>2, <1>3, <2>1 DEF CapInv, Inserting
    <2>4. Room(Pending)'
      BY <2>2, <2>3, RoomKept DEF Room
    <2> QED BY <2>1, <2>4
  <1> QED BY <1>4, <1>5, <1>6 DEF RequestStep, Ends, Starts, Advances

-----------------------------------------------------------------------------
(* Users without membership *)

LEMMA OrphanAfter ==
    ASSUME TypeOK, NoOrphanUser, Action, RequestStep, Observe
    PROVE  NoOrphanUser'
  <1> SUFFICES ASSUME user' = "created", ~seedDied'
               PROVE  \E r \in Requests : pc'[r] \in Seeding
    BY DEF NoOrphanUser
  <1>1. ASSUME NEW r \in Requests, SeedInsert(r), user = "none"
        PROVE  pc'[r] = "seed_role"
    BY <1>1 DEF SeedInsert, Goto, TypeOK
  <1>2. user = "created" \/ \E r \in Requests : pc'[r] = "seed_role"
    <2>1. CASE user' = user
      BY <2>1
    <2>2. CASE user' # user
      BY <1>1, <2>2 DEF Action, Start, register_user, bootstrap_seed_admin, login, change_password,
         password_reset_request, password_reset_confirm, Abandon, Expire, Step, Check, tables,
         create_and_add_to_org, SeedExists, SeedInsert, SeedRole, SeedMember, LoginFind,
         LoginRehash, LoginList, ChangeFind, ChangeUpdate, ResetFind, ResetCount, ResetEvict,
         ResetDelete, ResetInsert, ConfirmFind, ConfirmUpdate, consume, update_password_hash
    <2> QED BY <2>1, <2>2
  <1>3. ASSUME user = "created"
        PROVE  \E r \in Requests : pc'[r] \in Seeding
    <2>1. ~seedDied /\ \A r \in Requests : ~(pc[r] \in Seeding /\ pc'[r] = "idle")
      BY ZenonT(30) DEF Observe
    <2>2. PICK r \in Requests : pc[r] \in Seeding
      BY <1>3, <2>1 DEF NoOrphanUser
    <2> QED BY <2>1, <2>2 DEF RequestStep, Stays, Ends, Starts, Advances, Reads, Writes, Seeding
  <1> QED BY <1>2, <1>3 DEF Seeding

-----------------------------------------------------------------------------
(* The theorems *)

LEMMA InitInv == Init => IInv
  <1> SUFFICES ASSUME Init
               PROVE  IInv
    OBVIOUS
  <1>1. TypeOK
    <2>1. user \in {"none", "created", "member"} /\ hash \in Hashes
      BY DEF Init, Hashes
    <2>2. made \in 0..MaxTokens /\ racedInserts \in 0..MaxTokens /\ spent \subseteq Tokens
      BY AccountsAssumption DEF Init
    <2>3. token \in [Tokens -> TokenState] /\ pc \in [Requests -> Phase]
      BY DEF Init, TokenState, Phase
    <2> QED BY <2>1, <2>2, <2>3 DEF Init, TypeOK
  <1>2. TokenInv /\ CarryInv /\ ProofInv /\ CapInv
    BY DEF Init, TokenInv, CarryInv, ProofInv, CapInv, Confirming, Tokens
  <1>3. Pending = {}
    BY DEF Init, Pending
  <1>4. PendingWithinCap
    BY <1>3, FS_EmptySet, AccountsAssumption DEF PendingWithinCap, Init
  <1> QED BY <1>1, <1>2, <1>4 DEF IInv, NoOrphanUser, Init

LEMMA StepInv == IInv /\ [Next]_vars => IInv'
  <1>1. ASSUME IInv, UNCHANGED vars
        PROVE  IInv'
    BY <1>1 DEF IInv, vars, tables, request, history, TypeOK, TokenInv, CarryInv, ProofInv,
       PendingWithinCap, CapInv, Room, Pending, NoOrphanUser
  <1>2. ASSUME IInv, Next
        PROVE  IInv'
    <2>1. Action /\ Observe
      BY <1>2, NextIsAction
    <2>2. TableStep /\ RequestStep
      BY <1>2, <2>1, TablesOfStep, RequestsOfStep DEF IInv
    <2>3. TypeOK' /\ TokenInv' /\ CarryInv' /\ ProofInv'
      BY <1>2, <2>1, <2>2, TypeAfter, TokenAfter, CarryAfter, ProofAfter
    <2>4. PendingWithinCap' /\ CapInv'
      BY <1>2, <2>1, <2>2, CapAfter, RoomAfter
    <2>5. NoOrphanUser'
      BY <1>2, <2>1, <2>2, OrphanAfter DEF IInv
    <2> QED BY <2>3, <2>4, <2>5 DEF IInv
  <1> QED BY <1>1, <1>2

\* The inductive invariant holds in every state: what the steps of a request, each
\* committed on its own, have left behind is enough for its next statement.
THEOREM AccountsSafety == Spec => []IInv
  BY InitInv, StepInv, PTL DEF Spec

\* Every variable keeps its type: no statement leaves a token or a hash out of range.
THEOREM TypeOKHolds == Spec => []TypeOK
  <1>1. IInv => TypeOK
    BY DEF IInv
  <1> QED BY <1>1, AccountsSafety, PTL

\* password_reset_confirm that begins after another one with the same token has ended
\* does not get to its UPDATE, whatever is inserted, evicted or expires meanwhile.
THEOREM ResetTokenOnceHolds == Spec => []ResetTokenOnce
  <1>1. IInv => ResetTokenOnce
    BY DEF IInv, ProofInv, ResetTokenOnce, Confirming
  <1> QED BY <1>1, AccountsSafety, PTL

\* The count, the eviction and the INSERT of TokenRepositoryPg::insert keep the cap, up
\* to the tokens of requests that another INSERT overtook.
THEOREM PendingWithinCapHolds == Spec => []PendingWithinCap
  <1>1. IInv => PendingWithinCap
    BY DEF IInv
  <1> QED BY <1>1, AccountsSafety, PTL

\* A user without membership is there only while seed-admin runs or after it died
\* between its two INSERTs: register_user never leaves one.
THEOREM NoOrphanUserHolds == Spec => []NoOrphanUser
  <1>1. IInv => NoOrphanUser
    BY DEF IInv
  <1> QED BY <1>1, AccountsSafety, PTL

-----------------------------------------------------------------------------
(* Writes of the password *)

\* The statements that change the password of a user who is there.
LEMMA WriterOfPassword ==
    ASSUME TypeOK, Action, user # "none", hash' # hash
    PROVE  \E r \in Requests : /\ pc[r] \in {"change_update", "confirm_update", "login_rehash"}
                               /\ pc'[r] # pc[r]
                               /\ hash' = hash_password(want[r])
  <1>1. PICK r \in Requests : LoginRehash(r) \/ ChangeUpdate(r) \/ ConfirmUpdate(r)
    BY DEF Action, Start, register_user, bootstrap_seed_admin, login, change_password,
       password_reset_request, password_reset_confirm, Abandon, Expire, Step, Check, tables,
       create_and_add_to_org, SeedExists, SeedInsert, SeedRole, SeedMember, LoginFind, LoginList,
       ChangeFind, ResetFind, ResetCount, ResetEvict, ResetDelete, ResetInsert, ConfirmFind, consume
  <1>2. hash' = hash_password(want[r])
    BY <1>1 DEF LoginRehash, ChangeUpdate, ConfirmUpdate, update_password_hash, tables
  <1>3. pc[r] \in {"change_update", "confirm_update", "login_rehash"} /\ pc'[r] # pc[r]
    BY <1>1 DEF LoginRehash, ChangeUpdate, ConfirmUpdate, Goto, End, TypeOK
  <1> QED BY <1>2, <1>3

\* change_password, password_reset_confirm and the rehash of login write only with what
\* the request has shown since it began, in any interleaving of their statements.
THEOREM PasswordWritesProvenHolds == Spec => PasswordWritesProven
  <1>1. IInv /\ [Next]_vars =>
          [user # "none" /\ hash'.password # hash.password =>
             \E r \in Requests :
                 /\ pc'[r] # pc[r] /\ hash'.password = want[r]
                 /\ \/ pc[r] = "change_update" /\ current[r] \in known[r]
                    \/ pc[r] = "confirm_update" /\ live[r]
                    \/ pc[r] = "login_rehash" /\ want[r] \in known[r] /\ overtaken[r]]_vars
    <2> SUFFICES ASSUME IInv, Next, user # "none", hash'.password # hash.password
                 PROVE  \E r \in Requests :
                            /\ pc'[r] # pc[r] /\ hash'.password = want[r]
                            /\ \/ pc[r] = "change_update" /\ current[r] \in known[r]
                               \/ pc[r] = "confirm_update" /\ live[r]
                               \/ pc[r] = "login_rehash" /\ want[r] \in known[r] /\ overtaken[r]
      OBVIOUS
    <2>1. PICK r \in Requests : /\ pc[r] \in {"change_update", "confirm_update", "login_rehash"}
                                /\ pc'[r] # pc[r]
                                /\ hash' = hash_password(want[r])
      BY NextIsAction, WriterOfPassword DEF IInv
    <2>2. hash'.password = want[r]
      BY <2>1 DEF hash_password
    <2>3. pc[r] = "change_update" => current[r] \in known[r]
      BY DEF IInv, ProofInv
    <2>4. pc[r] = "confirm_update" => live[r]
      BY DEF IInv, ProofInv, Confirming
    <2>5. pc[r] = "login_rehash" => want[r] \in known[r] /\ overtaken[r]
      BY <2>2 DEF IInv, ProofInv, CarryInv
    <2> QED BY <2>1, <2>2, <2>3, <2>4, <2>5
  <1> QED BY <1>1, AccountsSafety, PTL DEF Spec, PasswordWritesProven
=============================================================================
