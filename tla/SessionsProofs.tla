--------------------------- MODULE SessionsProofs ---------------------------
(***************************************************************************)
(* Safety of sessions, for any number of requests, organisations, sessions *)
(* and channels, any roles and any life of a token.                        *)
(***************************************************************************)
EXTENDS Sessions, TLAPS

(* The inductive invariant *)

\* A request past its beginning carries a token that has been issued.
CredInv ==
    \A r \in Requests : at[r] # "idle" => cred[r] \in 1..issued

\* An issued token is for an organisation.
IssuedInv ==
    \A s \in 1..issued : claims[s].org \in Orgs

\* Only issued tokens are logged out, and the row of a logout expires with its token.
RevokedInv ==
    \A s \in Sessions : revoked[s] # -1 => s <= issued /\ revoked[s] = 2 * claims[s].exp

\* A request acts with permissions the user had since it began.
PermsInv ==
    \A r \in Requests : at[r] = "handler" => perms[r] \subseteq granted[r]

IInv == TypeOK /\ CredInv /\ IssuedInv /\ RevokedInv /\ LogoutTakesEffect /\ PermsInv

-----------------------------------------------------------------------------
(* What the steps have in common *)

\* Everything but the history, which Observe adds.
Action ==
    \/ \E o \in Orgs, R \in Grants : SetRoles(o, R)
    \/ login
    \/ Tick
    \/ \E r \in Requests : Middleware(r) \/ Handler(r) \/ Leave(r)

LEMMA NextIsAction == Next => Action /\ Observe
  BY DEF Next, Action

\* A new token has a type, and it leaves the tokens issued before as they are.
LEMMA EncodeFacts ==
    ASSUME TypeOK, NEW o \in Orgs, encode_access_token(o)
    PROVE  /\ issued \in 0..MaxSessions /\ issued' = issued + 1 /\ issued' \in 0..MaxSessions
           /\ claims' \in [Sessions -> Claims]
           /\ \A s \in 1..issued : claims'[s] = claims[s]
           /\ claims'[issued'].org \in Orgs
           /\ UNCHANGED <<roles, revoked, channel>>
  <1>1. Seconds + ttl_secs \in 0..(MaxTime + ttl_secs)
    BY SessionsAssumption DEF TypeOK, Seconds
  <1>2. [org |-> o, exp |-> Seconds + ttl_secs] \in Claims
    BY <1>1 DEF Claims
  <1> QED BY <1>2, SessionsAssumption DEF TypeOK, encode_access_token, Sessions

\* The tables between two states: a token that has been issued stays as it is.
Kept ==
    /\ issued \in 0..MaxSessions /\ issued' \in 0..MaxSessions /\ issued <= issued'
    /\ claims' \in [Sessions -> Claims]
    /\ \A s \in 1..issued : claims'[s] = claims[s]
    /\ \A s \in 1..issued' : s \in 1..issued \/ claims'[s].org \in Orgs

\* How a step changes the tables: by roles, a token, a logout or a channel.
TableStep ==
    /\ Kept
    /\ now \in 0..MaxTime /\ now' \in 0..MaxTime /\ now <= now'
    /\ roles' \in [Orgs -> Grants]
    /\ \/ revoked' = revoked
       \/ \E r \in Requests : at[r] = "handler" /\ revoke(cred[r]) /\ UNCHANGED claims
    /\ channel' \in [Channels -> [org : Orgs, data : Data] \cup {NoChannel}]

LEMMA ChannelRows ==
    ASSUME TypeOK, NEW o \in Orgs, NEW c \in Channels, NEW d \in Data
    PROVE  /\ [channel EXCEPT ![c] = [org |-> o, data |-> d]]
                \in [Channels -> [org : Orgs, data : Data] \cup {NoChannel}]
           /\ update(o, c, d) \in [Channels -> [org : Orgs, data : Data] \cup {NoChannel}]
           /\ delete(o, c) \in [Channels -> [org : Orgs, data : Data] \cup {NoChannel}]
  <1>1. get(o, c) => channel[c] \in [org : Orgs, data : Data]
    BY SessionsAssumption DEF TypeOK, get, NoChannel
  <1>2. get(o, c) => [channel[c] EXCEPT !.data = d] \in [org : Orgs, data : Data]
    BY <1>1
  <1>3. get(o, c) => update(o, c, d) = [channel EXCEPT ![c] = [channel[c] EXCEPT !.data = d]]
    BY DEF update
  <1>4. update(o, c, d) \in [Channels -> [org : Orgs, data : Data] \cup {NoChannel}]
    BY <1>2, <1>3 DEF TypeOK, update
  <1> QED BY <1>4 DEF TypeOK, delete

LEMMA ChannelTables ==
    ASSUME TypeOK, NEW r \in Requests, NEW o \in Orgs,
           NEW table \in [Channels -> [org : Orgs, data : Data] \cup {NoChannel}],
           ChannelHandler(r, o, table)
    PROVE  TableStep
  <1>1. channel' \in [Channels -> [org : Orgs, data : Data] \cup {NoChannel}]
    BY DEF ChannelHandler, TypeOK
  <1> QED BY <1>1, SessionsAssumption DEF ChannelHandler, TypeOK, TableStep, Kept

LEMMA TablesOfStep ==
    ASSUME TypeOK, CredInv, Action
    PROVE  TableStep
  <1>1. CASE \E o \in Orgs, R \in Grants : SetRoles(o, R)
    BY <1>1, SessionsAssumption DEF SetRoles, TypeOK, TableStep, Kept
  <1>2. CASE login
    <2>1. PICK o \in Orgs : encode_access_token(o) /\ UNCHANGED now
      BY <1>2 DEF login
    <2> QED BY <2>1, EncodeFacts, SessionsAssumption DEF TypeOK, TableStep, Kept
  <1>3. CASE Tick
    BY <1>3, SessionsAssumption DEF Tick, tables, TypeOK, TableStep, Kept
  <1>4. ASSUME NEW r \in Requests, Middleware(r) \/ Leave(r)
        PROVE  TableStep
    <2>1. UNCHANGED <<tables, now>>
      BY <1>4 DEF Middleware, Leave, call, CheckRevocation, load
    <2> QED BY <2>1, SessionsAssumption DEF tables, TypeOK, TableStep, Kept
  <1>5. ASSUME NEW r \in Requests, Handler(r)
        PROVE  TableStep
    <2>1. CASE post_logout(r)
      BY <2>1, SessionsAssumption DEF post_logout, TypeOK, TableStep, Kept
    <2>2. ASSUME NEW o \in Orgs, post_switch_org(r, o)
          PROVE  TableStep
      <3>1. CASE encode_access_token(o) /\ UNCHANGED now
        BY <3>1, EncodeFacts, SessionsAssumption DEF TypeOK, TableStep, Kept
      <3>2. CASE UNCHANGED <<tables, now>>
        BY <3>2, SessionsAssumption DEF tables, TypeOK, TableStep, Kept
      <3> QED BY <2>2, <3>1, <3>2 DEF post_switch_org
    <2>3. ASSUME NEW o \in Orgs, NEW c \in Channels, NEW d \in Data,
                 post_create_channel(r, o, c, d) \/ put_update_channel(r, o, c, d)
          PROVE  TableStep
      BY <2>3, ChannelRows, ChannelTables DEF post_create_channel, put_update_channel
    <2>4. ASSUME NEW o \in Orgs, NEW c \in Channels, delete_channel(r, o, c)
          PROVE  TableStep
      <3>1. delete(o, c) \in [Channels -> [org : Orgs, data : Data] \cup {NoChannel}]
        BY DEF TypeOK, delete
      <3> QED BY <2>4, <3>1, ChannelTables DEF delete_channel
    <2>5. ASSUME NEW o \in Orgs, get_channel(r, o)
          PROVE  TableStep
      BY <2>5, ChannelTables DEF get_channel, TypeOK
    <2> QED BY <1>5, <2>1, <2>2, <2>3, <2>4, <2>5 DEF Handler
  <1> QED BY <1>1, <1>2, <1>3, <1>4, <1>5 DEF Action

-----------------------------------------------------------------------------
(* What a step does to one request *)

Stays(r) == at'[r] = at[r] /\ cred'[r] = cred[r] /\ perms'[r] = perms[r]

Ends(r) == at'[r] = "idle" /\ cred'[r] = NoSession /\ perms'[r] = {}

Begins(r) ==
    /\ at[r] = "idle" /\ at'[r] = "is_revoked"
    /\ cred'[r] \in 1..issued /\ perms'[r] = perms[r]

Passes(r) ==
    /\ at[r] = "is_revoked" /\ at'[r] = "load"
    /\ cred'[r] = cred[r] /\ perms'[r] = perms[r]
    /\ ~is_revoked(cred[r])
    /\ UNCHANGED <<tables, now>>

Loads(r) ==
    /\ at[r] = "load" /\ at'[r] = "handler"
    /\ cred'[r] = cred[r] /\ perms'[r] = roles[claims[cred[r]].org]
    /\ UNCHANGED <<tables, now>>

RequestStep ==
    /\ at' = [r \in Requests |-> at'[r]]
    /\ cred' = [r \in Requests |-> cred'[r]]
    /\ perms' = [r \in Requests |-> perms'[r]]
    /\ \A r \in Requests : Stays(r) \/ Ends(r) \/ Begins(r) \/ Passes(r) \/ Loads(r)

LEMMA RequestUnchanged ==
    ASSUME TypeOK, UNCHANGED request
    PROVE  RequestStep
  BY DEF TypeOK, request, RequestStep, Stays

LEMMA EndOfRequest ==
    ASSUME TypeOK, NEW r \in Requests, End(r)
    PROVE  RequestStep
  BY DEF TypeOK, End, RequestStep, Stays, Ends

LEMMA RequestsOfStep ==
    ASSUME TypeOK, Action
    PROVE  RequestStep
  <1>1. CASE \/ \E o \in Orgs, R \in Grants : SetRoles(o, R)
             \/ login
             \/ Tick
    <2>1. UNCHANGED request
      BY <1>1 DEF SetRoles, login, Tick, request
    <2> QED BY <2>1, RequestUnchanged
  <1>2. ASSUME NEW r \in Requests, Handler(r) \/ Leave(r)
        PROVE  RequestStep
    <2>1. End(r)
      BY <1>2 DEF Handler, Leave, post_logout, post_switch_org, post_create_channel,
                  put_update_channel, get_channel, delete_channel, ChannelHandler
    <2> QED BY <2>1, EndOfRequest
  <1>3. ASSUME NEW r \in Requests, NEW s \in Sessions, call(r, s)
        PROVE  RequestStep
    <2>1. s \in 1..issued
      BY <1>3 DEF call, decode_access_token, Sessions, TypeOK
    <2> QED BY <1>3, <2>1 DEF TypeOK, call, RequestStep, Stays, Begins
  <1>4. ASSUME NEW r \in Requests, CheckRevocation(r)
        PROVE  RequestStep
    <2>1. CASE End(r)
      BY <2>1, EndOfRequest
    <2>2. CASE ~is_revoked(cred[r]) /\ Goto(r, "load")
      BY <1>4, <2>2 DEF TypeOK, CheckRevocation, Goto, RequestStep, Stays, Passes
    <2> QED BY <1>4, <2>1, <2>2 DEF CheckRevocation
  <1>5. ASSUME NEW r \in Requests, load(r)
        PROVE  RequestStep
    BY <1>5 DEF TypeOK, load, RequestStep, Stays, Loads
  <1> QED BY <1>1, <1>2, <1>3, <1>4, <1>5 DEF Action, Middleware

-----------------------------------------------------------------------------
(* Every step keeps the invariant *)

\* The token of a request is an issued one also after the step, and for an organisation.
LEMMA CredAfter ==
    ASSUME TypeOK, CredInv, IssuedInv, TableStep, RequestStep
    PROVE  CredInv' /\ IssuedInv'
  <1>1. IssuedInv'
    BY DEF IssuedInv, TableStep, Kept
  <1>2. ASSUME NEW r \in Requests, at'[r] # "idle"
        PROVE  cred'[r] \in 1..issued'
    <2>1. cred'[r] \in 1..issued
      BY <1>2 DEF CredInv, RequestStep, Stays, Ends, Begins, Passes, Loads
    <2> QED BY <2>1, SessionsAssumption DEF TableStep, Kept
  <1> QED BY <1>1, <1>2 DEF CredInv

LEMMA RevokedAfter ==
    ASSUME TypeOK, CredInv, RevokedInv, TableStep
    PROVE  /\ RevokedInv'
           /\ revoked' \in [Sessions -> -1..(2 * (MaxTime + ttl_secs))]
           /\ \A s \in Sessions : revoked'[s] = -1 => revoked[s] = -1
  <1>1. CASE revoked' = revoked
    BY <1>1, SessionsAssumption DEF RevokedInv, TableStep, Kept, TypeOK, Sessions
  <1>2. ASSUME NEW r \in Requests, at[r] = "handler", revoke(cred[r]), UNCHANGED claims
        PROVE  /\ RevokedInv'
               /\ revoked' \in [Sessions -> -1..(2 * (MaxTime + ttl_secs))]
               /\ \A s \in Sessions : revoked'[s] = -1 => revoked[s] = -1
    <2> DEFINE e == 2 * claims[cred[r]].exp
    <2>1. cred[r] \in 1..issued /\ cred[r] \in Sessions
      BY <1>2, SessionsAssumption DEF CredInv, TypeOK, Sessions
    <2>2. claims[cred[r]] \in Claims
      BY <2>1 DEF TypeOK
    <2>3. e \in 0..(2 * (MaxTime + ttl_secs))
      BY <2>2, SessionsAssumption DEF Claims
    <2>4. revoked' = [revoked EXCEPT ![cred[r]] = IF @ = -1 THEN e ELSE @]
      BY <1>2 DEF revoke
    <2>5. revoked' \in [Sessions -> -1..(2 * (MaxTime + ttl_secs))]
      BY <2>1, <2>3, <2>4, SessionsAssumption DEF TypeOK
    <2>6. \A s \in Sessions : revoked'[s] = -1 => revoked[s] = -1
      BY <2>1, <2>3, <2>4, SessionsAssumption DEF TypeOK
    <2>7. RevokedInv'
      <3> SUFFICES ASSUME NEW s \in Sessions, revoked'[s] # -1
                   PROVE  s <= issued' /\ revoked'[s] = 2 * claims'[s].exp
        BY DEF RevokedInv
      <3>1. s <= issued /\ revoked'[s] = 2 * claims[s].exp
        BY <2>1, <2>4 DEF RevokedInv, TypeOK
      <3> QED BY <3>1, <1>2, SessionsAssumption DEF TableStep, Kept, Sessions
    <2> QED BY <2>5, <2>6, <2>7
  <1> QED BY <1>1, <1>2 DEF TableStep

LEMMA TypeAfter ==
    ASSUME IInv, TableStep, RequestStep, Observe
    PROVE  TypeOK'
  <1> USE DEF IInv
  <1>1. CredInv' /\ IssuedInv'
    BY CredAfter
  <1>2. revoked' \in [Sessions -> -1..(2 * (MaxTime + ttl_secs))]
    BY RevokedAfter
  <1>3. \A r \in Requests : at'[r] # "idle" => /\ cred'[r] \in Sessions
                                              /\ claims'[cred'[r]].org \in Orgs
    BY <1>1, SessionsAssumption DEF CredInv, IssuedInv, Sessions, TableStep, Kept
  <1>4. \A o \in Orgs : roles[o] \in SUBSET Perms /\ roles'[o] \in SUBSET Perms
    BY SessionsAssumption DEF TypeOK, TableStep
  <1>5. at' \in [Requests -> Place]
    BY DEF RequestStep, TypeOK, Stays, Ends, Begins, Passes, Loads, Place
  <1>6. cred' \in [Requests -> Sessions \cup {NoSession}]
    BY <1>3 DEF RequestStep, TypeOK, Stays, Ends, Begins, Passes, Loads, Place
  <1>7. perms' \in [Requests -> SUBSET Perms]
    <2>1. \A r \in Requests : Loads(r) => perms'[r] \in SUBSET Perms
      BY <1>3, <1>4 DEF Loads, tables
    <2> QED BY <2>1 DEF RequestStep, TypeOK, Stays, Ends, Begins, Passes
  <1>8. granted' \in [Requests -> SUBSET Perms]
    BY <1>3, <1>4 DEF Observe, TypeOK
  <1>9. unrevoked' \in [Requests -> BOOLEAN]
    BY ZenonT(30) DEF Observe
  <1> QED BY <1>2, <1>5, <1>6, <1>7, <1>8, <1>9 DEF TypeOK, TableStep, Kept

LEMMA LogoutAfter ==
    ASSUME IInv, TableStep, RequestStep, Observe
    PROVE  LogoutTakesEffect'
  <1> USE DEF IInv
  <1> SUFFICES ASSUME NEW r \in Requests, at'[r] \in {"load", "handler"}
               PROVE  unrevoked'[r] \/ now' >= 2 * claims'[cred'[r]].exp
    BY DEF LogoutTakesEffect
  <1>1. cred'[r] = cred[r] /\ at[r] # "idle"
    BY DEF RequestStep, Stays, Ends, Begins, Passes, Loads
  <1>2. cred[r] \in 1..issued /\ cred[r] \in Sessions
    BY <1>1, SessionsAssumption DEF CredInv, TypeOK, Sessions
  <1>3. claims'[cred[r]] = claims[cred[r]] /\ claims[cred[r]].exp \in Nat
    BY <1>2, SessionsAssumption DEF TableStep, Kept, TypeOK, Claims
  <1>4. unrevoked'[r] <=> unrevoked[r] \/ revoked'[cred[r]] = -1
    BY <1>1 DEF Observe
  <1>5. CASE at[r] \in {"load", "handler"}
    <2>1. unrevoked[r] \/ now >= 2 * claims[cred[r]].exp
      BY <1>5 DEF LogoutTakesEffect
    <2> QED BY <1>1, <1>3, <1>4, <2>1, SessionsAssumption DEF TableStep
  <1>6. CASE Passes(r)
    <2>1. ~(revoked[cred[r]] > now) /\ revoked' = revoked /\ now' = now
      BY <1>6 DEF Passes, is_revoked, tables
    <2>2. revoked[cred[r]] = -1 \/ revoked[cred[r]] = 2 * claims[cred[r]].exp
      BY <1>2 DEF RevokedInv
    <2> QED BY <1>1, <1>3, <1>4, <2>1, <2>2, SessionsAssumption DEF TypeOK
  <1> QED BY <1>5, <1>6 DEF RequestStep, Stays, Ends, Begins, Loads

LEMMA PermsAfter ==
    ASSUME IInv, TableStep, RequestStep, Observe
    PROVE  PermsInv'
  <1> USE DEF IInv
  <1> SUFFICES ASSUME NEW r \in Requests, at'[r] = "handler"
               PROVE  perms'[r] \subseteq granted'[r]
    BY DEF PermsInv
  <1>1. granted'[r] = granted[r] \cup roles'[claims'[cred'[r]].org]
    BY DEF Observe
  <1>2. CASE Stays(r)
    BY <1>1, <1>2 DEF Stays, PermsInv
  <1>3. CASE Loads(r)
    BY <1>1, <1>3 DEF Loads, tables
  <1> QED BY <1>2, <1>3 DEF RequestStep, Ends, Begins, Passes

LEMMA InitInv == Init => IInv
  BY SessionsAssumption DEF Init, IInv, TypeOK, CredInv, IssuedInv, RevokedInv,
     LogoutTakesEffect, PermsInv, Place, Claims, Sessions, NoSession, NoChannel, Perms

LEMMA StepInv == IInv /\ [Next]_vars => IInv'
  <1>1. CASE UNCHANGED vars
    BY <1>1 DEF IInv, vars, tables, request, history, TypeOK, CredInv, IssuedInv,
       RevokedInv, LogoutTakesEffect, PermsInv
  <1>2. ASSUME IInv, Next
        PROVE  IInv'
    <2>1. Action /\ Observe
      BY <1>2, NextIsAction
    <2>2. TableStep /\ RequestStep
      BY <1>2, <2>1, TablesOfStep, RequestsOfStep DEF IInv
    <2>3. CredInv' /\ IssuedInv' /\ RevokedInv'
      BY <1>2, <2>2, CredAfter, RevokedAfter DEF IInv
    <2>4. TypeOK' /\ LogoutTakesEffect' /\ PermsInv'
      BY <1>2, <2>1, <2>2, TypeAfter, LogoutAfter, PermsAfter
    <2> QED BY <2>3, <2>4 DEF IInv
  <1> QED BY <1>1, <1>2

\* The inductive invariant holds in every state.
THEOREM SessionsSafety == Spec => []IInv
  BY InitInv, StepInv, PTL DEF Spec

\* Every variable keeps its type: expiry times and rows of logouts stay in range.
THEOREM TypeOKHolds == Spec => []TypeOK
  <1>1. IInv => TypeOK
    BY DEF IInv
  <1> QED BY <1>1, SessionsSafety, PTL

\* A request passes the middleware only with a token that was not logged out since the
\* request began, or in the last second of the token.
THEOREM LogoutHolds == Spec => []LogoutTakesEffect
  <1>1. IInv => LogoutTakesEffect
    BY DEF IInv
  <1> QED BY <1>1, SessionsSafety, PTL

-----------------------------------------------------------------------------
(* Channels *)

\* What request r may do to channel c.
Entitled(r, c) ==
    /\ at[r] = "handler" /\ at'[r] = "idle"
    /\ accepts(granted[r])
    /\ \/ TenantsManageAll \in granted[r]
       \/ {channel[c].org, channel'[c].org} \subseteq {NoOrg, claims[cred[r]].org}

\* A table that differs from the rows at c only there, and by rows of organisation o.
OnlyOrg(table, o) ==
    \A c \in Channels : table[c] # channel[c] =>
        {channel[c].org, table[c].org} \subseteq {NoOrg, o}

LEMMA StatementsOfOneOrg ==
    ASSUME TypeOK, NEW o \in Orgs, NEW c \in Channels, NEW d \in Data
    PROVE  /\ channel[c] = NoChannel => OnlyOrg([channel EXCEPT ![c] = [org |-> o, data |-> d]], o)
           /\ OnlyOrg(update(o, c, d), o)
           /\ OnlyOrg(channel, o)
  <1>1. channel[c] = NoChannel => OnlyOrg([channel EXCEPT ![c] = [org |-> o, data |-> d]], o)
    BY DEF TypeOK, OnlyOrg, NoChannel
  <1>2. get(o, c) => channel[c] \in [org : Orgs, data : Data]
    BY SessionsAssumption DEF TypeOK, get, NoChannel
  <1>3. get(o, c) => [channel[c] EXCEPT !.data = d].org = o
    BY <1>2 DEF get
  <1>4. get(o, c) => update(o, c, d) = [channel EXCEPT ![c] = [channel[c] EXCEPT !.data = d]]
    BY DEF update
  <1>5. OnlyOrg(update(o, c, d), o)
    BY <1>3, <1>4 DEF TypeOK, OnlyOrg, update, get
  <1> QED BY <1>1, <1>5 DEF OnlyOrg

LEMMA DeletesOfOneOrg ==
    ASSUME TypeOK, NEW o \in Orgs, NEW c \in Channels
    PROVE  OnlyOrg(delete(o, c), o)
  BY DEF TypeOK, OnlyOrg, delete, get, NoChannel

LEMMA HandlerEntitled ==
    ASSUME IInv, NEW r \in Requests, NEW o \in Orgs, NEW table,
           ChannelHandler(r, o, table), OnlyOrg(table, o),
           NEW c \in Channels, channel'[c] # channel[c]
    PROVE  Entitled(r, c)
  <1>1. /\ at[r] = "handler" /\ at'[r] = "idle"
        /\ accepts(perms[r]) /\ InScope(r, o) /\ channel' = table
    BY DEF ChannelHandler, End, IInv, TypeOK
  <1>2. perms[r] \subseteq granted[r]
    BY <1>1 DEF IInv, PermsInv
  <1>3. accepts(granted[r])
    BY <1>1, <1>2 DEF accepts, is_operator_over_tenants
  <1>4. TenantsManageAll \in granted[r] \/ claims[cred[r]].org = o
    BY <1>1, <1>2 DEF InScope, is_operator_over_tenants
  <1> QED BY <1>1, <1>3, <1>4 DEF Entitled, OnlyOrg

\* Channels are created, changed and deleted only within the rights the user had during
\* the request, whatever happens to roles and sessions meanwhile.
THEOREM ActsWithinRightsHolds == Spec => ActsWithinRights
  <1>1. IInv /\ [Next]_vars =>
          [\A c \in Channels : channel'[c] # channel[c] =>
             \E r \in Requests :
                 /\ at[r] = "handler" /\ at'[r] = "idle"
                 /\ accepts(granted[r])
                 /\ \/ TenantsManageAll \in granted[r]
                    \/ {channel[c].org, channel'[c].org} \subseteq {NoOrg, claims[cred[r]].org}]_vars
    <2> SUFFICES ASSUME IInv, Next, NEW c \in Channels, channel'[c] # channel[c]
                 PROVE  \E r \in Requests : Entitled(r, c)
      BY DEF Entitled
    <2>1. Action /\ TypeOK
      BY NextIsAction DEF IInv
    <2>2. PICK r \in Requests : Handler(r)
      BY <2>1 DEF Action, SetRoles, login, encode_access_token, Tick, tables, Middleware, call,
                  CheckRevocation, load, Leave
    <2>3. CASE post_logout(r) \/ \E o \in Orgs : post_switch_org(r, o)
      BY <2>3 DEF post_logout, post_switch_org, encode_access_token, tables
    <2>4. ASSUME NEW o \in Orgs, NEW k \in Channels, NEW d \in Data,
                 post_create_channel(r, o, k, d) \/ put_update_channel(r, o, k, d)
          PROVE  Entitled(r, c)
      BY <2>1, <2>4, StatementsOfOneOrg, HandlerEntitled DEF post_create_channel, put_update_channel
    <2>5. ASSUME NEW o \in Orgs, NEW k \in Channels, delete_channel(r, o, k) \/ get_channel(r, o)
          PROVE  Entitled(r, c)
      <3>1. OnlyOrg(channel, o) /\ OnlyOrg(delete(o, k), o)
        BY <2>1, DeletesOfOneOrg DEF OnlyOrg
      <3> QED BY <2>5, <3>1, HandlerEntitled DEF delete_channel, get_channel
    <2> QED BY <2>2, <2>3, <2>4, <2>5 DEF Handler
  <1> QED BY <1>1, SessionsSafety, PTL DEF Spec, ActsWithinRights
=============================================================================
