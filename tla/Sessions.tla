------------------------------ MODULE Sessions ------------------------------
(***************************************************************************)
(* The sessions of one user and the requests made with them: a session is  *)
(* an access token (auth/jwt.rs) issued by login or switch_org for one     *)
(* organisation; every request passes the middleware (auth/middleware.rs), *)
(* which checks expiry and logout and loads the permissions the user has   *)
(* in that organisation, and then its handler, which ends the session,     *)
(* switches the organisation, or works on the inbound channels of an       *)
(* organisation (security/interface.rs, tenants/interface.rs).             *)
(*                                                                         *)
(* The check of the logout, the loading of permissions and the statement   *)
(* of the handler are separate: the session may be logged out and the      *)
(* user's roles may change between any two of them.                        *)
(*                                                                         *)
(* Time is counted in half seconds, because the expiry of a token is       *)
(* compared in whole seconds and that of its logout exactly.  Left out:    *)
(* audit records, the index that refuses a second channel of one name, and *)
(* what Accounts and Membership model of login and roles.                  *)
(***************************************************************************)
EXTENDS Integers

CONSTANTS Requests,     \* slots, each serving one request at a time
          Orgs,
          NoOrg,
          Grants,       \* permissions the roles of the user can grant in one
                        \* organisation; {} stands for no membership
          ttl_secs,     \* life of a token, in seconds
          MaxSessions,  \* bound on the number of tokens issued
          Channels,     \* ids of channels
          Data,         \* what a channel holds: name, description, type, activity
          MaxTime       \* bound on the clock

ChannelsManage == "channels.manage"
TenantsManageAll == "tenants.manage_all"
TenantsMembersList == "tenants.members.list"
Perms == {ChannelsManage, TenantsManageAll, TenantsMembersList}

Sessions == 1..MaxSessions
NoSession == 0
NoChannel == [org |-> NoOrg, data |-> NoOrg]

ASSUME SessionsAssumption ==
    /\ NoOrg \notin Orgs
    /\ Grants \subseteq SUBSET Perms /\ {} \in Grants
    /\ ttl_secs \in Nat /\ MaxSessions \in Nat /\ MaxTime \in Nat

VARIABLES
    now,       \* the clock, in half seconds
    roles,     \* permissions of the user in an organisation
    issued,    \* number of tokens issued so far
    claims,    \* the organisation and the expiry (in seconds) of a token
    revoked,   \* revoked_tokens: expires_at of its row, in half seconds, or -1
    channel,   \* inbound_channels: the rows, NoChannel where there is none
    at,        \* where a request is
    cred,      \* the token it carries
    perms,     \* the PermissionSet of the request
    unrevoked, \* history: its token was not logged out at some time since it began
    granted    \* history: permissions of the user in the token's organisation since then

tables == <<roles, issued, claims, revoked, channel>>
request == <<at, cred, perms>>
history == <<unrevoked, granted>>
vars == <<now, tables, request, history>>

Place == {"idle", "is_revoked", "load", "handler"}
Claims == [org : Orgs \cup {NoOrg}, exp : 0..(MaxTime + ttl_secs)]

TypeOK ==
    /\ now \in 0..MaxTime
    /\ roles \in [Orgs -> Grants]
    /\ issued \in 0..MaxSessions
    /\ claims \in [Sessions -> Claims]
    /\ revoked \in [Sessions -> -1..(2 * (MaxTime + ttl_secs))]
    /\ channel \in [Channels -> [org : Orgs, data : Data] \cup {NoChannel}]
    /\ at \in [Requests -> Place]
    /\ cred \in [Requests -> Sessions \cup {NoSession}]
    /\ perms \in [Requests -> SUBSET Perms]
    /\ unrevoked \in [Requests -> BOOLEAN]
    /\ granted \in [Requests -> SUBSET Perms]

Init ==
    /\ now = 0
    /\ roles = [o \in Orgs |-> {}]
    /\ issued = 0
    /\ claims = [s \in Sessions |-> [org |-> NoOrg, exp |-> 0]]
    /\ revoked = [s \in Sessions |-> -1]
    /\ channel = [c \in Channels |-> NoChannel]
    /\ at = [r \in Requests |-> "idle"]
    /\ cred = [r \in Requests |-> NoSession]
    /\ perms = [r \in Requests |-> {}]
    /\ unrevoked = [r \in Requests |-> FALSE]
    /\ granted = [r \in Requests |-> {}]

-----------------------------------------------------------------------------
\* The clock of a process, in whole seconds.
Seconds == now \div 2

IsMember(o) == roles[o] # {}

\* Mutant of encode_access_token: the life of the token is added in milliseconds.
encode_access_token_Millis(o) ==
    /\ issued < MaxSessions
    /\ issued' = issued + 1
    /\ claims' = [claims EXCEPT ![issued + 1] = [org |-> o, exp |-> Seconds + 1000 * ttl_secs]]
    /\ UNCHANGED <<roles, revoked, channel>>

encode_access_token(o) ==
    /\ issued < MaxSessions
    /\ issued' = issued + 1
    /\ claims' = [claims EXCEPT ![issued + 1] = [org |-> o, exp |-> Seconds + ttl_secs]]
    /\ UNCHANGED <<roles, revoked, channel>>

\* The token is one of ours and its last second is not over.
decode_access_token(s) == s <= issued /\ claims[s].exp >= Seconds

Goto(r, p) ==
    /\ at' = [at EXCEPT ![r] = p]
    /\ UNCHANGED <<cred, perms>>

\* The request is over: answered, refused or failed.
End(r) ==
    /\ at' = [at EXCEPT ![r] = "idle"]
    /\ cred' = [cred EXCEPT ![r] = NoSession]
    /\ perms' = [perms EXCEPT ![r] = {}]

-----------------------------------------------------------------------------
(* Around the requests *)

\* The roles of the user in an organisation are changed, the first is given or the last
\* is taken away.
SetRoles(o, R) ==
    /\ roles' = [roles EXCEPT ![o] = R]
    /\ UNCHANGED <<issued, claims, revoked, channel, request, now>>

\* A verified login: a token for one of the organisations of the user, NoOrganisation
\* if there is none.
login ==
    /\ \E o \in Orgs : IsMember(o) /\ encode_access_token(o)
    /\ UNCHANGED <<request, now>>

Tick ==
    /\ now < MaxTime
    /\ now' = now + 1
    /\ UNCHANGED <<tables, request>>

-----------------------------------------------------------------------------
(* The middleware *)

\* A request arrives and its token is decoded; one that is not valid is answered
\* invalid_token at once and leaves no trace.
call(r, s) ==
    /\ at[r] = "idle"
    /\ decode_access_token(s)
    /\ at' = [at EXCEPT ![r] = "is_revoked"]
    /\ cred' = [cred EXCEPT ![r] = s]
    /\ UNCHANGED <<perms, tables, now>>

\* A row that has not expired.
is_revoked(s) == revoked[s] > now

CheckRevocation(r) ==
    /\ at[r] = "is_revoked"
    /\ \/ ~is_revoked(cred[r]) /\ Goto(r, "load")
       \/ is_revoked(cred[r]) /\ End(r)
    /\ UNCHANGED <<tables, now>>

\* Mutant of load: the permissions of the user in every organisation.
load_AllOrgs(r) ==
    /\ at[r] = "load"
    /\ at' = [at EXCEPT ![r] = "handler"]
    /\ perms' = [perms EXCEPT ![r] = UNION {roles[o] : o \in Orgs}]
    /\ UNCHANGED <<cred, tables, now>>

\* The permissions of the user in the organisation of the token.
load(r) ==
    /\ at[r] = "load"
    /\ at' = [at EXCEPT ![r] = "handler"]
    /\ perms' = [perms EXCEPT ![r] = roles[claims[cred[r]].org]]
    /\ UNCHANGED <<cred, tables, now>>

-----------------------------------------------------------------------------
(* Handlers: what they are given is checked without a pause, then the statement runs *)

\* Mutant of revoke: the row expires at once.
revoke_ExpiresNow(s) == revoked' = [revoked EXCEPT ![s] = IF @ = -1 THEN now ELSE @]

\* INSERT ... ON CONFLICT DO NOTHING of a row that expires when the token does.
revoke(s) ==
    revoked' = [revoked EXCEPT ![s] = IF @ = -1 THEN 2 * claims[s].exp ELSE @]

post_logout(r) ==
    /\ at[r] = "handler"
    /\ revoke(cred[r])
    /\ End(r)
    /\ UNCHANGED <<roles, issued, claims, channel, now>>

\* is_member and the new token, or 403; the old token stays valid.
post_switch_org(r, o) ==
    /\ at[r] = "handler"
    /\ \/ IsMember(o) /\ encode_access_token(o)
       \/ ~IsMember(o) /\ UNCHANGED tables
    /\ End(r)
    /\ UNCHANGED now

is_operator_over_tenants(P) == TenantsManageAll \in P

\* Perm<ChannelsManage>.
accepts(P) == ChannelsManage \in P \/ is_operator_over_tenants(P)

\* The organisation of the token, or any for operators.
InScope(r, o) == is_operator_over_tenants(perms[r]) \/ claims[cred[r]].org = o

\* What the handlers of channels have in common: 403, 404, or the statement, after
\* which the rows are those of table.
ChannelHandler(r, o, table) ==
    /\ at[r] = "handler"
    /\ \/ accepts(perms[r]) /\ InScope(r, o) /\ channel' = table
       \/ ~(accepts(perms[r]) /\ InScope(r, o)) /\ UNCHANGED channel
    /\ End(r)
    /\ UNCHANGED <<roles, issued, claims, revoked, now>>

\* The statements say which organisation they mean: a channel of another one is not
\* found, and neither is one that has been deleted.
get(o, c) == channel[c].org = o

update(o, c, d) == IF get(o, c) THEN [channel EXCEPT ![c].data = d] ELSE channel

delete(o, c) == IF get(o, c) THEN [channel EXCEPT ![c] = NoChannel] ELSE channel

\* The id of a new channel is one that is not in use.
post_create_channel(r, o, c, d) ==
    /\ channel[c] = NoChannel
    /\ ChannelHandler(r, o, [channel EXCEPT ![c] = [org |-> o, data |-> d]])

get_channel(r, o) == ChannelHandler(r, o, channel)

put_update_channel(r, o, c, d) == ChannelHandler(r, o, update(o, c, d))

delete_channel(r, o, c) == ChannelHandler(r, o, delete(o, c))

\* An error is answered at any await, or the client leaves.
Leave(r) == at[r] # "idle" /\ End(r) /\ UNCHANGED <<tables, now>>

-----------------------------------------------------------------------------
Middleware(r) ==
    \/ \E s \in Sessions : call(r, s)
    \/ CheckRevocation(r) \/ load(r)

Handler(r) ==
    \/ post_logout(r)
    \/ \E o \in Orgs : post_switch_org(r, o)
    \/ \E o \in Orgs, c \in Channels :
         \/ \E d \in Data : post_create_channel(r, o, c, d) \/ put_update_channel(r, o, c, d)
         \/ get_channel(r, o) \/ delete_channel(r, o, c)

\* What the properties remember of a request, since it began.
Observe ==
    /\ unrevoked' = [r \in Requests |->
                       /\ at'[r] # "idle"
                       /\ unrevoked[r] \/ revoked'[cred'[r]] = -1]
    /\ granted' = [r \in Requests |->
                     IF at'[r] = "idle" THEN {}
                     ELSE granted[r] \cup roles'[claims'[cred'[r]].org]]

Next ==
    /\ \/ \E o \in Orgs, R \in Grants : SetRoles(o, R)
       \/ login
       \/ Tick
       \/ \E r \in Requests : Middleware(r)
       \/ \E r \in Requests : Handler(r)
       \/ \E r \in Requests : Leave(r)
    /\ Observe

Spec == Init /\ [][Next]_vars

-----------------------------------------------------------------------------
\* Logout takes effect: a request passes the middleware only if its token was not
\* logged out at some time since the request began, or is in its last second, when
\* the row of the logout has expired and the token has not.  The exception is what the
\* code does and not what the wiki says: that later requests with the token receive
\* 401, and that no token is valid after expires_at of its row.
LogoutTakesEffect ==
    \A r \in Requests : at[r] \in {"load", "handler"} =>
        unrevoked[r] \/ now >= 2 * claims[cred[r]].exp

\* The channels of an organisation are created, changed and deleted only by requests of
\* a user who, in the organisation of the token, had the permission at some time since
\* the request began, and who was an operator there if the organisation is another.
ActsWithinRights ==
    [][\A c \in Channels : channel'[c] # channel[c] =>
         \E r \in Requests :
             /\ at[r] = "handler" /\ at'[r] = "idle"
             /\ accepts(granted[r])
             /\ \/ TenantsManageAll \in granted[r]
                \/ {channel[c].org, channel'[c].org} \subseteq {NoOrg, claims[cred[r]].org}]_vars
=============================================================================
