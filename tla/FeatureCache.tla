---------------------------- MODULE FeatureCache ----------------------------
(***************************************************************************)
(* Feature flags: the override row of one (organisation, slug) key in      *)
(* PostgreSQL, the TTL cache every node keeps of its effective value       *)
(* (PgFeatureEvaluator), and the request handlers that evaluate, set and   *)
(* clear the flag.  Keys do not interact, so one is enough.                *)
(*                                                                         *)
(* The value is the number of the write it comes from, so that a stale     *)
(* value can be told from a current one; whether a write left an override  *)
(* or removed it decides if evaluate also has to read the default.  The    *)
(* definition of the slug exists and never changes at run time.            *)
(***************************************************************************)
EXTENDS Integers

CONSTANTS Nodes,       \* server processes
          Calls,       \* request slots: each serves one request at a time
          Node,        \* [Calls -> Nodes]
          TTL,         \* ttl of PgFeatureEvaluator
          MaxVersion,  \* bound: number of writes
          MaxClock     \* bound: ticks

ASSUME FeatureAssumption ==
    /\ Node \in [Calls -> Nodes]
    /\ TTL \in Nat \ {0}
    /\ MaxVersion \in Nat
    /\ MaxClock \in Nat

VARIABLES
    clock,
    version,   \* the last committed write of the override row
    present,   \* whether that write left a row
    retired,   \* history: when each older version was superseded
    cached, expires,   \* the cache entry of each node: value, expires_at
    stage,     \* what a request is doing
    start,     \* `now` of evaluate
    got,       \* the version evaluate read, or set/clear wrote
    floor,     \* history: the newest write whose handler finished on the node
    need,      \* history: floor of the node when the request began
    raced      \* history: nodes where an invalidate met an older fill under way

dbVars == <<version, present, retired>>
cacheVars == <<cached, expires>>
requestVars == <<stage, start, got, need>>
flagVars == <<clock, dbVars, cacheVars, requestVars, floor, raced>>

Versions == 0..MaxVersion
Stage == {"idle", "lookup", "miss", "default", "fill", "done", "invalidate"}

FlagTypeOK ==
    /\ clock \in Nat
    /\ version \in Versions
    /\ present \in BOOLEAN
    /\ retired \in [Versions -> Nat]
    /\ cached \in [Nodes -> Versions]
    /\ expires \in [Nodes -> Nat]
    /\ stage \in [Calls -> Stage]
    /\ start \in [Calls -> Nat]
    /\ got \in [Calls -> Versions]
    /\ floor \in [Nodes -> Versions]
    /\ need \in [Calls -> Versions]
    /\ raced \subseteq Nodes

FlagInit ==
    /\ clock = 0
    /\ version = 0
    /\ present = FALSE
    /\ retired = [v \in Versions |-> 0]
    /\ cached = [n \in Nodes |-> 0]
    /\ expires = [n \in Nodes |-> 0]
    /\ stage = [r \in Calls |-> "idle"]
    /\ start = [r \in Calls |-> 0]
    /\ got = [r \in Calls |-> 0]
    /\ floor = [n \in Nodes |-> 0]
    /\ need = [r \in Calls |-> 0]
    /\ raced = {}

\* Mutant of Remove: the entry is backdated by a whole TTL instead.
Remove_Backdates(n) ==
    /\ expires' = [expires EXCEPT ![n] = clock - TTL]
    /\ UNCHANGED cached

\* Drop the cache entry of node n: like an expired one, it is never returned.
Remove(n) ==
    /\ cached' = [cached EXCEPT ![n] = 0]
    /\ expires' = [expires EXCEPT ![n] = 0]

Free(r) == stage[r] \in {"idle", "done"}

\* The requests R end; their locals are gone.
EndCalls(R) ==
    /\ stage' = [r \in Calls |-> IF r \in R THEN "idle" ELSE stage[r]]
    /\ start' = [r \in Calls |-> IF r \in R THEN 0 ELSE start[r]]
    /\ got' = [r \in Calls |-> IF r \in R THEN 0 ELSE got[r]]
    /\ need' = [r \in Calls |-> IF r \in R THEN 0 ELSE need[r]]

-----------------------------------------------------------------------------
(* evaluate *)

\* The clock is read before the cache lock is awaited.
BeginEvaluate(r) ==
    /\ Free(r)
    /\ stage' = [stage EXCEPT ![r] = "lookup"]
    /\ start' = [start EXCEPT ![r] = clock]
    /\ got' = [got EXCEPT ![r] = 0]
    /\ need' = [need EXCEPT ![r] = floor[Node[r]]]
    /\ UNCHANGED <<clock, dbVars, cacheVars, floor, raced>>

\* Under the read lock: an entry that outlives `now` is returned.
Lookup(r) ==
    /\ stage[r] = "lookup"
    /\ \/ /\ expires[Node[r]] > start[r]
          /\ got' = [got EXCEPT ![r] = cached[Node[r]]]
          /\ stage' = [stage EXCEPT ![r] = "done"]
       \/ /\ expires[Node[r]] =< start[r]
          /\ stage' = [stage EXCEPT ![r] = "miss"]
          /\ UNCHANGED got
    /\ UNCHANGED <<clock, dbVars, cacheVars, start, need, floor, raced>>

\* The first query.  Without an override the default is read by a second one.
get_override(r) ==
    /\ stage[r] = "miss"
    /\ got' = [got EXCEPT ![r] = version]
    /\ stage' = [stage EXCEPT ![r] = IF present THEN "fill" ELSE "default"]
    /\ UNCHANGED <<clock, dbVars, cacheVars, start, need, floor, raced>>

get_definition(r) ==
    /\ stage[r] = "default"
    /\ stage' = [stage EXCEPT ![r] = "fill"]
    /\ UNCHANGED <<clock, dbVars, cacheVars, start, got, need, floor, raced>>

\* Mutant of Fill: the entry lives from the insert on.
Fill_TtlFromNow(r) ==
    /\ stage[r] = "fill"
    /\ cached' = [cached EXCEPT ![Node[r]] = got[r]]
    /\ expires' = [expires EXCEPT ![Node[r]] = clock + TTL]
    /\ stage' = [stage EXCEPT ![r] = "done"]
    /\ UNCHANGED <<clock, dbVars, start, got, need, floor, raced>>

\* Under the write lock: whatever the cache holds by now is replaced; the
\* entry lives from the beginning of the call.
Fill(r) ==
    /\ stage[r] = "fill"
    /\ cached' = [cached EXCEPT ![Node[r]] = got[r]]
    /\ expires' = [expires EXCEPT ![Node[r]] = start[r] + TTL]
    /\ stage' = [stage EXCEPT ![r] = "done"]
    /\ UNCHANGED <<clock, dbVars, start, got, need, floor, raced>>

-----------------------------------------------------------------------------
(* set_org_feature and clear_org_feature *)

\* upsert_override or delete_override commits; deleting an absent row changes
\* nothing but is followed by the same invalidate.
Write(r, set) ==
    /\ Free(r)
    /\ set \/ present => version < MaxVersion
    /\ IF set \/ present
       THEN /\ version' = version + 1
            /\ retired' = [retired EXCEPT ![version] = clock]
       ELSE UNCHANGED <<version, retired>>
    /\ present' = set
    /\ got' = [got EXCEPT ![r] = version']
    /\ start' = [start EXCEPT ![r] = 0]
    /\ need' = [need EXCEPT ![r] = 0]
    /\ stage' = [stage EXCEPT ![r] = "invalidate"]
    /\ UNCHANGED <<clock, cacheVars, floor, raced>>

\* The checks of slug, value and self_service come first and change nothing; the
\* audit record comes last (see AuditTrail).
set_org_feature(r) == Write(r, TRUE)
clear_org_feature(r) == Write(r, FALSE)

\* Requests of the node that have read the row before the write but not yet
\* filled the cache.
OlderFill(r) ==
    \E q \in Calls : /\ Node[q] = Node[r]
                        /\ stage[q] \in {"default", "fill"}
                        /\ got[q] < got[r]

\* Mutant of invalidate: the entry stays.
invalidate_KeepsEntry(r) ==
    /\ stage[r] = "invalidate"
    /\ floor' = [floor EXCEPT ![Node[r]] = IF got[r] > @ THEN got[r] ELSE @]
    /\ raced' = IF OlderFill(r) THEN raced \cup {Node[r]} ELSE raced
    /\ EndCalls({r})
    /\ UNCHANGED <<clock, dbVars, cacheVars>>

\* The cache entry of the handler's own node is dropped, and the handler returns.
invalidate(r) ==
    /\ stage[r] = "invalidate"
    /\ Remove(Node[r])
    /\ floor' = [floor EXCEPT ![Node[r]] = IF got[r] > @ THEN got[r] ELSE @]
    /\ raced' = IF OlderFill(r) THEN raced \cup {Node[r]} ELSE raced
    /\ EndCalls({r})
    /\ UNCHANGED <<clock, dbVars>>

-----------------------------------------------------------------------------
(* The environment *)

\* A query fails, or the client goes away and the handler is dropped at an
\* await: between the write and the invalidate, too.
Abandon(r) ==
    /\ ~Free(r)
    /\ EndCalls({r})
    /\ UNCHANGED <<clock, dbVars, cacheVars, floor, raced>>

\* A node restarts with an empty cache.
Restart(n) ==
    /\ Remove(n)
    /\ EndCalls({r \in Calls : Node[r] = n})
    /\ UNCHANGED <<clock, dbVars, floor, raced>>

ClockTicks ==
    /\ clock < MaxClock
    /\ clock' = clock + 1
    /\ UNCHANGED <<dbVars, cacheVars, requestVars, floor, raced>>

FlagNext ==
    \/ \E r \in Calls : BeginEvaluate(r)
    \/ \E r \in Calls : Lookup(r)
    \/ \E r \in Calls : get_override(r)
    \/ \E r \in Calls : get_definition(r)
    \/ \E r \in Calls : Fill(r)
    \/ \E r \in Calls : set_org_feature(r)
    \/ \E r \in Calls : clear_org_feature(r)
    \/ \E r \in Calls : invalidate(r)
    \/ \E r \in Calls : Abandon(r)
    \/ \E n \in Nodes : Restart(n)
    \/ ClockTicks

FlagSpec == FlagInit /\ [][FlagNext]_flagVars

-----------------------------------------------------------------------------
(* What the evaluator guarantees *)

\* v was the effective value at some instant no earlier than t.
CurrentSince(v, t) == v = version \/ retired[v] >= t

\* Staleness is bounded by the TTL on every node, whatever races, dropped handlers
\* and remote writes happen: an evaluate that began at time s returns a value that
\* was still effective at some instant after s - TTL.
StalenessBounded ==
    \A r \in Calls :
        stage[r] = "done" => CurrentSince(got[r], start[r] - TTL + 1)

\* What the wiki promises: the invalidate of set_org_feature and clear_org_feature makes
\* the next evaluate on the same node see the new value, without waiting for the TTL.
\* Not so (run features_own_writes): an evaluate that missed the cache before the write
\* fills it with the old value after the invalidate.
NextEvaluateSeesWrite ==
    \A r \in Calls : stage[r] = "done" => got[r] >= need[r]

\* That raced fill is the only exception: an evaluate that begins on a node after a set
\* or clear finished there returns that write or a newer one, unless an invalidate on
\* the node met a fill that had read an older value.
SeesOwnNodeWritesUnlessRaced ==
    \A r \in Calls :
        stage[r] = "done" /\ Node[r] \notin raced => got[r] >= need[r]
=============================================================================
