-------------------------- MODULE FeatureCacheProofs --------------------------
(***************************************************************************)
(* Proofs, for any number of nodes, requests and writes and any TTL, of    *)
(* the two guarantees of the feature cache.  The inductive invariant says, *)
(* request by request and node by node, how old the value under way, the   *)
(* cached value and the returned value can be.                             *)
(***************************************************************************)
EXTENDS FeatureCache, TLAPS

\* A value on its way into the cache was current when its call began or later, a
\* returned one after start - TTL; and both are no older than the finished writes
\* of the node, unless an invalidate raced with an older fill.
RequestOK(r) ==
    /\ start[r] =< clock
    /\ stage[r] \in {"default", "fill"} => CurrentSince(got[r], start[r])
    /\ stage[r] = "done" => CurrentSince(got[r], start[r] - TTL + 1)
    /\ stage[r] = "invalidate" => got[r] =< version
    /\ stage[r] \in {"lookup", "miss", "default", "fill"} => need[r] =< floor[Node[r]]
    /\ stage[r] \in {"default", "fill"} /\ Node[r] \notin raced =>
         got[r] >= floor[Node[r]]
    /\ stage[r] = "done" /\ Node[r] \notin raced => got[r] >= need[r]

\* A cached value was current at expires - TTL or later, and is no older than the
\* finished writes of the node, unless raced.
NodeOK(n) ==
    /\ expires[n] =< clock + TTL
    /\ expires[n] > 0 => CurrentSince(cached[n], expires[n] - TTL)
    /\ floor[n] =< version
    /\ expires[n] > 0 /\ n \notin raced => cached[n] >= floor[n]

IInv ==
    /\ FlagTypeOK
    /\ \A r \in Calls : RequestOK(r)
    /\ \A n \in Nodes : NodeOK(n)

USE FeatureAssumption DEF Stage, Free, dbVars, cacheVars, requestVars, flagVars

LEMMA VersionsNat == Versions \subseteq Nat /\ 0 \in Versions
  BY DEF Versions

\* What a request knows depends on its own variables, the row, the clock and the
\* history of its node; what a node's entry is worth, on the entry and the same.
LEMMA RequestFrame ==
    ASSUME NEW q \in Calls, RequestOK(q),
           UNCHANGED <<clock, version, retired, floor, raced>>,
           stage'[q] = stage[q], start'[q] = start[q],
           got'[q] = got[q], need'[q] = need[q]
    PROVE  RequestOK(q)'
  BY DEF RequestOK, CurrentSince

LEMMA NodeFrame ==
    ASSUME NEW n \in Nodes, NodeOK(n),
           UNCHANGED <<clock, version, retired, floor, raced>>,
           cached'[n] = cached[n], expires'[n] = expires[n]
    PROVE  NodeOK(n)'
  BY DEF NodeOK, CurrentSince

LEMMA InitIInv == FlagInit => IInv
  <1> SUFFICES ASSUME FlagInit PROVE IInv
    OBVIOUS
  <1>1. FlagTypeOK
    BY VersionsNat DEF FlagInit, FlagTypeOK
  <1>2. ASSUME NEW r \in Calls PROVE RequestOK(r)
    BY DEF FlagInit, RequestOK
  <1>3. ASSUME NEW n \in Nodes PROVE NodeOK(n)
    BY DEF FlagInit, NodeOK
  <1> QED BY <1>1, <1>2, <1>3 DEF IInv

\* An evaluate moves one request and leaves rows and caches alone: it is enough
\* to look at that request.
LEMMA EvaluateIInv ==
    ASSUME IInv, NEW r \in Calls,
           BeginEvaluate(r) \/ Lookup(r) \/ get_override(r) \/ get_definition(r)
    PROVE  IInv'
  <1> USE VersionsNat
  <1>1. FlagTypeOK'
    <2>1. CASE BeginEvaluate(r)
      BY <2>1 DEF IInv, FlagTypeOK, BeginEvaluate
    <2>2. CASE Lookup(r) /\ expires[Node[r]] > start[r]
      BY <2>2 DEF IInv, FlagTypeOK, Lookup
    <2>3. CASE Lookup(r) /\ ~(expires[Node[r]] > start[r])
      BY <2>3 DEF IInv, FlagTypeOK, Lookup
    <2>4. CASE get_override(r)
      BY <2>4 DEF IInv, FlagTypeOK, get_override
    <2>5. CASE get_definition(r)
      BY <2>5 DEF IInv, FlagTypeOK, get_definition
    <2> QED BY <2>1, <2>2, <2>3, <2>4, <2>5
  <1>2. /\ UNCHANGED <<clock, version, retired, cached, expires, floor, raced>>
        /\ \A q \in Calls \ {r} : /\ stage'[q] = stage[q] /\ start'[q] = start[q]
                                     /\ got'[q] = got[q] /\ need'[q] = need[q]
    BY DEF IInv, FlagTypeOK, BeginEvaluate, Lookup, get_override, get_definition
  <1>3. /\ RequestOK(r) /\ NodeOK(Node[r]) /\ Node[r] \in Nodes
        /\ clock \in Nat /\ start[r] \in Nat /\ version \in Nat
        /\ got[r] \in Versions /\ need[r] \in Nat /\ floor[Node[r]] \in Nat
        /\ cached[Node[r]] \in Versions /\ expires[Node[r]] \in Nat
        /\ \A v \in Versions : retired[v] \in Nat
    BY DEF IInv, FlagTypeOK
  <1>4. RequestOK(r)'
    <2>1. CASE BeginEvaluate(r)
      <3>1. stage'[r] = "lookup" /\ start'[r] = clock /\ need'[r] = floor[Node[r]]
        BY <2>1 DEF BeginEvaluate, IInv, FlagTypeOK
      <3> QED BY <1>2, <1>3, <3>1 DEF RequestOK
    <2>2. CASE Lookup(r) /\ expires[Node[r]] > start[r]
      \* A hit outlives the start of the call, so its fill began after start - TTL.
      <3>1. /\ stage[r] = "lookup" /\ stage'[r] = "done" /\ start'[r] = start[r]
            /\ got'[r] = cached[Node[r]] /\ need'[r] = need[r]
        BY <1>3, <2>2 DEF Lookup, IInv, FlagTypeOK
      <3>2. CurrentSince(cached[Node[r]], start[r] - TTL + 1)
        <4>1. CurrentSince(cached[Node[r]], expires[Node[r]] - TTL)
          BY <1>3, <2>2 DEF NodeOK
        <4>2. expires[Node[r]] - TTL >= start[r] - TTL + 1
          BY <1>3, <2>2
        <4>3. retired[cached[Node[r]]] \in Nat
          BY <1>3
        <4> QED BY <1>3, <4>1, <4>2, <4>3 DEF CurrentSince
      <3>3. Node[r] \notin raced => cached[Node[r]] >= need[r]
        <4>1. need[r] =< floor[Node[r]]
          BY <1>3, <3>1 DEF RequestOK
        <4>2. Node[r] \notin raced => cached[Node[r]] >= floor[Node[r]]
          BY <1>3, <2>2 DEF NodeOK
        <4>3. cached[Node[r]] \in Nat
          BY <1>3
        <4> QED BY <1>3, <4>1, <4>2, <4>3
      <3> QED BY <1>2, <1>3, <3>1, <3>2, <3>3 DEF RequestOK, CurrentSince
    <2>3. CASE Lookup(r) /\ ~(expires[Node[r]] > start[r])
      <3>1. /\ stage[r] = "lookup" /\ stage'[r] = "miss" /\ start'[r] = start[r]
            /\ need'[r] = need[r]
        BY <1>3, <2>3 DEF Lookup, IInv, FlagTypeOK
      <3> QED BY <1>2, <1>3, <3>1 DEF RequestOK
    <2>4. CASE get_override(r)
      <3>1. /\ stage[r] = "miss" /\ stage'[r] \in {"default", "fill"}
            /\ start'[r] = start[r] /\ got'[r] = version /\ need'[r] = need[r]
        BY <2>4 DEF get_override, IInv, FlagTypeOK
      <3> QED BY <1>2, <1>3, <3>1 DEF RequestOK, CurrentSince, NodeOK
    <2>5. CASE get_definition(r)
      <3>1. /\ stage[r] = "default" /\ stage'[r] = "fill" /\ start'[r] = start[r]
            /\ got'[r] = got[r] /\ need'[r] = need[r]
        BY <2>5 DEF get_definition, IInv, FlagTypeOK
      <3> QED BY <1>2, <1>3, <3>1 DEF RequestOK, CurrentSince
    <2> QED BY <2>1, <2>2, <2>3, <2>4, <2>5
  <1>5. \A q \in Calls : RequestOK(q)'
    BY <1>2, <1>4, RequestFrame DEF IInv
  <1>6. \A n \in Nodes : NodeOK(n)'
    BY <1>2, NodeFrame DEF IInv
  <1> QED BY <1>1, <1>5, <1>6 DEF IInv

LEMMA FillIInv == ASSUME IInv, NEW r \in Calls, Fill(r) PROVE IInv'
  <1> DEFINE n == Node[r]
  <1>1. FlagTypeOK'
    BY VersionsNat DEF IInv, FlagTypeOK, Fill
  <1>2. /\ UNCHANGED <<clock, version, retired, floor, raced>>
        /\ stage[r] = "fill" /\ stage'[r] = "done"
        /\ \A q \in Calls : /\ start'[q] = start[q]
                               /\ got'[q] = got[q] /\ need'[q] = need[q]
        /\ \A q \in Calls \ {r} : stage'[q] = stage[q]
        /\ n \in Nodes /\ cached'[n] = got[r] /\ expires'[n] = start[r] + TTL
        /\ \A m \in Nodes \ {n} : cached'[m] = cached[m] /\ expires'[m] = expires[m]
    BY DEF IInv, FlagTypeOK, Fill
  <1>3. /\ RequestOK(r) /\ NodeOK(n)
        /\ clock \in Nat /\ start[r] \in Nat /\ version \in Nat /\ got[r] \in Nat
        /\ got[r] \in Versions /\ retired[got[r]] \in Nat
        /\ need[r] \in Nat /\ floor[n] \in Nat
    BY <1>2, VersionsNat DEF IInv, FlagTypeOK
  <1> HIDE DEF n
  <1>4. RequestOK(r)'
    BY <1>2, <1>3 DEF RequestOK, CurrentSince, n
  <1>5. NodeOK(n)'
    BY <1>2, <1>3 DEF RequestOK, NodeOK, CurrentSince, n
  <1>6. \A q \in Calls : RequestOK(q)'
    BY <1>2, <1>4, RequestFrame DEF IInv
  <1>7. \A m \in Nodes : NodeOK(m)'
    BY <1>2, <1>5, NodeFrame DEF IInv
  <1> QED BY <1>1, <1>6, <1>7 DEF IInv

\* A write retires the current version now, and nothing that was current since an
\* instant in the past stops being so.
LEMMA WriteKeepsCurrent ==
    ASSUME IInv, NEW r \in Calls, NEW set \in BOOLEAN, Write(r, set),
           NEW v \in Versions, NEW t \in Int, t =< clock, CurrentSince(v, t)
    PROVE  CurrentSince(v, t)'
  <1>1. CASE set \/ present
    <2>1. retired' = [retired EXCEPT ![version] = clock] /\ version' = version + 1
      BY <1>1 DEF Write
    <2>2. retired'[v] = IF v = version THEN clock ELSE retired[v]
      BY <2>1 DEF IInv, FlagTypeOK
    <2> QED BY <2>2 DEF CurrentSince
  <1>2. CASE ~(set \/ present)
    BY <1>2 DEF Write, CurrentSince
  <1> QED BY <1>1, <1>2

LEMMA WriteIInv ==
    ASSUME IInv, NEW r \in Calls, NEW set \in BOOLEAN, Write(r, set)
    PROVE  IInv'
  <1> USE VersionsNat
  <1>1. version' \in Versions /\ version' >= version /\ retired' \in [Versions -> Nat]
    <2>1. CASE set \/ present
      <3>1. /\ version < MaxVersion /\ version' = version + 1
            /\ retired' = [retired EXCEPT ![version] = clock]
        BY <2>1 DEF Write
      <3>2. version \in Versions /\ clock \in Nat /\ retired \in [Versions -> Nat]
        BY DEF IInv, FlagTypeOK
      <3>3. version' \in Versions /\ version' >= version
        BY <3>1, <3>2 DEF Versions
      <3> QED BY <3>1, <3>2, <3>3
    <2>2. CASE ~(set \/ present)
      BY <2>2 DEF Write, IInv, FlagTypeOK, Versions
    <2> QED BY <2>1, <2>2
  <1>2. /\ UNCHANGED <<clock, cached, expires, floor, raced>>
        /\ stage'[r] = "invalidate" /\ start'[r] = 0 /\ got'[r] = version'
        /\ \A q \in Calls \ {r} : /\ stage'[q] = stage[q] /\ start'[q] = start[q]
                                     /\ got'[q] = got[q] /\ need'[q] = need[q]
    BY <1>1 DEF IInv, FlagTypeOK, Write
  <1>3. FlagTypeOK'
    BY <1>1 DEF IInv, FlagTypeOK, Write
  <1>4. RequestOK(r)'
    BY <1>1, <1>2 DEF RequestOK, IInv, FlagTypeOK
  <1>5. ASSUME NEW q \in Calls \ {r} PROVE RequestOK(q)'
    <2>1. /\ RequestOK(q) /\ got[q] \in Versions /\ start[q] \in Nat /\ clock \in Nat
          /\ version \in Nat /\ version' \in Nat
      BY <1>1 DEF IInv, FlagTypeOK
    <2>2. /\ start[q] \in Int /\ start[q] =< clock
          /\ start[q] - TTL + 1 \in Int /\ start[q] - TTL + 1 =< clock
      BY <2>1 DEF RequestOK
    <2>3. stage[q] \in {"default", "fill"} => CurrentSince(got[q], start[q])'
      <3>1. stage[q] \in {"default", "fill"} =>
              (CurrentSince(got[q], start[q]) /\ got'[q] = got[q] /\ start'[q] = start[q])
        BY <1>2, <2>1 DEF RequestOK
      <3> QED BY <2>1, <2>2, <3>1, WriteKeepsCurrent DEF CurrentSince
    <2>4. stage[q] = "done" => CurrentSince(got[q], start[q] - TTL + 1)'
      <3>1. stage[q] = "done" =>
              /\ CurrentSince(got[q], start[q] - TTL + 1)
              /\ got'[q] = got[q] /\ start'[q] = start[q]
        BY <1>2, <2>1 DEF RequestOK
      <3> QED BY <2>1, <2>2, <3>1, WriteKeepsCurrent DEF CurrentSince
    <2>5. stage[q] = "invalidate" => got[q] =< version'
      <3>1. got[q] \in Nat /\ version' >= version
        BY <1>1, <2>1, VersionsNat
      <3> QED BY <2>1, <3>1 DEF RequestOK
    <2> QED BY <1>2, <2>1, <2>3, <2>4, <2>5 DEF RequestOK, CurrentSince
  <1>6. ASSUME NEW n \in Nodes PROVE NodeOK(n)'
    <2>1. /\ NodeOK(n) /\ cached[n] \in Versions /\ expires[n] \in Nat
          /\ clock \in Nat /\ floor[n] \in Nat /\ version \in Nat /\ version' \in Nat
      BY <1>1 DEF IInv, FlagTypeOK
    <2>2. expires[n] - TTL \in Int /\ expires[n] - TTL =< clock
      BY <2>1 DEF NodeOK
    <2>3. expires[n] > 0 => CurrentSince(cached[n], expires[n] - TTL)'
      <3>1. expires[n] > 0 => CurrentSince(cached[n], expires[n] - TTL)
        BY <2>1 DEF NodeOK
      <3> QED BY <1>2, <2>1, <2>2, <3>1, WriteKeepsCurrent DEF CurrentSince
    <2> QED BY <1>1, <1>2, <2>1, <2>3 DEF NodeOK
  <1> QED BY <1>3, <1>4, <1>5, <1>6 DEF IInv

\* Calls that end know nothing; the others keep what they know.
LEMMA EndRequests ==
    ASSUME IInv, NEW R \in SUBSET Calls, EndCalls(R),
           UNCHANGED <<clock, version, retired, floor, raced>>
    PROVE  \A q \in Calls : RequestOK(q)'
  <1> SUFFICES ASSUME NEW q \in Calls PROVE RequestOK(q)'
    OBVIOUS
  <1>1. CASE q \in R
    <2>1. stage'[q] = "idle" /\ start'[q] = 0 /\ clock' \in Nat
      BY <1>1 DEF EndCalls, IInv, FlagTypeOK
    <2> QED BY <2>1 DEF RequestOK
  <1>2. CASE q \notin R
    <2>1. /\ stage'[q] = stage[q] /\ start'[q] = start[q]
          /\ got'[q] = got[q] /\ need'[q] = need[q]
      BY <1>2 DEF EndCalls
    <2> QED BY <2>1, RequestFrame DEF IInv
  <1> QED BY <1>1, <1>2

LEMMA EndTypes ==
    ASSUME IInv, NEW R \in SUBSET Calls, EndCalls(R)
    PROVE  /\ stage' \in [Calls -> Stage] /\ start' \in [Calls -> Nat]
           /\ got' \in [Calls -> Versions] /\ need' \in [Calls -> Versions]
  BY VersionsNat DEF IInv, FlagTypeOK, EndCalls

\* A dropped entry promises nothing.
LEMMA RemoveNode ==
    ASSUME IInv, NEW n \in Nodes, Remove(n)
    PROVE  /\ cached' \in [Nodes -> Versions] /\ expires' \in [Nodes -> Nat]
           /\ expires'[n] = 0
           /\ \A m \in Nodes \ {n} : cached'[m] = cached[m] /\ expires'[m] = expires[m]
  BY VersionsNat DEF IInv, FlagTypeOK, Remove

LEMMA AbandonIInv == ASSUME IInv, NEW r \in Calls, Abandon(r) PROVE IInv'
  <1>1. EndCalls({r}) /\ UNCHANGED <<clock, version, retired, floor, raced, cached, expires, present>>
    BY DEF Abandon
  <1>2. FlagTypeOK'
    BY <1>1, EndTypes DEF IInv, FlagTypeOK
  <1>3. \A q \in Calls : RequestOK(q)'
    BY <1>1, EndRequests
  <1>4. \A n \in Nodes : NodeOK(n)'
    BY <1>1, NodeFrame DEF IInv
  <1> QED BY <1>2, <1>3, <1>4 DEF IInv

LEMMA RestartIInv == ASSUME IInv, NEW n \in Nodes, Restart(n) PROVE IInv'
  <1> DEFINE R == {r \in Calls : Node[r] = n}
  <1>1. /\ EndCalls(R) /\ Remove(n) /\ R \in SUBSET Calls
        /\ UNCHANGED <<clock, version, retired, floor, raced, present>>
    BY DEF Restart
  <1> HIDE DEF R
  <1>2. FlagTypeOK'
    BY <1>1, EndTypes, RemoveNode DEF IInv, FlagTypeOK
  <1>3. \A q \in Calls : RequestOK(q)'
    BY <1>1, EndRequests
  <1>4. NodeOK(n)'
    BY <1>1, RemoveNode DEF IInv, NodeOK, FlagTypeOK
  <1>5. \A m \in Nodes : NodeOK(m)'
    BY <1>1, <1>4, RemoveNode, NodeFrame DEF IInv
  <1> QED BY <1>2, <1>3, <1>5 DEF IInv

\* An invalidate raises the floor of its node.  A fill of the node under way is at
\* or above the new floor, unless the node is marked as raced.
LEMMA InvalidateIInv == ASSUME IInv, NEW r \in Calls, invalidate(r) PROVE IInv'
  <1> DEFINE n == Node[r]
  <1> USE VersionsNat
  <1>1. /\ EndCalls({r}) /\ Remove(n) /\ n \in Nodes /\ stage[r] = "invalidate"
        /\ UNCHANGED <<clock, version, retired, present>>
        /\ got[r] \in Versions /\ floor[n] \in Versions /\ RequestOK(r) /\ NodeOK(n)
        /\ floor' = [floor EXCEPT ![n] = IF got[r] > floor[n] THEN got[r] ELSE floor[n]]
        /\ raced' = IF OlderFill(r) THEN raced \cup {n} ELSE raced
        /\ clock \in Nat /\ version \in Nat
    BY DEF invalidate, IInv, FlagTypeOK
  <1>2. /\ floor' \in [Nodes -> Versions] /\ raced' \subseteq Nodes
        /\ floor'[n] = IF got[r] > floor[n] THEN got[r] ELSE floor[n]
        /\ \A m \in Nodes \ {n} : floor'[m] = floor[m] /\ (m \in raced' <=> m \in raced)
        /\ raced \subseteq raced'
    BY <1>1 DEF IInv, FlagTypeOK
  <1>3. floor'[n] >= floor[n] /\ floor'[n] =< version
    <2>1. got[r] =< version /\ floor[n] =< version
      BY <1>1 DEF RequestOK, NodeOK
    <2>2. got[r] \in Nat /\ floor[n] \in Nat /\ version \in Nat
      BY <1>1
    <2> HIDE DEF n
    <2> QED BY <1>2, <2>1, <2>2
  <1>4. n \notin raced' =>
          \A q \in Calls : Node[q] = n /\ stage[q] \in {"default", "fill"} =>
            ~(got[q] < got[r])
    BY <1>1 DEF OlderFill
  <1> HIDE DEF n
  <1>5. FlagTypeOK'
    BY <1>1, <1>2, EndTypes, RemoveNode DEF IInv, FlagTypeOK
  <1>6. RequestOK(r)'
    <2>1. stage'[r] = "idle" /\ start'[r] = 0 /\ clock' \in Nat
      BY <1>1 DEF EndCalls
    <2> QED BY <2>1 DEF RequestOK
  <1>7. ASSUME NEW q \in Calls \ {r} PROVE RequestOK(q)'
    <2>1. /\ stage'[q] = stage[q] /\ start'[q] = start[q]
          /\ got'[q] = got[q] /\ need'[q] = need[q]
      BY <1>1 DEF EndCalls
    <2>2. /\ RequestOK(q) /\ got[q] \in Nat /\ need[q] \in Nat /\ Node[q] \in Nodes
          /\ floor[Node[q]] \in Nat /\ floor'[Node[q]] \in Nat /\ got[r] \in Nat
      BY <1>1, <1>2 DEF IInv, FlagTypeOK
    <2>3. floor'[Node[q]] >= floor[Node[q]]
      BY <1>2, <1>3, <2>2
    <2>4. stage[q] \in {"default", "fill"} /\ Node[q] \notin raced' =>
            got[q] >= floor'[Node[q]]
      <3>1. CASE Node[q] = n
        BY <1>2, <1>4, <2>2, <3>1 DEF RequestOK
      <3>2. CASE Node[q] # n
        BY <1>2, <2>2, <3>2 DEF RequestOK
      <3> QED BY <3>1, <3>2
    <2>5. stage[q] \in {"lookup", "miss", "default", "fill"} => need[q] =< floor'[Node[q]]
      BY <2>2, <2>3 DEF RequestOK
    <2>6. stage[q] = "done" /\ Node[q] \notin raced' => got[q] >= need[q]
      BY <1>2, <2>2 DEF RequestOK
    <2>7. /\ start[q]' =< clock'
          /\ stage'[q] = "invalidate" => got'[q] =< version'
          /\ stage'[q] \in {"default", "fill"} => CurrentSince(got[q], start[q])'
          /\ stage'[q] = "done" => CurrentSince(got[q], start[q] - TTL + 1)'
      BY <1>1, <2>1, <2>2 DEF RequestOK, CurrentSince
    <2> QED BY <2>1, <2>4, <2>5, <2>6, <2>7 DEF RequestOK, CurrentSince
  <1>8. NodeOK(n)'
    <2>1. expires'[n] = 0 /\ clock' \in Nat /\ version' = version
      BY <1>1, RemoveNode
    <2>2. /\ expires'[n] =< clock' + TTL /\ ~(expires'[n] > 0)
          /\ floor'[n] =< version'
      BY <1>3, <2>1
    <2> QED BY <2>2 DEF NodeOK
  <1>9. ASSUME NEW m \in Nodes \ {n} PROVE NodeOK(m)'
    <2>1. cached'[m] = cached[m] /\ expires'[m] = expires[m] /\ floor'[m] = floor[m]
          /\ (m \in raced' <=> m \in raced) /\ NodeOK(m)
      BY <1>1, <1>2, RemoveNode DEF IInv
    <2> QED BY <1>1, <2>1 DEF NodeOK, CurrentSince
  <1> QED BY <1>5, <1>6, <1>7, <1>8, <1>9 DEF IInv

LEMMA TickIInv == ASSUME IInv, ClockTicks PROVE IInv'
  <1>1. /\ UNCHANGED <<dbVars, cacheVars, requestVars, floor, raced>>
        /\ clock \in Nat /\ clock' = clock + 1
    BY DEF ClockTicks, IInv, FlagTypeOK
  <1>2. FlagTypeOK'
    BY <1>1 DEF IInv, FlagTypeOK
  <1>3. ASSUME NEW r \in Calls PROVE RequestOK(r)'
    <2>1. RequestOK(r) /\ start[r] \in Nat
      BY DEF IInv, FlagTypeOK
    <2>2. start'[r] =< clock'
      BY <1>1, <2>1 DEF RequestOK
    <2> QED BY <1>1, <2>1, <2>2 DEF RequestOK, CurrentSince
  <1>4. ASSUME NEW n \in Nodes PROVE NodeOK(n)'
    <2>1. NodeOK(n) /\ expires[n] \in Nat
      BY DEF IInv, FlagTypeOK
    <2>2. expires'[n] =< clock' + TTL
      BY <1>1, <2>1 DEF NodeOK
    <2> QED BY <1>1, <2>1, <2>2 DEF NodeOK, CurrentSince
  <1> QED BY <1>2, <1>3, <1>4 DEF IInv

LEMMA NextIInv == IInv /\ [FlagNext]_flagVars => IInv'
  <1> SUFFICES ASSUME IInv, [FlagNext]_flagVars PROVE IInv'
    OBVIOUS
  <1>1. ASSUME NEW r \in Calls,
               BeginEvaluate(r) \/ Lookup(r) \/ get_override(r) \/ get_definition(r)
        PROVE  IInv'
    BY <1>1, EvaluateIInv
  <1>2. ASSUME NEW r \in Calls, Fill(r) PROVE IInv'
    BY <1>2, FillIInv
  <1>3. ASSUME NEW r \in Calls, set_org_feature(r) \/ clear_org_feature(r) PROVE IInv'
    BY <1>3, WriteIInv DEF set_org_feature, clear_org_feature
  <1>4. ASSUME NEW r \in Calls, invalidate(r) PROVE IInv'
    BY <1>4, InvalidateIInv
  <1>5. ASSUME NEW r \in Calls, Abandon(r) PROVE IInv'
    BY <1>5, AbandonIInv
  <1>6. ASSUME NEW n \in Nodes, Restart(n) PROVE IInv'
    BY <1>6, RestartIInv
  <1>7. CASE ClockTicks
    BY <1>7, TickIInv
  <1>8. CASE UNCHANGED flagVars
    BY <1>8 DEF IInv, FlagTypeOK, RequestOK, NodeOK, CurrentSince
  <1> QED BY <1>1, <1>2, <1>3, <1>4, <1>5, <1>6, <1>7, <1>8 DEF FlagNext

\* The inductive invariant holds throughout.
THEOREM FeatureCacheSafety == FlagSpec => []IInv
  BY InitIInv, NextIInv, PTL DEF FlagSpec

\* Every variable keeps its type: expiry times and ages stay within the clock.
THEOREM TypeOKHolds == FlagSpec => []FlagTypeOK
  <1>1. IInv => FlagTypeOK
    BY DEF IInv
  <1> QED BY <1>1, FeatureCacheSafety, PTL

\* No node ever returns a value more than TTL out of date (PgFeatureEvaluator::
\* evaluate), for any number of nodes, requests, writes and any TTL.
THEOREM StalenessBoundedHolds == FlagSpec => []StalenessBounded
  <1>1. IInv => StalenessBounded
    BY DEF IInv, RequestOK, StalenessBounded
  <1> QED BY <1>1, FeatureCacheSafety, PTL

\* Read-your-writes on one node, up to the one race of evaluate with invalidate.
THEOREM SeesOwnNodeWritesHolds == FlagSpec => []SeesOwnNodeWritesUnlessRaced
  <1>1. IInv => SeesOwnNodeWritesUnlessRaced
    BY DEF IInv, RequestOK, SeesOwnNodeWritesUnlessRaced
  <1> QED BY <1>1, FeatureCacheSafety, PTL
=============================================================================
