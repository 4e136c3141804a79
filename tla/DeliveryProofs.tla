--------------------------- MODULE DeliveryProofs ---------------------------
(***************************************************************************)
(* Safety of the two ways by which an event leaves its handler.  The       *)
(* outbox, for any number of events and relayers and any batch size,       *)
(* relays exactly once into the jobs table and implements EventDelivery.   *)
(* The audit trail, for any number of requests, capacity, retries and      *)
(* faults, loses no accepted event silently and keeps their order.         *)
(* The two share no state.                                                 *)
(***************************************************************************)
EXTENDS OutboxRelay, AuditTrail, SequenceTheorems, TLAPS

-----------------------------------------------------------------------------
(* The outbox *)

\* Rows are locked only inside a tick (or by a dead relayer's session), and once
\* the loop over the batch is done every row of the batch has its job.
TickShape ==
    \A r \in Relayers :
        /\ phase[r] \in {"off", "poll", "claim", "exited"} => batch[r] = {}
        /\ phase[r] \in {"mark", "commit"} => todo[r] = {}

\* Open relayer transactions work on disjoint, committed, unrelayed rows: SKIP
\* LOCKED partitions the table between them.
BatchesDisjoint ==
    \A r \in Relayers :
        /\ \A e \in batch[r] : tx[e] = "committed" /\ e \notin relayed
        /\ \A s \in Relayers \ {r} : batch[r] \cap batch[s] = {}

IInv ==
    /\ TypeOK
    /\ TickShape
    /\ OneJobPerRelayedEvent
    /\ BatchesDisjoint

USE OutboxAssumption DEF TxState, InTick, Phase, serviceVars, relayerVars, vars

LEMMA InitIInv == Init => IInv
  BY DEF Init, IInv, TypeOK, TickShape, OneJobPerRelayedEvent, BatchesDisjoint

LEMMA ServiceIInv ==
    ASSUME IInv, NEW e \in Events,
           \/ append_in_tx(e)
           \/ \E outcome \in {"committed", "rolled_back"} : EndServiceTx(e, outcome)
    PROVE  IInv'
  <1> USE DEF IInv, append_in_tx, EndServiceTx
  <1>1. TypeOK'
    BY DEF TypeOK
  <1>2. TickShape'
    BY DEF TickShape
  <1>3. OneJobPerRelayedEvent'
    BY DEF OneJobPerRelayedEvent, TypeOK
  <1>4. BatchesDisjoint'
    BY DEF BatchesDisjoint, TypeOK
  <1> QED BY <1>1, <1>2, <1>3, <1>4

\* Steps of a relayer that leave its batch as it is.
LEMMA ControlIInv ==
    ASSUME IInv, NEW r \in Relayers,
           \/ spawn(r) \/ shutdown(r) \/ LoopTop(r) \/ enqueue_in_tx(r)
           \/ mark_relayed_in_tx(r) \/ Crash(r)
    PROVE  IInv'
  <1> USE DEF IInv, spawn, LoopTop, enqueue_in_tx, mark_relayed_in_tx, Crash
  <1>1. UNCHANGED <<tx, created, clock, relayed, jobs, batch, faults>>
    BY DEF shutdown
  <1>2. CASE spawn(r) \/ LoopTop(r) \/ mark_relayed_in_tx(r) \/ Crash(r)
    <2>1. TypeOK'
      BY <1>2 DEF TypeOK
    <2>2. TickShape'
      BY <1>2 DEF TickShape, TypeOK
    <2> QED BY <1>1, <2>1, <2>2 DEF OneJobPerRelayedEvent, BatchesDisjoint
  <1>3. CASE shutdown(r)
    <2>1. TypeOK' /\ TickShape'
      BY <1>3 DEF shutdown, TypeOK, TickShape
    <2> QED BY <1>1, <2>1 DEF OneJobPerRelayedEvent, BatchesDisjoint
  <1>4. CASE enqueue_in_tx(r)
    <2>1. TypeOK'
      BY <1>4 DEF TypeOK
    <2>2. TickShape'
      BY <1>4 DEF TickShape, TypeOK
    <2> QED BY <1>1, <2>1, <2>2 DEF OneJobPerRelayedEvent, BatchesDisjoint
  <1> QED BY <1>2, <1>3, <1>4

LEMMA ClaimIInv ==
    ASSUME IInv, NEW r \in Relayers, claim_unrelayed_in_tx(r) PROVE IInv'
  <1> USE DEF IInv
  <1>1. PICK B \in SUBSET Claimable :
          /\ batch' = [batch EXCEPT ![r] = B]
          /\ todo' = [todo EXCEPT ![r] = B]
          /\ phase' = [phase EXCEPT ![r] = IF B = {} THEN "poll" ELSE "enqueue"]
    BY DEF claim_unrelayed_in_tx
  <1>2. UNCHANGED <<tx, created, clock, relayed, jobs, stop, faults>>
    BY DEF claim_unrelayed_in_tx
  <1>3. /\ B \subseteq Events
        /\ \A e \in B : tx[e] = "committed" /\ e \notin relayed
        /\ \A e \in B, s \in Relayers : e \notin batch[s]
    BY DEF Claimable, Locked
  <1>4. TypeOK'
    BY <1>1, <1>2, <1>3 DEF TypeOK
  <1>5. TickShape'
    BY <1>1 DEF TickShape, TypeOK
  <1>6. OneJobPerRelayedEvent'
    BY <1>2 DEF OneJobPerRelayedEvent
  <1>7. BatchesDisjoint'
    \* The new batch avoids every locked row, so it meets no other batch.
    BY <1>1, <1>2, <1>3 DEF BatchesDisjoint, TypeOK
  <1> QED BY <1>4, <1>5, <1>6, <1>7

\* The rows of a batch have no job yet; the commit gives each of them one.
LEMMA CommitIInv == ASSUME IInv, NEW r \in Relayers, commit(r) PROVE IInv'
  <1> USE DEF IInv
  <1>1. /\ todo[r] = {} /\ phase[r] = "commit"
        /\ jobs' = [e \in Events |-> IF e \in batch[r] THEN jobs[e] + 1 ELSE jobs[e]]
        /\ relayed' = relayed \cup batch[r]
        /\ batch' = [batch EXCEPT ![r] = {}]
        /\ todo' = [todo EXCEPT ![r] = {}]
        /\ phase' = [phase EXCEPT ![r] = "poll"]
        /\ UNCHANGED <<tx, created, clock, stop, faults>>
    BY DEF commit, TickShape
  <1>2. TypeOK'
    BY <1>1 DEF TypeOK
  <1>3. TickShape'
    BY <1>1 DEF TickShape, TypeOK
  <1>4. OneJobPerRelayedEvent'
    BY <1>1 DEF OneJobPerRelayedEvent, BatchesDisjoint, TypeOK
  <1>5. BatchesDisjoint'
    BY <1>1 DEF BatchesDisjoint, TypeOK
  <1> QED BY <1>2, <1>3, <1>4, <1>5

LEMMA RollbackIInv ==
    ASSUME IInv, NEW r \in Relayers, TickFails(r) \/ ServerRollback(r) PROVE IInv'
  <1> USE DEF IInv, TickFails, ServerRollback
  <1>1. TypeOK'
    BY DEF TypeOK
  <1>2. TickShape'
    BY DEF TickShape, TypeOK
  <1>3. OneJobPerRelayedEvent'
    BY DEF OneJobPerRelayedEvent
  <1>4. BatchesDisjoint'
    BY DEF BatchesDisjoint, TypeOK
  <1> QED BY <1>1, <1>2, <1>3, <1>4

LEMMA NextIInv == IInv /\ [Next]_vars => IInv'
  <1> SUFFICES ASSUME IInv, [Next]_vars PROVE IInv'
    OBVIOUS
  <1>1. CASE UNCHANGED vars
    BY <1>1 DEF IInv, TypeOK, TickShape, OneJobPerRelayedEvent, BatchesDisjoint
  <1>2. CASE Next
    BY <1>2, ServiceIInv, ControlIInv, ClaimIInv, CommitIInv, RollbackIInv DEF Next
  <1> QED BY <1>1, <1>2

\* The inductive invariant of the outbox holds throughout.
THEOREM OutboxSafety == Spec => []IInv
  BY InitIInv, NextIInv, PTL DEF Spec

\* Every variable keeps its type: a relayer is at a step of tick, with a batch of events.
THEOREM TypeOKHolds == Spec => []TypeOK
  <1>1. IInv => TypeOK
    BY DEF IInv
  <1> QED BY <1>1, OutboxSafety, PTL

\* Competing, failing and crashing relayers enqueue every relayed event exactly
\* once, and only events whose service transaction committed.
THEOREM OneJobPerRelayedEventHolds == Spec => []OneJobPerRelayedEvent
  <1>1. IInv => OneJobPerRelayedEvent
    BY DEF IInv
  <1> QED BY <1>1, OutboxSafety, PTL

\* SKIP LOCKED partitions the unrelayed rows between open transactions.
THEOREM BatchesDisjointHolds == Spec => []BatchesDisjoint
  <1>1. IInv => BatchesDisjoint
    BY DEF IInv
  <1> QED BY <1>1, OutboxSafety, PTL

-----------------------------------------------------------------------------
LEMMA InitRefines == Init => Delivery!Init
  BY DEF Init, Delivery!Init, fate

\* A service commit publishes, a relayer's commit queues its batch, and no other
\* step changes the fate of any event.
LEMMA NextRefines == IInv /\ [Next]_vars => [Delivery!Next]_fate
  <1> SUFFICES ASSUME IInv, [Next]_vars PROVE [Delivery!Next]_fate
    OBVIOUS
  <1>1. CASE \E e \in Events : EndServiceTx(e, "committed")
    <2>1. PICK e \in Events : EndServiceTx(e, "committed")
      BY <1>1
    <2>2. Delivery!Publish(e)
      BY <2>1 DEF EndServiceTx, Delivery!Publish, fate, IInv, TypeOK,
                  OneJobPerRelayedEvent
    <2> QED BY <2>2 DEF Delivery!Next
  <1>2. CASE \E r \in Relayers : commit(r)
    <2>1. PICK r \in Relayers : commit(r)
      BY <1>2
    <2>2. /\ todo[r] = {}
          /\ jobs' = [e \in Events |-> IF e \in batch[r] THEN jobs[e] + 1 ELSE jobs[e]]
          /\ relayed' = relayed \cup batch[r]
          /\ UNCHANGED tx
      BY <2>1 DEF commit, IInv, TickShape
    <2>3. \A e \in batch[r] : /\ e \in Events /\ tx[e] = "committed"
                              /\ e \notin relayed /\ jobs[e] = 0
      BY DEF IInv, TypeOK, BatchesDisjoint, OneJobPerRelayedEvent
    <2>4. CASE batch[r] = {}
      BY <2>2, <2>4 DEF fate, IInv, TypeOK
    <2>5. CASE batch[r] # {}
      <3>1. fate' = [e \in Events |-> IF e \in batch[r] THEN "queued" ELSE fate[e]]
        BY <2>2, <2>3 DEF fate
      <3>2. \A e \in batch[r] : fate[e] = "published"
        BY <2>3 DEF fate
      <3>3. Delivery!Queue(batch[r])
        BY <2>5, <3>1, <3>2 DEF Delivery!Queue
      <3> QED BY <3>3, <2>3 DEF Delivery!Next
    <2> QED BY <2>4, <2>5
  <1>3. CASE \E e \in Events : append_in_tx(e) \/ EndServiceTx(e, "rolled_back")
    BY <1>3 DEF append_in_tx, EndServiceTx, fate, IInv, TypeOK
  <1>4. CASE \/ UNCHANGED vars
             \/ \E r \in Relayers :
                  \/ spawn(r) \/ shutdown(r) \/ LoopTop(r) \/ claim_unrelayed_in_tx(r)
                  \/ enqueue_in_tx(r) \/ mark_relayed_in_tx(r) \/ TickFails(r)
                  \/ Crash(r) \/ ServerRollback(r)
    <2>1. UNCHANGED <<tx, relayed, jobs>>
      BY <1>4 DEF spawn, shutdown, LoopTop, claim_unrelayed_in_tx, enqueue_in_tx,
                  mark_relayed_in_tx, TickFails, Crash, ServerRollback
    <2> QED BY <2>1 DEF fate
  <1> QED BY <1>1, <1>2, <1>3, <1>4 DEF Next

\* The outbox with its relayers, transactions and locks implements EventDelivery:
\* events are published by commits and each becomes exactly one job, batch by batch.
THEOREM OutboxImplementsDelivery == Spec => DeliverySpec
  BY InitRefines, NextRefines, OutboxSafety, PTL DEF Spec, DeliverySpec, Delivery!Spec

-----------------------------------------------------------------------------
(* The audit trail: the inductive invariant *)

\* Number of accepted events that have left the channel.
Taken == Len(accepted) - Len(queue)

\* No request is in flight once the channel is closed, and each was accepted once if
\* it is sent, and not at all otherwise.
HandlerInv ==
    /\ server \in {"closed", "stopped"} => \A e \in AuditEvents : request[e] \notin InFlight
    /\ \A e \in AuditEvents : request[e] = "sent" <=> e \in Elements(accepted)
    /\ \A m, n \in DOMAIN accepted : accepted[m] = accepted[n] => m = n

\* The channel holds the events that were accepted last, in their order.
QueueInv ==
    /\ Len(queue) =< Len(accepted)
    /\ \A i \in DOMAIN queue : queue[i] = accepted[Taken + i]

\* The worker writes the event before them, and leaves only an empty channel.
WorkerInv ==
    /\ worker = "insert" => Taken > 0 /\ current = accepted[Taken]
    /\ worker # "insert" => current = NoEvent
    /\ worker = "exited" => server \in {"closed", "stopped", "crashed"} /\ queue = <<>>
    /\ server \in {"stopped", "crashed"} => worker = "exited"

\* The rows are events that have left the channel.
TableInv ==
    \A i \in DOMAIN table : \E m \in 1..Taken : accepted[m] = table[i]

\* An instance brings its assumption on the constants as a formula, not as a fact: it is
\* a conjunct here and a hypothesis of the theorems.
AuditInv ==
    /\ AuditTypeOK /\ HandlerInv /\ QueueInv /\ WorkerInv /\ TableInv
    /\ NoSilentLoss /\ InOrder

-----------------------------------------------------------------------------
(* Sequences *)

LEMMA SequenceShape ==
    ASSUME NEW S, NEW s \in Seq(S)
    PROVE  Len(s) \in Nat /\ DOMAIN s = 1..Len(s) /\ \A i \in 1..Len(s) : s[i] \in S
  BY LenProperties

LEMMA Appended ==
    ASSUME NEW S, NEW s \in Seq(S), NEW x \in S
    PROVE  /\ Append(s, x) \in Seq(S)
           /\ Len(Append(s, x)) = Len(s) + 1 /\ Len(s) \in Nat
           /\ DOMAIN Append(s, x) = 1..(Len(s) + 1) /\ DOMAIN s = 1..Len(s)
           /\ \A i \in 1..Len(s) : Append(s, x)[i] = s[i]
           /\ Append(s, x)[Len(s) + 1] = x
           /\ Elements(Append(s, x)) = Elements(s) \cup {x}
  <1>1. /\ Append(s, x) \in Seq(S)
        /\ Len(Append(s, x)) = Len(s) + 1 /\ Len(s) \in Nat
        /\ \A i \in 1..Len(s) : Append(s, x)[i] = s[i]
        /\ Append(s, x)[Len(s) + 1] = x
    BY AppendProperties, LenProperties
  <1>2. DOMAIN Append(s, x) = 1..(Len(s) + 1) /\ DOMAIN s = 1..Len(s)
    BY <1>1, LenProperties
  <1>3. 1..(Len(s) + 1) = 1..Len(s) \cup {Len(s) + 1}
    BY <1>1
  <1>4. Elements(Append(s, x)) = Elements(s) \cup {x}
    BY <1>1, <1>2, <1>3 DEF Elements
  <1> QED BY <1>1, <1>2, <1>4

LEMMA Received ==
    ASSUME NEW S, NEW s \in Seq(S), s # <<>>
    PROVE  /\ Tail(s) \in Seq(S) /\ Head(s) \in S /\ Head(s) = s[1]
           /\ Len(s) \in Nat \ {0} /\ Len(Tail(s)) = Len(s) - 1
           /\ DOMAIN Tail(s) = 1..(Len(s) - 1) /\ DOMAIN s = 1..Len(s)
           /\ \A i \in 1..(Len(s) - 1) : Tail(s)[i] = s[i + 1]
           /\ Elements(s) = Elements(Tail(s)) \cup {Head(s)}
  <1>1. /\ Tail(s) \in Seq(S) /\ Head(s) \in S
        /\ Len(s) \in Nat \ {0} /\ Len(Tail(s)) = Len(s) - 1
        /\ \A i \in 1..(Len(s) - 1) : Tail(s)[i] = s[i + 1]
    BY HeadTailProperties, LenProperties, EmptySeq
  <1>2. DOMAIN Tail(s) = 1..(Len(s) - 1) /\ DOMAIN s = 1..Len(s)
    BY <1>1, LenProperties
  <1>3. Head(s) = s[1]
    OBVIOUS
  <1>4. Elements(s) = Elements(Tail(s)) \cup {Head(s)}
    <2>1. ASSUME NEW i \in 1..Len(s)
          PROVE  s[i] \in Elements(Tail(s)) \cup {Head(s)}
      <3>1. CASE i = 1
        BY <1>3, <3>1
      <3>2. CASE i # 1
        <4>1. i - 1 \in 1..(Len(s) - 1) /\ s[i] = Tail(s)[i - 1]
          BY <1>1, <3>2
        <4> QED BY <1>2, <4>1 DEF Elements
      <3> QED BY <3>1, <3>2
    <2>2. ASSUME NEW i \in 1..(Len(s) - 1)
          PROVE  Tail(s)[i] \in Elements(s)
      <3>1. i + 1 \in 1..Len(s) /\ Tail(s)[i] = s[i + 1]
        BY <1>1
      <3> QED BY <1>2, <3>1 DEF Elements
    <2>3. Head(s) \in Elements(s)
      BY <1>1, <1>2, <1>3 DEF Elements
    <2>4. Elements(s) \subseteq Elements(Tail(s)) \cup {Head(s)}
      BY <1>2, <2>1 DEF Elements
    <2>5. Elements(Tail(s)) \subseteq Elements(s)
      BY <1>2, <2>2 DEF Elements
    <2> QED BY <2>3, <2>4, <2>5
  <1> QED BY <1>1, <1>2, <1>3, <1>4

LEMMA EmptyElements == <<>> \in Seq(AuditEvents) /\ Len(<<>>) = 0 /\ Elements(<<>>) = {}
  BY DEF Elements

-----------------------------------------------------------------------------
(* Every step keeps the invariant *)

USE AuditAssumption DEF AuditAssumption, Server, Request, InFlight

LEMMA AuditInitInv == AuditInit => AuditInv
  BY EmptyElements DEF AuditInit, AuditInv, AuditTypeOK, HandlerInv, QueueInv, WorkerInv,
     TableInv, NoSilentLoss, InOrder, Taken

\* Steps of a handler before it records its event.
LEMMA RequestKeeps ==
    ASSUME AuditInv, NEW e \in AuditEvents, Accept(e) \/ Change(e) \/ Abandon(e)
    PROVE  AuditInv'
  <1> USE DEF AuditInv
  <1>1. /\ UNCHANGED <<server, accepted, queue, worker, current, attempt, given_up, table,
                      insertFaults>>
        /\ request' \in [AuditEvents -> Request]
        /\ \A d \in AuditEvents : request'[d] = "sent" <=> request[d] = "sent"
        /\ server \in {"closed", "stopped"} =>
               \A d \in AuditEvents : request'[d] \notin InFlight
    BY DEF Accept, Change, Abandon, AuditTypeOK, HandlerInv, workerVars,
           Up
  <1> QED BY <1>1 DEF AuditTypeOK, HandlerInv, QueueInv, WorkerInv, TableInv, NoSilentLoss,
             InOrder, Taken

\* try_send takes the event: it becomes the last of the channel.
LEMMA SendKeeps ==
    ASSUME AuditInv, NEW e \in AuditEvents, Up, request[e] = "changed", Len(queue) < Capacity,
           queue' = Append(queue, e), accepted' = Append(accepted, e),
           request' = [request EXCEPT ![e] = "sent"],
           UNCHANGED <<server, worker, current, attempt, given_up, table, insertFaults>>
    PROVE  AuditInv'
  <1> USE DEF AuditInv
  <1> DEFINE q == Len(queue)
             a == Len(accepted)
  <1>1. /\ queue' \in Seq(AuditEvents) /\ Len(queue') = q + 1 /\ q \in Nat
        /\ DOMAIN queue' = 1..(q + 1) /\ DOMAIN queue = 1..q
        /\ \A i \in 1..q : queue'[i] = queue[i]
        /\ queue'[q + 1] = e
        /\ Elements(queue') = Elements(queue) \cup {e}
    BY Appended DEF AuditTypeOK
  <1>2. /\ accepted' \in Seq(AuditEvents) /\ Len(accepted') = a + 1 /\ a \in Nat
        /\ DOMAIN accepted' = 1..(a + 1) /\ DOMAIN accepted = 1..a
        /\ \A i \in 1..a : accepted'[i] = accepted[i]
        /\ accepted'[a + 1] = e
        /\ Elements(accepted') = Elements(accepted) \cup {e}
    BY Appended DEF AuditTypeOK
  <1> HIDE DEF q, a
  <1>3. Taken' = a - q /\ Taken = a - q /\ q =< a
    BY <1>1, <1>2 DEF Taken, QueueInv, q, a
  <1>4. AuditTypeOK'
    <2>1. Len(queue') =< Capacity
      BY <1>1 DEF q
    <2> QED BY <1>1, <1>2, <2>1 DEF AuditTypeOK
  <1>5. HandlerInv'
    <2>1. e \notin Elements(accepted) /\ server \notin {"closed", "stopped"}
      BY DEF HandlerInv
    <2>2. \A n \in 1..a : accepted[n] # e
      BY <1>2, <2>1 DEF Elements
    <2>3. \A m, n \in 1..(a + 1) : accepted'[m] = accepted'[n] => m = n
      BY <1>2, <2>2 DEF HandlerInv
    <2>4. \A d \in AuditEvents : request'[d] = "sent" <=> d \in Elements(accepted')
      BY <1>2 DEF HandlerInv, AuditTypeOK
    <2> QED BY <1>2, <2>1, <2>3, <2>4 DEF HandlerInv
  <1>6. QueueInv'
    <2>1. ASSUME NEW i \in 1..(q + 1)
          PROVE  queue'[i] = accepted'[a - q + i]
      <3>1. CASE i = q + 1
        <4>1. a - q + i = a + 1 /\ queue'[i] = e /\ accepted'[a + 1] = e
          BY <1>1, <1>2, <3>1
        <4> QED BY <4>1
      <3>2. CASE i \in 1..q
        <4>1. a - q + i \in 1..a /\ queue[i] = accepted[a - q + i]
          BY <1>1, <1>2, <1>3, <3>2 DEF QueueInv
        <4> QED BY <1>1, <1>2, <3>2, <4>1
      <3>3. i = q + 1 \/ i \in 1..q
        <4>1. q \in Nat
          BY <1>1
        <4> QED BY <4>1
      <3> QED BY <3>1, <3>2, <3>3
    <2>2. Len(queue') =< Len(accepted')
      BY <1>1, <1>2, <1>3
    <2>3. DOMAIN queue' = 1..(q + 1) /\ Taken' = a - q
      BY <1>1, <1>3
    <2> QED BY <2>1, <2>2, <2>3 DEF QueueInv
  <1>7. \A m \in 1..Taken : accepted'[m] = accepted[m]
    BY <1>1, <1>2, <1>3
  <1>8. WorkerInv'
    <2>1. worker # "exited"
      BY DEF WorkerInv, HandlerInv, Up
    <2>2. worker = "insert" => Taken' > 0 /\ current = accepted'[Taken']
      BY <1>1, <1>2, <1>3, <1>7 DEF WorkerInv
    <2> QED BY <2>1, <2>2 DEF WorkerInv
  <1>9. TableInv'
    <2>1. Taken' = Taken
      BY <1>3
    <2> QED BY <1>7, <2>1 DEF TableInv
  <1>10. NoSilentLoss'
    BY <1>1, <1>2 DEF NoSilentLoss
  <1>11. InOrder'
    BY <1>2 DEF InOrder
  <1> QED BY <1>4, <1>5, <1>6, <1>8, <1>9, <1>10, <1>11

LEMMA RecordKeeps ==
    ASSUME AuditInv, NEW e \in AuditEvents, record(e)
    PROVE  AuditInv'
  <1>1. CASE Len(queue) < Capacity /\ queue' = Append(queue, e)
    BY <1>1, SendKeeps DEF record, workerVars, AuditInv, AuditTypeOK
  <1>2. CASE request' = [request EXCEPT ![e] = "full"] /\ UNCHANGED <<queue, accepted>>
    <2>1. /\ UNCHANGED <<server, worker, current, attempt, given_up, table, insertFaults>>
          /\ request' \in [AuditEvents -> Request]
          /\ \A d \in AuditEvents : request'[d] = "sent" <=> request[d] = "sent"
          /\ server \notin {"closed", "stopped"}
      BY <1>2 DEF record, AuditInv, AuditTypeOK, HandlerInv, workerVars
    <2> QED BY <1>2, <2>1 DEF AuditInv, AuditTypeOK, HandlerInv, QueueInv, WorkerInv, TableInv,
                              NoSilentLoss, InOrder, Taken
  <1> QED BY <1>1, <1>2 DEF record

\* The worker takes the oldest event of the channel.
LEMMA RecvKeeps ==
    ASSUME AuditInv, recv
    PROVE  AuditInv'
  <1> USE DEF AuditInv
  <1> DEFINE q == Len(queue)
             a == Len(accepted)
  <1>1. /\ queue' \in Seq(AuditEvents) /\ current' \in AuditEvents /\ current' = queue[1]
        /\ q \in Nat \ {0} /\ Len(queue') = q - 1
        /\ DOMAIN queue' = 1..(q - 1) /\ DOMAIN queue = 1..q
        /\ \A i \in 1..(q - 1) : queue'[i] = queue[i + 1]
        /\ Elements(queue) = Elements(queue') \cup {current'}
    BY Received DEF AuditTypeOK, recv
  <1>2. /\ worker = "recv" /\ worker' = "insert" /\ attempt' = 0 /\ Up
        /\ UNCHANGED <<server, request, accepted, given_up, table, insertFaults>>
        /\ a \in Nat /\ DOMAIN accepted = 1..a
    BY SequenceShape DEF recv, handlerVars, AuditTypeOK
  <1>3. Len(queue) =< Capacity
    BY DEF AuditTypeOK
  <1> HIDE DEF q, a
  <1>4. Taken = a - q /\ Taken' = Taken + 1 /\ q =< a /\ Taken \in Nat
    BY <1>1, <1>2 DEF Taken, QueueInv, q, a
  <1>5. current' = accepted[Taken + 1]
    BY <1>1, <1>4 DEF QueueInv
  <1>6. AuditTypeOK'
    BY <1>1, <1>2, <1>3 DEF AuditTypeOK, q
  <1>7. QueueInv'
    <2>1. ASSUME NEW i \in 1..(q - 1)
          PROVE  queue'[i] = accepted[Taken + 1 + i]
      <3>1. i + 1 \in 1..q /\ Taken + (i + 1) = Taken + 1 + i
        BY <1>1, <1>4
      <3> QED BY <1>1, <3>1 DEF QueueInv
    <2>2. Len(queue') =< Len(accepted') /\ UNCHANGED accepted
      BY <1>1, <1>2, <1>4 DEF a
    <2>3. DOMAIN queue' = 1..(q - 1) /\ Taken' = Taken + 1
      BY <1>1, <1>4
    <2> QED BY <2>1, <2>2, <2>3 DEF QueueInv
  <1>8. WorkerInv'
    BY <1>1, <1>2, <1>4, <1>5 DEF WorkerInv, Up
  <1>9. TableInv'
    BY <1>2, <1>4 DEF TableInv
  <1>10. NoSilentLoss'
    <2>1. current = NoEvent
      BY <1>2 DEF WorkerInv
    <2>2. Elements(accepted) \subseteq AuditEvents
      BY SequenceShape DEF AuditTypeOK, Elements
    <2> QED BY <1>1, <1>2, <2>1, <2>2 DEF NoSilentLoss
  <1> QED BY <1>2, <1>6, <1>7, <1>8, <1>9, <1>10 DEF HandlerInv, InOrder

-----------------------------------------------------------------------------
(* The worker at its event *)

LEMMA AtEvent ==
    ASSUME AuditInv, Up, worker = "insert"
    PROVE  /\ current \in AuditEvents /\ Taken \in Nat \ {0} /\ current = accepted[Taken]
           /\ Taken \in DOMAIN accepted /\ Len(accepted) \in Nat
  <1>1. Len(accepted) \in Nat /\ Len(queue) \in Nat /\ DOMAIN accepted = 1..Len(accepted)
        /\ \A i \in 1..Len(accepted) : accepted[i] \in AuditEvents
    BY SequenceShape DEF AuditInv, AuditTypeOK
  <1>2. Taken \in 1..Len(accepted) /\ current = accepted[Taken]
    BY <1>1 DEF AuditInv, WorkerInv, QueueInv, Taken
  <1> QED BY <1>1, <1>2

\* A row is added: the event at the worker, behind all rows.
LEMMA RowAdded ==
    ASSUME AuditInv, Up, worker = "insert", current \notin Elements(table),
           table' = Append(table, current), UNCHANGED <<accepted, queue>>
    PROVE  /\ table' \in Seq(AuditEvents) /\ TableInv' /\ InOrder'
           /\ Elements(table') = Elements(table) \cup {current}
  <1> USE DEF AuditInv
  <1>1. /\ current \in AuditEvents /\ Taken \in Nat \ {0} /\ current = accepted[Taken]
        /\ Taken \in DOMAIN accepted /\ Taken' = Taken
    BY AtEvent DEF Taken
  <1> DEFINE t == Len(table)
  <1>2. /\ table' \in Seq(AuditEvents) /\ t \in Nat
        /\ DOMAIN table' = 1..(t + 1) /\ DOMAIN table = 1..t
        /\ \A i \in 1..t : table'[i] = table[i]
        /\ table'[t + 1] = current
        /\ Elements(table') = Elements(table) \cup {current}
    BY <1>1, Appended DEF AuditTypeOK
  <1> HIDE DEF t
  <1>3. TableInv'
    <2>1. Taken \in 1..Taken
      BY <1>1
    <2> QED BY <1>1, <1>2, <2>1 DEF TableInv
  <1>4. ASSUME NEW i \in 1..t
        PROVE  \E m \in DOMAIN accepted : m < Taken /\ accepted[m] = table[i]
    <2>1. PICK m \in 1..Taken : accepted[m] = table[i]
      BY <1>2, <1>4 DEF TableInv
    <2>2. m # Taken
      BY <1>1, <1>2, <2>1 DEF Elements
    <2>3. DOMAIN accepted = 1..Len(accepted) /\ Len(accepted) \in Nat
      BY SequenceShape DEF AuditTypeOK
    <2> QED BY <1>1, <2>1, <2>2, <2>3
  <1>5. InOrder'
    <2> SUFFICES ASSUME NEW i \in 1..(t + 1), NEW j \in 1..(t + 1), i < j
                 PROVE  \E m, n \in DOMAIN accepted :
                            m < n /\ accepted[m] = table'[i] /\ accepted[n] = table'[j]
      BY <1>2 DEF InOrder
    <2>1. i \in 1..t /\ (j \in 1..t \/ j = t + 1)
      BY <1>2
    <2>2. CASE j \in 1..t
      BY <1>2, <2>1, <2>2 DEF InOrder
    <2>3. CASE j = t + 1
      BY <1>1, <1>2, <1>4, <2>1, <2>3
    <2> QED BY <2>1, <2>2, <2>3
  <1> QED BY <1>2, <1>3, <1>5

LEMMA InsertOkKeeps ==
    ASSUME AuditInv, InsertOk
    PROVE  AuditInv'
  <1> USE DEF AuditInv
  <1>1. /\ Up /\ worker = "insert" /\ worker' = "recv" /\ current' = NoEvent /\ attempt' = 0
        /\ current \notin Elements(table) /\ table' = Append(table, current)
        /\ UNCHANGED <<server, request, accepted, queue, given_up, insertFaults>>
    BY DEF InsertOk, Done, handlerVars
  <1>2. /\ table' \in Seq(AuditEvents) /\ TableInv' /\ InOrder'
        /\ Elements(table') = Elements(table) \cup {current}
    BY <1>1, RowAdded
  <1>3. AuditTypeOK'
    BY <1>1, <1>2 DEF AuditTypeOK
  <1>4. NoSilentLoss'
    BY <1>1, <1>2 DEF NoSilentLoss
  <1> QED BY <1>1, <1>2, <1>3, <1>4 DEF HandlerInv, QueueInv, WorkerInv, Taken, Up

\* The error branch, whatever has become of the row.
LEMMA ErrorKeeps ==
    ASSUME AuditInv, Up, worker = "insert", HandleError,
           UNCHANGED <<server, request, accepted>>, insertFaults' \in 0..MaxInsertFaults,
           table' \in Seq(AuditEvents), TableInv', InOrder',
           Elements(table) \subseteq Elements(table')
    PROVE  AuditInv'
  <1> USE DEF AuditInv
  <1>1. current \in AuditEvents /\ attempt \in 0..MaxRetries /\ UNCHANGED queue
    BY AtEvent DEF AuditTypeOK, HandleError
  <1>2. CASE /\ attempt + 1 > MaxRetries
             /\ given_up' = given_up \cup {<<current, attempt + 1>>}
             /\ Done
    <2>1. attempt + 1 = MaxRetries + 1 /\ attempt + 1 \in Nat
      BY <1>1, <1>2
    <2>2. AuditTypeOK'
      BY <1>1, <1>2, <2>1 DEF AuditTypeOK, Done
    <2>3. NoSilentLoss'
      BY <1>1, <1>2, <2>1 DEF NoSilentLoss
    <2> QED BY <1>1, <1>2, <2>2, <2>3 DEF HandlerInv, QueueInv, WorkerInv, Taken, Up,
               Done
  <1>3. CASE /\ attempt + 1 =< MaxRetries
             /\ attempt' = attempt + 1
             /\ UNCHANGED <<worker, current, given_up>>
    <2>1. AuditTypeOK'
      BY <1>1, <1>3 DEF AuditTypeOK
    <2>2. NoSilentLoss'
      BY <1>1, <1>3 DEF NoSilentLoss
    <2> QED BY <1>1, <1>3, <2>1, <2>2 DEF HandlerInv, QueueInv, WorkerInv, Taken
  <1> QED BY <1>2, <1>3 DEF HandleError

LEMMA FailKeeps ==
    ASSUME AuditInv,
           (\E committed \in BOOLEAN : InsertFails(committed)) \/ InsertDuplicate
    PROVE  AuditInv'
  <1>1. CASE InsertDuplicate
    <2>1. table' = table /\ UNCHANGED queue /\ UNCHANGED <<server, request, accepted, insertFaults>>
      BY <1>1 DEF InsertDuplicate, HandleError, handlerVars
    <2>2. TableInv' /\ InOrder'
      BY <2>1 DEF AuditInv, TableInv, InOrder, Taken
    <2> QED BY <1>1, <2>1, <2>2, ErrorKeeps DEF InsertDuplicate, AuditInv, AuditTypeOK
  <1>2. ASSUME NEW committed \in BOOLEAN, InsertFails(committed)
        PROVE  AuditInv'
    <2>1. /\ Up /\ worker = "insert" /\ HandleError
          /\ current \notin Elements(table)
          /\ UNCHANGED <<server, request, accepted, queue>> /\ insertFaults' \in 0..MaxInsertFaults
      BY <1>2 DEF InsertFails, HandleError, handlerVars, AuditInv, AuditTypeOK
    <2>2. CASE committed
      <3>1. table' = Append(table, current)
        BY <1>2, <2>2 DEF InsertFails
      <3> QED BY <2>1, <3>1, RowAdded, ErrorKeeps
    <2>3. CASE ~committed
      <3>1. table' = table
        BY <1>2, <2>3 DEF InsertFails
      <3>2. TableInv' /\ InOrder'
        BY <2>1, <3>1 DEF AuditInv, TableInv, InOrder, Taken
      <3> QED BY <2>1, <3>1, <3>2, ErrorKeeps DEF AuditInv, AuditTypeOK
    <2> QED BY <2>2, <2>3
  <1> QED BY <1>1, <1>2

-----------------------------------------------------------------------------
(* The process *)

LEMMA StopKeeps ==
    ASSUME AuditInv, WorkerExits \/ Signal \/ ServeReturns \/ Stop
    PROVE  AuditInv'
  <1> USE DEF AuditInv, handlerVars, workerVars, WorkerExits, Signal,
              ServeReturns, Stop
  <1>1. UNCHANGED <<request, accepted, queue, current, attempt, given_up, table, insertFaults>>
    OBVIOUS
  <1>2. AuditTypeOK'
    BY DEF AuditTypeOK
  <1>3. HandlerInv'
    BY <1>1 DEF HandlerInv
  <1>4. WorkerInv'
    BY <1>1 DEF WorkerInv, Taken
  <1> QED BY <1>1, <1>2, <1>3, <1>4 DEF QueueInv, TableInv, NoSilentLoss, InOrder, Taken

LEMMA CrashKeeps ==
    ASSUME AuditInv, ProcessDies
    PROVE  AuditInv'
  <1> USE DEF AuditInv
  <1>1. /\ server' = "crashed" /\ queue' = <<>> /\ worker' = "exited" /\ current' = NoEvent
        /\ attempt' = 0 /\ UNCHANGED <<accepted, given_up, table, insertFaults>>
        /\ request' = [e \in AuditEvents |->
                         IF request[e] \in InFlight THEN "gone" ELSE request[e]]
    BY DEF ProcessDies
  <1>2. Len(queue') = 0 /\ queue' \in Seq(AuditEvents) /\ DOMAIN queue' = {}
        /\ Len(accepted) \in Nat /\ Len(queue) \in Nat
    BY <1>1, SequenceShape DEF AuditTypeOK
  <1>3. Taken' \in Nat /\ Taken =< Taken' /\ Taken \in Int
    BY <1>1, <1>2 DEF Taken
  <1>4. AuditTypeOK'
    BY <1>1, <1>2 DEF AuditTypeOK
  <1>5. HandlerInv' /\ QueueInv' /\ WorkerInv'
    BY <1>1, <1>2 DEF HandlerInv, QueueInv, WorkerInv, AuditTypeOK
  <1>6. TableInv'
    BY <1>1, <1>3 DEF TableInv
  <1> QED BY <1>1, <1>4, <1>5, <1>6 DEF NoSilentLoss, InOrder

LEMMA AuditStep == AuditInv /\ [AuditNext]_auditVars => AuditInv'
  <1>1. ASSUME AuditInv, UNCHANGED auditVars
        PROVE  AuditInv'
    BY <1>1 DEF auditVars, handlerVars, workerVars, AuditInv, AuditTypeOK,
       HandlerInv, QueueInv, WorkerInv, TableInv, NoSilentLoss, InOrder, Taken
  <1> QED BY <1>1, RequestKeeps, RecordKeeps, RecvKeeps, InsertOkKeeps, FailKeeps, StopKeeps,
             CrashKeeps DEF AuditNext

\* The inductive invariant holds in every state.
THEOREM AuditSafety == AuditSpec => []AuditInv
  BY AuditInitInv, AuditStep, PTL DEF AuditSpec

\* Every variable keeps its type: the channel never holds more than its capacity.
THEOREM AuditTypeOKHolds == AuditSpec => []AuditTypeOK
  <1>1. AuditInv => AuditTypeOK
    BY DEF AuditInv
  <1> QED BY <1>1, AuditSafety, PTL

\* An event that try_send took is in the table, in the channel or at the worker, or was
\* dropped after max_retries + 1 failures, as long as the process has not crashed.
THEOREM NoSilentLossHolds == AuditSpec => []NoSilentLoss
  <1>1. AuditInv => NoSilentLoss
    BY DEF AuditInv
  <1> QED BY <1>1, AuditSafety, PTL

\* The rows of audit_events are in the order in which their events were accepted.
THEOREM InOrderHolds == AuditSpec => []InOrder
  <1>1. AuditInv => InOrder
    BY DEF AuditInv
  <1> QED BY <1>1, AuditSafety, PTL

\* No event is in the trail twice, although a lost answer makes the worker insert again.
THEOREM RowsOnce ==
    AuditSpec =>
        [](\A i, j \in DOMAIN table : i < j => table[i] # table[j])
  <1>1. AuditInv => \A i, j \in DOMAIN table : i < j => table[i] # table[j]
    <2> SUFFICES ASSUME AuditInv, NEW i \in DOMAIN table, NEW j \in DOMAIN table, i < j
                 PROVE  table[i] # table[j]
      OBVIOUS
    <2>1. PICK m \in DOMAIN accepted, n \in DOMAIN accepted :
             m < n /\ accepted[m] = table[i] /\ accepted[n] = table[j]
      BY DEF AuditInv, InOrder
    <2>2. m # n
      BY <2>1, SequenceShape DEF AuditInv, AuditTypeOK
    <2> QED BY <2>1, <2>2 DEF AuditInv, HandlerInv
  <1> QED BY <1>1, AuditSafety, PTL

\* run_serve closes the pool after the drain: every event that was accepted is in the
\* table or was given up, and no handler was cut off.
THEOREM ShutdownDrainsHolds == AuditSpec => []ShutdownDrains
  <1>1. AuditInv => ShutdownDrains
    <2> SUFFICES ASSUME AuditInv, server = "stopped", NEW e \in AuditEvents
                 PROVE  \/ request[e] \in {"none", "full", "gone"}
                        \/ /\ request[e] = "sent"
                           /\ e \in Elements(table) \/ <<e, MaxRetries + 1>> \in given_up
      BY DEF ShutdownDrains
    <2>1. request[e] \in Request \ InFlight
      BY DEF AuditInv, AuditTypeOK, HandlerInv
    <2>2. queue = <<>> /\ current = NoEvent
      BY DEF AuditInv, WorkerInv
    <2>3. request[e] = "sent" => e \in Elements(table) \/ <<e, MaxRetries + 1>> \in given_up
      BY <2>2, EmptyElements DEF AuditInv, HandlerInv, NoSilentLoss
    <2> QED BY <2>1, <2>3
  <1> QED BY <1>1, AuditSafety, PTL
=============================================================================
