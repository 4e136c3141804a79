----------------------------- MODULE OutboxRelay -----------------------------
(***************************************************************************)
(* The transactional outbox: services append event rows inside their own   *)
(* transactions (outbox_repository_pg.rs) and relayers move committed rows *)
(* into the jobs table (relayer.rs), one transaction per tick.             *)
(*                                                                         *)
(* PostgreSQL is modelled by what the statements rely on: READ COMMITTED   *)
(* visibility (an uncommitted insert or update is seen by nobody else) and *)
(* row locks held from FOR UPDATE to the end of the transaction.  The rows *)
(* a relayer's open transaction has locked are batch[r].                   *)
(***************************************************************************)
EXTENDS Naturals, FiniteSets

CONSTANTS Events,     \* event rows that services may append
          Relayers,   \* incarnations of relayer tasks
          Stable,     \* relayers that are neither stopped nor crash
          BatchSize,  \* batch_size
          MaxFaults   \* bound: ticks that fail with a database error

ASSUME OutboxAssumption ==
    /\ Stable \subseteq Relayers
    /\ BatchSize \in Nat \ {0}
    /\ MaxFaults \in Nat

VARIABLES
    tx,        \* the service transaction that appends e
    created,   \* created_at of e: now() is the start of the transaction
    clock,     \* the next created_at
    relayed,   \* committed rows with relayed_at set
    jobs,      \* number of committed job rows made from e
    phase,     \* where in run/tick the relayer is
    batch,     \* rows claimed (and locked) by the open transaction
    todo,      \* rows of the batch whose job is not inserted yet
    stop,      \* the shutdown watch channel
    faults     \* ticks that may still fail

serviceVars == <<tx, created, clock>>
relayerVars == <<phase, batch, todo, stop>>
vars == <<serviceVars, relayed, jobs, relayerVars, faults>>

TxState == {"none", "open", "committed", "rolled_back"}
InTick == {"claim", "enqueue", "mark", "commit"}
Phase == {"off", "poll", "exited", "crashed"} \cup InTick

TypeOK ==
    /\ tx \in [Events -> TxState]
    /\ created \in [Events -> Nat]
    /\ clock \in Nat
    /\ relayed \subseteq Events
    /\ jobs \in [Events -> Nat]
    /\ phase \in [Relayers -> Phase]
    /\ batch \in [Relayers -> SUBSET Events]
    /\ todo \in [Relayers -> SUBSET Events]
    /\ stop \in [Relayers -> BOOLEAN]
    /\ faults \in 0..MaxFaults

Init ==
    /\ tx = [e \in Events |-> "none"]
    /\ created = [e \in Events |-> 0]
    /\ clock = 0
    /\ relayed = {}
    /\ jobs = [e \in Events |-> 0]
    /\ phase = [r \in Relayers |-> "off"]
    /\ batch = [r \in Relayers |-> {}]
    /\ todo = [r \in Relayers |-> {}]
    /\ stop = [r \in Relayers |-> FALSE]
    /\ faults = MaxFaults

-----------------------------------------------------------------------------
(* A service *)

\* The service opens a transaction, makes its change and calls append_in_tx.
append_in_tx(e) ==
    /\ tx[e] = "none"
    /\ tx' = [tx EXCEPT ![e] = "open"]
    /\ created' = [created EXCEPT ![e] = clock]
    /\ clock' = clock + 1
    /\ UNCHANGED <<relayed, jobs, relayerVars, faults>>

\* The change and the event commit or roll back together.
EndServiceTx(e, outcome) ==
    /\ tx[e] = "open"
    /\ tx' = [tx EXCEPT ![e] = outcome]
    /\ UNCHANGED <<created, clock, relayed, jobs, relayerVars, faults>>

-----------------------------------------------------------------------------
(* A relayer *)

spawn(r) ==
    /\ phase[r] = "off"
    /\ phase' = [phase EXCEPT ![r] = "poll"]
    /\ UNCHANGED <<serviceVars, relayed, jobs, batch, todo, stop, faults>>

\* OutboxRelayerHandle::shutdown.
shutdown(r) ==
    /\ phase[r] \in InTick \cup {"poll"} /\ ~stop[r] /\ r \notin Stable
    /\ stop' = [stop EXCEPT ![r] = TRUE]
    /\ UNCHANGED <<serviceVars, relayed, jobs, phase, batch, todo, faults>>

\* The top of run: leave on shutdown, else begin the transaction of a tick.
LoopTop(r) ==
    /\ phase[r] = "poll"
    /\ phase' = [phase EXCEPT ![r] = IF stop[r] THEN "exited" ELSE "claim"]
    /\ UNCHANGED <<serviceVars, relayed, jobs, batch, todo, stop, faults>>

Locked(e) == \E r \in Relayers : e \in batch[r]

\* Mutant of Claimable: no row locks.
Claimable_NoSkipLocked == {e \in Events : tx[e] = "committed" /\ e \notin relayed}

\* Rows the claim statement can return: committed, relayed_at IS NULL, and
\* not locked by another transaction (SKIP LOCKED).
Claimable == {e \in Events : tx[e] = "committed" /\ e \notin relayed /\ ~Locked(e)}

\* ORDER BY created_at LIMIT BatchSize.
Oldest(B, S) ==
    /\ B \subseteq S
    /\ \/ B = S /\ Cardinality(S) =< BatchSize
       \/ Cardinality(B) = BatchSize
    /\ \A e \in B, f \in S \ B : created[e] =< created[f]

\* Mutant of claim_unrelayed_in_tx: an empty result ends the loop.
claim_unrelayed_in_tx_StopsWhenEmpty(r) ==
    /\ phase[r] = "claim"
    /\ \E B \in SUBSET Claimable :
         /\ Oldest(B, Claimable)
         /\ batch' = [batch EXCEPT ![r] = B]
         /\ todo' = [todo EXCEPT ![r] = B]
         /\ phase' = [phase EXCEPT ![r] = IF B = {} THEN "drained" ELSE "enqueue"]
    /\ UNCHANGED <<serviceVars, relayed, jobs, stop, faults>>

\* An empty result rolls back and sleeps.
claim_unrelayed_in_tx(r) ==
    /\ phase[r] = "claim"
    /\ \E B \in SUBSET Claimable :
         /\ Oldest(B, Claimable)
         /\ batch' = [batch EXCEPT ![r] = B]
         /\ todo' = [todo EXCEPT ![r] = B]
         /\ phase' = [phase EXCEPT ![r] = IF B = {} THEN "poll" ELSE "enqueue"]
    /\ UNCHANGED <<serviceVars, relayed, jobs, stop, faults>>

\* One turn of the loop over the batch: insert the job of the next row, unseen
\* by others until the commit.
enqueue_in_tx(r) ==
    /\ phase[r] = "enqueue"
    /\ \E e \in todo[r] :
         /\ \A f \in todo[r] : created[e] =< created[f]
         /\ todo' = [todo EXCEPT ![r] = @ \ {e}]
         /\ phase' = [phase EXCEPT ![r] =
                        IF todo[r] = {e} THEN "mark" ELSE "enqueue"]
    /\ UNCHANGED <<serviceVars, relayed, jobs, batch, stop, faults>>

\* Mutant of mark_relayed_in_tx: the update runs on the pool, outside the
\* transaction, and is visible before the jobs are.
mark_relayed_in_tx_OutsideTx(r) ==
    /\ phase[r] = "mark"
    /\ relayed' = relayed \cup batch[r]
    /\ phase' = [phase EXCEPT ![r] = "commit"]
    /\ UNCHANGED <<serviceVars, jobs, batch, todo, stop, faults>>

\* relayed_at is set inside the transaction: unseen until the commit, too.
mark_relayed_in_tx(r) ==
    /\ phase[r] = "mark"
    /\ phase' = [phase EXCEPT ![r] = "commit"]
    /\ UNCHANGED <<serviceVars, relayed, jobs, batch, todo, stop, faults>>

\* Mutant of commit: relayed_at is not part of the transaction.
commit_JobsOnly(r) ==
    /\ phase[r] = "commit"
    /\ jobs' = [e \in Events |->
                  IF e \in batch[r] \ todo[r] THEN jobs[e] + 1 ELSE jobs[e]]
    /\ batch' = [batch EXCEPT ![r] = {}]
    /\ todo' = [todo EXCEPT ![r] = {}]
    /\ phase' = [phase EXCEPT ![r] = "poll"]
    /\ UNCHANGED <<serviceVars, relayed, stop, faults>>

\* The job rows and relayed_at become visible at once and the locks are
\* released.  If only the answer is lost, the relayer polls again all the same.
commit(r) ==
    /\ phase[r] = "commit"
    /\ jobs' = [e \in Events |->
                  IF e \in batch[r] \ todo[r] THEN jobs[e] + 1 ELSE jobs[e]]
    /\ relayed' = relayed \cup batch[r]
    /\ batch' = [batch EXCEPT ![r] = {}]
    /\ todo' = [todo EXCEPT ![r] = {}]
    /\ phase' = [phase EXCEPT ![r] = "poll"]
    /\ UNCHANGED <<serviceVars, stop, faults>>

\* A statement of the tick fails: the transaction is dropped, hence rolled
\* back, and the relayer sleeps.
TickFails(r) ==
    /\ phase[r] \in InTick
    /\ faults > 0
    /\ faults' = faults - 1
    /\ batch' = [batch EXCEPT ![r] = {}]
    /\ todo' = [todo EXCEPT ![r] = {}]
    /\ phase' = [phase EXCEPT ![r] = "poll"]
    /\ UNCHANGED <<serviceVars, relayed, jobs, stop>>

\* The process dies.  Its transaction stays open, and its rows locked, until
\* the server notices.
Crash(r) ==
    /\ phase[r] \in InTick \cup {"poll"} /\ r \notin Stable
    /\ phase' = [phase EXCEPT ![r] = "crashed"]
    /\ UNCHANGED <<serviceVars, relayed, jobs, batch, todo, stop, faults>>

\* The server ends the session of a dead relayer and rolls back.
ServerRollback(r) ==
    /\ phase[r] = "crashed" /\ batch[r] # {}
    /\ batch' = [batch EXCEPT ![r] = {}]
    /\ todo' = [todo EXCEPT ![r] = {}]
    /\ UNCHANGED <<serviceVars, relayed, jobs, phase, stop, faults>>

Next ==
    \/ \E e \in Events : append_in_tx(e)
    \/ \E e \in Events, outcome \in {"committed", "rolled_back"} :
          EndServiceTx(e, outcome)
    \/ \E r \in Relayers : spawn(r)
    \/ \E r \in Relayers : shutdown(r)
    \/ \E r \in Relayers : LoopTop(r)
    \/ \E r \in Relayers : claim_unrelayed_in_tx(r)
    \/ \E r \in Relayers : enqueue_in_tx(r)
    \/ \E r \in Relayers : mark_relayed_in_tx(r)
    \/ \E r \in Relayers : commit(r)
    \/ \E r \in Relayers : TickFails(r)
    \/ \E r \in Relayers : Crash(r)
    \/ \E r \in Relayers : ServerRollback(r)

Spec == Init /\ [][Next]_vars

RelayerStep(r) ==
    \/ LoopTop(r) \/ claim_unrelayed_in_tx(r) \/ enqueue_in_tx(r)
    \/ mark_relayed_in_tx(r) \/ commit(r) \/ TickFails(r)

\* A started relayer task keeps being polled, the Stable ones are started, and
\* the server ends the sessions of dead clients.
FairSpec ==
    /\ Spec
    /\ \A r \in Relayers : WF_vars(RelayerStep(r)) /\ WF_vars(ServerRollback(r))
    /\ \A r \in Stable : WF_vars(spawn(r))

-----------------------------------------------------------------------------
(* What the outbox guarantees *)

\* Exactly one job per relayed event and none for any other: no relayer, alone or
\* in competition, crashing or failing anywhere in a tick, enqueues an event twice
\* or marks one as relayed without its job; and no job exists for a transaction
\* that did not commit.
OneJobPerRelayedEvent ==
    \A e \in Events :
        /\ jobs[e] = IF e \in relayed THEN 1 ELSE 0
        /\ e \in relayed => tx[e] = "committed"

\* The fate of every event, read off the committed tables.  More than one job,
\* or a job of an uncommitted transaction, is no fate of EventDelivery.
fate ==
    [e \in Events |->
        IF jobs[e] = 0
        THEN IF tx[e] # "committed" THEN "none"
             ELSE IF e \notin relayed THEN "published" ELSE "lost"
        ELSE IF jobs[e] = 1 /\ tx[e] = "committed" THEN "queued" ELSE "duplicated"]

Delivery == INSTANCE EventDelivery WITH Events <- Events, fate <- fate

\* The outbox implements EventDelivery.
DeliverySpec == Delivery!Spec

\* Every committed event becomes a job, despite crashes and failed ticks, once a
\* relayer stays up.
EveryEventRelayed ==
    \A e \in Events : tx[e] = "committed" ~> jobs[e] = 1
=============================================================================
