----------------------------- MODULE AuditTrail -----------------------------
(***************************************************************************)
(* The audit trail of one server process: request handlers that record an  *)
(* event after their change is committed (record_event.rs), the bounded    *)
(* channel between them and the AuditWorker (worker.rs), the audit_events  *)
(* table, and the way the process stops (run_serve in main.rs).            *)
(*                                                                         *)
(* One event is what one request has to record.  Backoff between retries   *)
(* is a matter of time alone and is left out.  The answer to an insert may *)
(* be lost although the row is committed; a retry of such an insert then   *)
(* violates the primary key every time.                                    *)
(***************************************************************************)
EXTENDS Naturals, Sequences

CONSTANTS AuditEvents,      \* one per request
          NoEvent,
          Capacity,         \* audit_channel_capacity
          MaxRetries,       \* audit_max_retries
          MaxInsertFaults   \* bound: inserts that fail or whose answer is lost

ASSUME AuditAssumption ==
    /\ NoEvent \notin AuditEvents
    /\ Capacity \in Nat \ {0}
    /\ MaxRetries \in Nat
    /\ MaxInsertFaults \in Nat

VARIABLES
    server,        \* the process
    request,       \* the handler of each request
    queue,         \* the channel
    worker,        \* where the worker is
    current,       \* the event it writes
    attempt,       \* failed inserts of that event
    table,         \* committed rows, in the order of their inserts
    insertFaults,  \* database faults that may still happen
    accepted,      \* history: events that try_send took, in order
    given_up       \* history: <<e, n>>: e dropped by the worker after n failures

handlerVars == <<request, accepted>>
workerVars == <<worker, current, attempt, given_up>>
auditVars == <<server, handlerVars, queue, workerVars, table, insertFaults>>

Server == {"serving", "draining", "closed", "stopped", "crashed"}
Request == {"none", "working", "changed", "sent", "full", "gone"}
InFlight == {"working", "changed"}

\* The members of a sequence.
Elements(s) == {s[i] : i \in DOMAIN s}

AuditTypeOK ==
    /\ server \in Server
    /\ request \in [AuditEvents -> Request]
    /\ queue \in Seq(AuditEvents) /\ Len(queue) =< Capacity
    /\ worker \in {"recv", "insert", "exited"}
    /\ current \in AuditEvents \cup {NoEvent}
    /\ attempt \in 0..MaxRetries
    /\ table \in Seq(AuditEvents)
    /\ insertFaults \in 0..MaxInsertFaults
    /\ accepted \in Seq(AuditEvents)
    /\ given_up \subseteq AuditEvents \X Nat

AuditInit ==
    /\ server = "serving"
    /\ request = [e \in AuditEvents |-> "none"]
    /\ queue = <<>>
    /\ worker = "recv"
    /\ current = NoEvent
    /\ attempt = 0
    /\ table = <<>>
    /\ insertFaults = MaxInsertFaults
    /\ accepted = <<>>
    /\ given_up = {}

Up == server \notin {"stopped", "crashed"}

-----------------------------------------------------------------------------
(* Handlers *)

\* A request comes in.
Accept(e) ==
    /\ server = "serving"
    /\ request[e] = "none"
    /\ request' = [request EXCEPT ![e] = "working"]
    /\ UNCHANGED <<server, accepted, queue, workerVars, table, insertFaults>>

\* Its change is committed: the event is still only in the handler's memory.
Change(e) ==
    /\ Up /\ request[e] = "working"
    /\ request' = [request EXCEPT ![e] = "changed"]
    /\ UNCHANGED <<server, accepted, queue, workerVars, table, insertFaults>>

\* Mutant of record: one event too many is taken.
record_OffByOne(e) ==
    /\ Up /\ request[e] = "changed"
    /\ \/ /\ Len(queue) =< Capacity
          /\ queue' = Append(queue, e)
          /\ accepted' = Append(accepted, e)
          /\ request' = [request EXCEPT ![e] = "sent"]
       \/ /\ Len(queue) > Capacity
          /\ request' = [request EXCEPT ![e] = "full"]
          /\ UNCHANGED <<queue, accepted>>
    /\ UNCHANGED <<server, workerVars, table, insertFaults>>

\* try_send never waits: a full channel drops the event.  It is never closed: the
\* worker keeps its receiver until all senders are gone (it would be only if the worker
\* task panicked, which is not modelled).
record(e) ==
    /\ Up /\ request[e] = "changed"
    /\ \/ /\ Len(queue) < Capacity
          /\ queue' = Append(queue, e)
          /\ accepted' = Append(accepted, e)
          /\ request' = [request EXCEPT ![e] = "sent"]
       \/ /\ Len(queue) >= Capacity
          /\ request' = [request EXCEPT ![e] = "full"]
          /\ UNCHANGED <<queue, accepted>>
    /\ UNCHANGED <<server, workerVars, table, insertFaults>>

\* The client leaves and the handler is dropped at an await, or the change fails.
Abandon(e) ==
    /\ Up /\ request[e] \in InFlight
    /\ request' = [request EXCEPT ![e] = "gone"]
    /\ UNCHANGED <<server, accepted, queue, workerVars, table, insertFaults>>

-----------------------------------------------------------------------------
(* The worker *)

\* Mutant of recv: the newest event first.
recv_NewestFirst ==
    /\ Up /\ worker = "recv" /\ queue # <<>>
    /\ current' = queue[Len(queue)]
    /\ queue' = SubSeq(queue, 1, Len(queue) - 1)
    /\ attempt' = 0
    /\ worker' = "insert"
    /\ UNCHANGED <<server, handlerVars, given_up, table, insertFaults>>

\* The next event of the channel.
recv ==
    /\ Up /\ worker = "recv" /\ queue # <<>>
    /\ current' = Head(queue)
    /\ queue' = Tail(queue)
    /\ attempt' = 0
    /\ worker' = "insert"
    /\ UNCHANGED <<server, handlerVars, given_up, table, insertFaults>>

\* write_with_retry returns.
Done ==
    /\ current' = NoEvent
    /\ attempt' = 0
    /\ worker' = "recv"

InsertOk ==
    /\ Up /\ worker = "insert"
    /\ current \notin Elements(table)
    /\ table' = Append(table, current)
    /\ Done
    /\ UNCHANGED <<server, handlerVars, queue, given_up, insertFaults>>

\* Mutants of HandleError: the first failure is final and not reported; failures
\* are not counted.
HandleError_NeverRetries ==
    /\ Done
    /\ UNCHANGED <<queue, given_up>>

HandleError_Forever ==
    /\ attempt' = attempt
    /\ UNCHANGED <<worker, current, given_up, queue>>

\* The error branch: count, then give up or try again.
HandleError ==
    /\ \/ /\ attempt + 1 > MaxRetries
          /\ given_up' = given_up \cup {<<current, attempt + 1>>}
          /\ Done
       \/ /\ attempt + 1 =< MaxRetries
          /\ attempt' = attempt + 1
          /\ UNCHANGED <<worker, current, given_up>>
    /\ UNCHANGED queue

\* The insert fails; the row may have been committed nevertheless.
InsertFails(committed) ==
    /\ Up /\ worker = "insert"
    /\ insertFaults > 0 /\ current \notin Elements(table)
    /\ insertFaults' = insertFaults - 1
    /\ table' = IF committed THEN Append(table, current) ELSE table
    /\ HandleError
    /\ UNCHANGED <<server, handlerVars>>

\* The row is there already: the primary key is violated.
InsertDuplicate ==
    /\ Up /\ worker = "insert"
    /\ current \in Elements(table)
    /\ HandleError
    /\ UNCHANGED <<server, handlerVars, table, insertFaults>>

\* Mutant of WorkerExits: the loop ends as soon as the channel is closed.
WorkerExits_Undrained ==
    /\ server = "closed"
    /\ worker = "recv"
    /\ worker' = "exited"
    /\ UNCHANGED <<server, handlerVars, queue, current, attempt, given_up>>
    /\ UNCHANGED <<table, insertFaults>>

\* recv yields None once every sender is dropped and the channel is empty.
WorkerExits ==
    /\ server = "closed"
    /\ worker = "recv" /\ queue = <<>>
    /\ worker' = "exited"
    /\ UNCHANGED <<server, handlerVars, queue, current, attempt, given_up>>
    /\ UNCHANGED <<table, insertFaults>>

-----------------------------------------------------------------------------
(* The process *)

\* SIGTERM or Ctrl-C: no new requests.
Signal ==
    /\ server = "serving"
    /\ server' = "draining"
    /\ UNCHANGED <<handlerVars, queue, workerVars, table, insertFaults>>

\* axum::serve returns when no request is in flight.  The router, and with it the
\* last sender of the channel, is dropped; relayer and job runner are shut down.
ServeReturns ==
    /\ server = "draining"
    /\ \A e \in AuditEvents : request[e] \notin InFlight
    /\ server' = "closed"
    /\ UNCHANGED <<handlerVars, queue, workerVars, table, insertFaults>>

\* The worker has been joined; the pool is closed and main returns.
Stop ==
    /\ server = "closed" /\ worker = "exited"
    /\ server' = "stopped"
    /\ UNCHANGED <<handlerVars, queue, workerVars, table, insertFaults>>

\* The process dies: handlers, channel and worker are gone.
ProcessDies ==
    /\ Up
    /\ server' = "crashed"
    /\ request' = [e \in AuditEvents |-> IF request[e] \in InFlight THEN "gone" ELSE request[e]]
    /\ queue' = <<>>
    /\ worker' = "exited"
    /\ current' = NoEvent
    /\ attempt' = 0
    /\ UNCHANGED <<accepted, given_up, table, insertFaults>>

AuditNext ==
    \/ \E e \in AuditEvents : Accept(e)
    \/ \E e \in AuditEvents : Change(e)
    \/ \E e \in AuditEvents : record(e)
    \/ \E e \in AuditEvents : Abandon(e)
    \/ recv
    \/ InsertOk
    \/ \E committed \in BOOLEAN : InsertFails(committed)
    \/ InsertDuplicate
    \/ WorkerExits
    \/ Signal
    \/ ServeReturns
    \/ Stop
    \/ ProcessDies

AuditSpec == AuditInit /\ [][AuditNext]_auditVars

WorkerStep ==
    \/ recv \/ InsertOk \/ (\E committed \in BOOLEAN : InsertFails(committed))
    \/ InsertDuplicate \/ WorkerExits

\* Handlers and the worker keep being polled, and main goes on.
FairAuditSpec ==
    /\ AuditSpec
    /\ \A e \in AuditEvents : WF_auditVars(Change(e) \/ record(e) \/ Abandon(e))
    /\ WF_auditVars(WorkerStep)
    /\ WF_auditVars(ServeReturns) /\ WF_auditVars(Stop)

-----------------------------------------------------------------------------
(* What the audit trail guarantees *)

\* No accepted event is lost silently while the process lives: it is in the table,
\* in the channel, at the worker, or was dropped after max_retries + 1 failures.
NoSilentLoss ==
    server # "crashed" =>
        \A e \in Elements(accepted) :
            \/ e \in Elements(table) \cup Elements(queue) \cup {current}
            \/ <<e, MaxRetries + 1>> \in given_up

\* The trail is in order: the rows are a subsequence of the accepted events, none
\* twice, although inserts fail, answers are lost and retries follow.
InOrder ==
    \A i, j \in DOMAIN table :
        i < j => \E m, n \in DOMAIN accepted :
                    m < n /\ accepted[m] = table[i] /\ accepted[n] = table[j]

\* The pool is closed only after the drain: no handler is cut off, and every event
\* that was accepted is in the table or was given up.
ShutdownDrains ==
    server = "stopped" =>
        \A e \in AuditEvents :
            \/ request[e] \in {"none", "full", "gone"}
            \/ /\ request[e] = "sent"
               /\ e \in Elements(table) \/ <<e, MaxRetries + 1>> \in given_up

\* A process told to stop stops (or dies): the drain ends although the database fails.
ShutdownEnds == server = "draining" ~> server \in {"stopped", "crashed"}
=============================================================================
