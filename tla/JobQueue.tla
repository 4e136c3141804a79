------------------------------ MODULE JobQueue ------------------------------
(***************************************************************************)
(* The background-job queue of egras: the `jobs` table                     *)
(* (jobs_repository_pg.rs) and the JobRunner processes that poll it        *)
(* (runner.rs).                                                            *)
(*                                                                         *)
(* Every SQL statement of the repository is one atomic step.  Between two  *)
(* statements of a runner anything may happen: other runners claim and     *)
(* mark rows, time passes, leases expire, the process dies.                *)
(*                                                                         *)
(* Time is relative: run_in[j] is run_at - now() and lease[j] is           *)
(* locked_until - now(), both in ticks, so that no clock grows without     *)
(* bound.  A lease of 0 has expired.  How long a job has been overdue      *)
(* matters only to ORDER BY run_at; AgeCap bounds it.                      *)
(*                                                                         *)
(* A member of Workers is one incarnation of a runner (JobRunner::new      *)
(* draws a fresh worker_id), so a restart is the start of another member.  *)
(***************************************************************************)
EXTENDS Integers, FiniteSets

CONSTANTS Jobs,           \* job ids
          Workers,        \* incarnations of runner processes
          NoJob, NoWorker,
          Handles,        \* [Workers -> SUBSET Jobs]: rows whose kind is registered
          Stable,         \* workers that are neither stopped nor crash
          MaxAttempts,    \* max_attempts of every row
          Visibility,     \* visibility_timeout
          BatchSize,      \* batch_size
          BackoffInitial, BackoffFactor, BackoffMax,
          Delays,         \* requested run_at - now() of enqueued jobs
          AgeCap,         \* bound: ticks overdue that are told apart
          MaxFaults       \* bound: claim_due and mark_* calls that fail

ASSUME JobQueueAssumption ==
    /\ NoJob \notin Jobs
    /\ NoWorker \notin Workers
    /\ Handles \in [Workers -> SUBSET Jobs]
    /\ Stable \subseteq Workers
    /\ MaxAttempts \in Nat \ {0}
    /\ Visibility \in Nat \ {0}
    /\ BatchSize \in Nat \ {0}
    /\ BackoffInitial \in Nat
    /\ BackoffFactor \in Nat \ {0}
    /\ BackoffMax \in Nat
    /\ Delays \subseteq Nat
    /\ AgeCap \in Nat
    /\ MaxFaults \in Nat

VARIABLES
    \* columns of the table
    state, attempts, run_in, locked_by, lease,
    \* runners
    phase,    \* where in run/dispatch the runner is
    held,     \* rows of the claimed batch not yet dispatched to the end
    seen,     \* job.attempts of the claimed snapshot, 0 for rows not held
    current,  \* the row being dispatched
    stop,     \* the shutdown watch channel
    \* environment and history
    faults,   \* calls that may still fail
    overrun,  \* rows whose lease once ran out while its runner still held them
    dropped   \* <<w, j>> whose claim or mark failed: w only logs it and goes on

tableVars == <<state, attempts, run_in, locked_by, lease>>
runnerVars == <<phase, held, seen, current, stop>>
vars == <<tableVars, runnerVars, faults, overrun, dropped>>

JobState == {"absent", "pending", "running", "done", "dead"}
Terminal == {"done", "dead"}
Verdict == {"mark_done", "mark_failed_retry", "mark_dead"}
Phase == {"off", "poll", "claim", "batch", "handle", "exited", "crashed"}
            \cup Verdict
Alive(w) == phase[w] \notin {"off", "exited", "crashed"}

-----------------------------------------------------------------------------
\* Delay before retry number n: exponential, capped.  The u64 saturation of
\* the code only matters above BackoffMax, where the cap hides it.
compute_backoff(n) ==
    LET d == BackoffInitial * BackoffFactor ^ (n - 1)
    IN  IF d > BackoffMax THEN BackoffMax ELSE d

\* The delays are natural numbers.  (The provers know nothing of exponentiation;
\* TLC evaluates this for the constants of every run.)
ASSUME BackoffAssumption ==
    \A n \in 1..MaxAttempts : compute_backoff(n) \in Nat

TypeOK ==
    /\ state \in [Jobs -> JobState]
    /\ attempts \in [Jobs -> Nat]
    /\ run_in \in [Jobs -> Int]
    /\ locked_by \in [Jobs -> Workers \cup {NoWorker}]
    /\ lease \in [Jobs -> 0..Visibility]
    /\ phase \in [Workers -> Phase]
    /\ held \in [Workers -> SUBSET Jobs]
    /\ seen \in [Workers -> [Jobs -> Nat]]
    /\ current \in [Workers -> Jobs \cup {NoJob}]
    /\ stop \in [Workers -> BOOLEAN]
    /\ faults \in 0..MaxFaults
    /\ overrun \subseteq Jobs
    /\ dropped \subseteq Workers \X Jobs

Init ==
    /\ state = [j \in Jobs |-> "absent"]
    /\ attempts = [j \in Jobs |-> 0]
    /\ run_in = [j \in Jobs |-> 0]
    /\ locked_by = [j \in Jobs |-> NoWorker]
    /\ lease = [j \in Jobs |-> 0]
    /\ phase = [w \in Workers |-> "off"]
    /\ held = [w \in Workers |-> {}]
    /\ seen = [w \in Workers |-> [j \in Jobs |-> 0]]
    /\ current = [w \in Workers |-> NoJob]
    /\ stop = [w \in Workers |-> FALSE]
    /\ faults = MaxFaults
    /\ overrun = {}
    /\ dropped = {}

-----------------------------------------------------------------------------
(* The table *)

\* enqueue, enqueue_in_tx: a fresh row, due after the requested delay.
enqueue(j) ==
    /\ state[j] = "absent"
    /\ \E d \in Delays : run_in' = [run_in EXCEPT ![j] = d]
    /\ state' = [state EXCEPT ![j] = "pending"]
    /\ attempts' = [attempts EXCEPT ![j] = 0]
    /\ UNCHANGED <<locked_by, lease, runnerVars, faults, overrun, dropped>>

\* Mutants of Due: a live lock does not protect a row; a finished row is claimed;
\* an expired lock is not reclaimed.
Due_IgnoresLease(j) ==
    \/ state[j] = "pending" /\ run_in[j] =< 0
    \/ state[j] = "running" /\ locked_by[j] # NoWorker

Due_AnyState(j) == state[j] # "absent" /\ run_in[j] =< 0 /\ lease[j] = 0

Due_PendingOnly(j) == state[j] = "pending" /\ run_in[j] =< 0

\* The WHERE clause of claim_due: pending and due, or running with an
\* expired lock (a row that is not locked has locked_until NULL).
Due(j) ==
    \/ state[j] = "pending" /\ run_in[j] =< 0
    \/ state[j] = "running" /\ locked_by[j] # NoWorker /\ lease[j] = 0

\* Rows a mark_* statement of some runner may have locked at this instant:
\* SKIP LOCKED passes over them.
BeingMarked == {current[w] : w \in {v \in Workers : phase[v] \in Verdict}}

\* ORDER BY run_at LIMIT BatchSize over the rows S.
FirstDue(B, S) ==
    /\ B \subseteq S
    /\ \/ B = S /\ Cardinality(S) =< BatchSize
       \/ Cardinality(B) = BatchSize
    /\ \A j \in B, k \in S \ B : run_in[j] =< run_in[k]

\* Mutant of claim_due: the lock lasts one tick too long.
claim_due_LongLease(w, B) ==
    /\ state' = [j \in Jobs |-> IF j \in B THEN "running" ELSE state[j]]
    /\ locked_by' = [j \in Jobs |-> IF j \in B THEN w ELSE locked_by[j]]
    /\ lease' = [j \in Jobs |-> IF j \in B THEN Visibility + 1 ELSE lease[j]]
    /\ UNCHANGED <<attempts, run_in>>

claim_due(w, B) ==
    /\ state' = [j \in Jobs |-> IF j \in B THEN "running" ELSE state[j]]
    /\ locked_by' = [j \in Jobs |-> IF j \in B THEN w ELSE locked_by[j]]
    /\ lease' = [j \in Jobs |-> IF j \in B THEN Visibility ELSE lease[j]]
    /\ UNCHANGED <<attempts, run_in>>

Unlock(j) ==
    /\ locked_by' = [locked_by EXCEPT ![j] = NoWorker]
    /\ lease' = [lease EXCEPT ![j] = 0]

\* Mutant of mark_failed_retry: the lock is not cleared.
mark_failed_retry_KeepsLock(j, delay) ==
    /\ state' = [state EXCEPT ![j] = "pending"]
    /\ attempts' = [attempts EXCEPT ![j] = @ + 1]
    /\ run_in' = [run_in EXCEPT ![j] = delay]
    /\ UNCHANGED <<locked_by, lease>>

\* The three marks select the row by id alone.
mark_done(j) ==
    /\ state' = [state EXCEPT ![j] = "done"]
    /\ Unlock(j)
    /\ UNCHANGED <<attempts, run_in>>

mark_failed_retry(j, delay) ==
    /\ state' = [state EXCEPT ![j] = "pending"]
    /\ attempts' = [attempts EXCEPT ![j] = @ + 1]
    /\ run_in' = [run_in EXCEPT ![j] = delay]
    /\ Unlock(j)

mark_dead(j) ==
    /\ state' = [state EXCEPT ![j] = "dead"]
    /\ attempts' = [attempts EXCEPT ![j] = @ + 1]
    /\ Unlock(j)
    /\ UNCHANGED run_in

-----------------------------------------------------------------------------
(* A runner *)

\* JobRunner::new and spawn.
spawn(w) ==
    /\ phase[w] = "off"
    /\ phase' = [phase EXCEPT ![w] = "poll"]
    /\ UNCHANGED <<tableVars, held, seen, current, stop, faults, overrun, dropped>>

\* JobRunnerHandle::shutdown raises the flag; the loop reads it at its top only.
shutdown(w) ==
    /\ Alive(w) /\ ~stop[w] /\ w \notin Stable
    /\ stop' = [stop EXCEPT ![w] = TRUE]
    /\ UNCHANGED <<tableVars, phase, held, seen, current, faults, overrun, dropped>>

\* Mutant of LoopTop: the flag is not looked at.
LoopTop_IgnoresStop(w) ==
    /\ phase[w] = "poll"
    /\ phase' = [phase EXCEPT ![w] = "claim"]
    /\ UNCHANGED <<tableVars, held, seen, current, stop, faults, overrun, dropped>>

\* The top of the loop: leave, or go on to claim_due.
LoopTop(w) ==
    /\ phase[w] = "poll"
    /\ phase' = [phase EXCEPT ![w] = IF stop[w] THEN "exited" ELSE "claim"]
    /\ UNCHANGED <<tableVars, held, seen, current, stop, faults, overrun, dropped>>

\* The rows the `due` query may return to w.
Selects(w, B) ==
    \E skipped \in SUBSET BeingMarked :
        FirstDue(B, {j \in Handles[w] \ skipped : Due(j)})

\* The claim statement.  An empty result sleeps and polls again.
Claim(w) ==
    /\ phase[w] = "claim"
    /\ \E B \in SUBSET Handles[w] :
         /\ Selects(w, B)
         /\ claim_due(w, B)
         /\ held' = [held EXCEPT ![w] = B]
         /\ seen' = [seen EXCEPT ![w] =
                       [j \in Jobs |-> IF j \in B THEN attempts[j] ELSE 0]]
         /\ phase' = [phase EXCEPT ![w] = IF B = {} THEN "poll" ELSE "batch"]
    /\ UNCHANGED <<current, stop, faults, overrun, dropped>>

\* claim_due returns an error, which counts as an empty result.  Either nothing
\* was claimed, or only the answer is lost: the rows then stay locked for a
\* runner that does not know of them.
ClaimFails(w) ==
    /\ phase[w] = "claim"
    /\ faults > 0
    /\ faults' = faults - 1
    /\ \E B \in SUBSET Handles[w] :
         /\ B = {} \/ Selects(w, B)
         /\ claim_due(w, B)
         /\ dropped' = dropped \cup ({w} \X B)
    /\ phase' = [phase EXCEPT ![w] = "poll"]
    /\ UNCHANGED <<held, seen, current, stop, overrun>>

\* `for job in claimed`: the order of RETURNING is unspecified.  A runner
\* does not look at the lock, its expiry or the flag here.
StartDispatch(w) ==
    /\ phase[w] = "batch"
    /\ \E j \in held[w] : current' = [current EXCEPT ![w] = j]
    /\ phase' = [phase EXCEPT ![w] = "handle"]
    /\ UNCHANGED <<tableVars, held, seen, stop, faults, overrun, dropped>>

\* Mutant of VerdictOf: one attempt too many.
VerdictOf_OffByOne(w, result) ==
    IF result = "ok" THEN "mark_done"
    ELSE IF result = "permanent" \/ seen[w][current[w]] + 1 > MaxAttempts
         THEN "mark_dead" ELSE "mark_failed_retry"

\* What dispatch decides from the handler's result, on the snapshot of the row.
VerdictOf(w, result) ==
    IF result = "ok" THEN "mark_done"
    ELSE IF result = "permanent" \/ seen[w][current[w]] + 1 >= MaxAttempts
         THEN "mark_dead" ELSE "mark_failed_retry"

\* The handler returns.  (No handler for the kind also yields "permanent".)
HandlerReturns(w) ==
    /\ phase[w] = "handle"
    /\ \E result \in {"ok", "permanent", "retryable"} :
         phase' = [phase EXCEPT ![w] = VerdictOf(w, result)]
    /\ UNCHANGED <<tableVars, held, seen, current, stop, faults, overrun, dropped>>

\* dispatch is over, whether its mark worked or not: the next row, or the
\* top of the loop.
EndDispatch(w) ==
    /\ held' = [held EXCEPT ![w] = @ \ {current[w]}]
    /\ seen' = [seen EXCEPT ![w][current[w]] = 0]
    /\ current' = [current EXCEPT ![w] = NoJob]
    /\ phase' = [phase EXCEPT ![w] =
                   IF held[w] = {current[w]} THEN "poll" ELSE "batch"]
    /\ UNCHANGED stop

Mark(w) ==
    /\ \/ phase[w] = "mark_done" /\ mark_done(current[w])
       \/ phase[w] = "mark_dead" /\ mark_dead(current[w])
       \/ /\ phase[w] = "mark_failed_retry"
          /\ mark_failed_retry(current[w],
                               compute_backoff(seen[w][current[w]] + 1))
    /\ EndDispatch(w)
    /\ UNCHANGED <<faults, overrun, dropped>>

\* The statement fails; the error is logged and the row left as it is.
MarkFails(w) ==
    /\ phase[w] \in Verdict
    /\ faults > 0
    /\ faults' = faults - 1
    /\ dropped' = dropped \cup {<<w, current[w]>>}
    /\ EndDispatch(w)
    /\ UNCHANGED <<tableVars, overrun>>

\* The process dies, or a handler panics and takes the runner task with it.
Crash(w) ==
    /\ Alive(w) /\ w \notin Stable
    /\ phase' = [phase EXCEPT ![w] = "crashed"]
    /\ held' = [held EXCEPT ![w] = {}]
    /\ seen' = [seen EXCEPT ![w] = [j \in Jobs |-> 0]]
    /\ current' = [current EXCEPT ![w] = NoJob]
    /\ UNCHANGED <<tableVars, stop, faults, overrun, dropped>>

-----------------------------------------------------------------------------
(* Time *)

\* Rows whose lease runs out with this tick under a runner that still has them.
Expiring ==
    {j \in Jobs : /\ lease[j] = 1
                  /\ \E w \in Workers : locked_by[j] = w /\ j \in held[w]}

Tick ==
    /\ run_in' = [j \in Jobs |->
                    IF state[j] \in {"pending", "running"} /\ run_in[j] > -AgeCap
                    THEN run_in[j] - 1 ELSE run_in[j]]
    /\ lease' = [j \in Jobs |-> IF lease[j] > 0 THEN lease[j] - 1 ELSE 0]
    /\ overrun' = overrun \cup Expiring
    /\ <<run_in, lease>>' # <<run_in, lease>>
    /\ UNCHANGED <<state, attempts, locked_by, runnerVars, faults, dropped>>

Next ==
    \/ \E j \in Jobs : enqueue(j)
    \/ \E w \in Workers : spawn(w)
    \/ \E w \in Workers : shutdown(w)
    \/ \E w \in Workers : LoopTop(w)
    \/ \E w \in Workers : Claim(w)
    \/ \E w \in Workers : ClaimFails(w)
    \/ \E w \in Workers : StartDispatch(w)
    \/ \E w \in Workers : HandlerReturns(w)
    \/ \E w \in Workers : Mark(w)
    \/ \E w \in Workers : MarkFails(w)
    \/ \E w \in Workers : Crash(w)
    \/ Tick

Spec == Init /\ [][Next]_vars

\* Everything a runner does once it is started.
RunnerStep(w) ==
    \/ LoopTop(w) \/ Claim(w) \/ ClaimFails(w) \/ StartDispatch(w)
    \/ HandlerReturns(w) \/ Mark(w) \/ MarkFails(w)

\* Time passes, a started runner task keeps being polled, handlers return,
\* and the Stable runners are started.
FairSpec ==
    /\ Spec
    /\ WF_vars(Tick)
    /\ \A w \in Workers : WF_vars(RunnerStep(w))
    /\ \A w \in Stable : WF_vars(spawn(w))

-----------------------------------------------------------------------------
(* What the queue guarantees *)

\* A runner that has a row in its batch owns that row, with a live lease and a
\* snapshot that is still accurate, as long as the row never overran its lease:
\* so no two runners execute it at a time, and the retry decision of dispatch
\* (taken on the snapshot) is the decision the table would give.
HolderOwnsRow ==
    \A w \in Workers : \A j \in held[w] \ overrun :
        /\ state[j] = "running"
        /\ locked_by[j] = w
        /\ lease[j] > 0
        /\ seen[w][j] = attempts[j]

\* The retry budget: a row that never overran its lease is attempted at most
\* max_attempts times, and one that may still be claimed has attempts left.
AttemptsWithinBudget ==
    \A j \in Jobs \ overrun :
        /\ attempts[j] =< MaxAttempts
        /\ state[j] \in {"pending", "running"} => attempts[j] < MaxAttempts

\* Every lock is accounted for: its owner still has the row in its batch, or
\* died, or lost the answer of its claim, or failed to write its verdict.  In
\* particular a runner that leaves its loop on shutdown leaves no row locked
\* behind, except for calls that failed.
LocksAccountedFor ==
    \A j \in Jobs, w \in Workers :
        locked_by[j] = w =>
            \/ j \in held[w]
            \/ phase[w] = "crashed"
            \/ <<w, j>> \in dropped

\* done and dead are final for a row that never overran its lease, however
\* runners crash, fail to mark, stop and are replaced.
TerminalIsFinal ==
    [][\A j \in Jobs \ overrun :
          state[j] \in Terminal =>
            state'[j] = state[j] /\ attempts'[j] = attempts[j]]_vars

\* Every enqueued job settles, despite crashes, failed marks and overruns, once
\* a runner that handles its kind stays up.
EveryJobSettles ==
    \A j \in Jobs : state[j] = "pending" ~> state[j] \in Terminal

\* A runner told to stop leaves its loop (or dies) after its current batch.
ShutdownCompletes ==
    \A w \in Workers : stop[w] ~> ~Alive(w)
=============================================================================
