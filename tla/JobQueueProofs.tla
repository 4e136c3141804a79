--------------------------- MODULE JobQueueProofs ---------------------------
(***************************************************************************)
(* Proofs, for any number of runners, jobs and any limits, of the safety   *)
(* guarantees of JobQueue.  The guarantees are not inductive by themselves *)
(* and support each other; the inductive invariant adds what a runner's    *)
(* program counter says about its batch.                                   *)
(***************************************************************************)
EXTENDS JobQueue, TLAPS

\* A runner holds rows only inside its batch loop, the row it is dispatching is
\* one of them, and a retry was only decided with attempts left.
RunnerShape ==
    \A w \in Workers :
        /\ phase[w] \in {"off", "poll", "claim", "exited", "crashed"} => held[w] = {}
        /\ phase[w] \in {"handle"} \cup Verdict => current[w] \in held[w]
        /\ phase[w] = "mark_failed_retry" => seen[w][current[w]] + 1 < MaxAttempts

\* A row is locked exactly while it is running.  claim_due takes a running row
\* back only if locked_until is set: an unlocked running row would be lost.
LockedIffRunning ==
    \A j \in Jobs : state[j] = "running" <=> locked_by[j] # NoWorker

IInv ==
    /\ TypeOK
    /\ RunnerShape
    /\ HolderOwnsRow
    /\ AttemptsWithinBudget
    /\ LocksAccountedFor
    /\ LockedIffRunning

USE JobQueueAssumption DEF JobState, Terminal, Verdict, Phase, Alive,
                           tableVars, runnerVars, vars

LEMMA InitIInv == Init => IInv
  BY DEF Init, IInv, TypeOK, RunnerShape, HolderOwnsRow, AttemptsWithinBudget,
         LocksAccountedFor, LockedIffRunning

LEMMA EnqueueIInv == ASSUME IInv, NEW j \in Jobs, enqueue(j) PROVE IInv'
  <1> USE DEF IInv, enqueue
  <1>1. TypeOK'
    BY DEF TypeOK
  <1>2. RunnerShape'
    BY DEF RunnerShape, TypeOK
  <1>3. HolderOwnsRow'
    BY DEF HolderOwnsRow, TypeOK
  <1>4. AttemptsWithinBudget'
    BY DEF AttemptsWithinBudget, TypeOK
  <1>5. LocksAccountedFor' /\ LockedIffRunning'
    BY DEF LocksAccountedFor, LockedIffRunning, TypeOK
  <1> QED BY <1>1, <1>2, <1>3, <1>4, <1>5

\* Steps that move a runner through its loop and touch neither the table nor
\* what the runner holds.
LEMMA ControlIInv ==
    ASSUME IInv, NEW w \in Workers,
           spawn(w) \/ shutdown(w) \/ LoopTop(w) \/ StartDispatch(w)
    PROVE  IInv'
  <1> USE DEF IInv, spawn, shutdown, LoopTop, StartDispatch
  <1>1. TypeOK'
    <2>1. CASE spawn(w) \/ LoopTop(w)
      BY <2>1 DEF TypeOK
    <2>2. CASE shutdown(w)
      BY <2>2 DEF TypeOK
    <2>3. CASE StartDispatch(w)
      BY <2>3 DEF TypeOK
    <2> QED BY <2>1, <2>2, <2>3
  <1>2. RunnerShape'
    BY DEF RunnerShape, TypeOK
  <1>3. HolderOwnsRow' /\ AttemptsWithinBudget' /\ LockedIffRunning'
    BY DEF HolderOwnsRow, AttemptsWithinBudget, LockedIffRunning, TypeOK
  <1>4. LocksAccountedFor'
    BY DEF LocksAccountedFor, TypeOK
  <1> QED BY <1>1, <1>2, <1>3, <1>4

LEMMA HandlerReturnsIInv ==
    ASSUME IInv, NEW w \in Workers, HandlerReturns(w) PROVE IInv'
  <1> USE DEF IInv, HandlerReturns
  <1>1. PICK result \in {"ok", "permanent", "retryable"} :
            phase' = [phase EXCEPT ![w] = VerdictOf(w, result)]
    OBVIOUS
  <1>2. /\ VerdictOf(w, result) \in Verdict
        /\ VerdictOf(w, result) = "mark_failed_retry"
             => ~(seen[w][current[w]] + 1 >= MaxAttempts)
    BY DEF VerdictOf
  <1>3. TypeOK'
    BY <1>1, <1>2 DEF TypeOK
  <1>4. current[w] \in Jobs /\ current[w] \in held[w] /\ seen[w][current[w]] \in Nat
    BY DEF TypeOK, RunnerShape
  <1>5. RunnerShape'
    BY <1>1, <1>2, <1>4 DEF RunnerShape, TypeOK
  <1>6. HolderOwnsRow' /\ AttemptsWithinBudget' /\ LockedIffRunning'
    BY DEF HolderOwnsRow, AttemptsWithinBudget, LockedIffRunning, TypeOK
  <1>7. LocksAccountedFor'
    BY <1>1 DEF LocksAccountedFor, TypeOK
  <1> QED BY <1>3, <1>5, <1>6, <1>7

LEMMA ClaimIInv == ASSUME IInv, NEW w \in Workers, Claim(w) PROVE IInv'
  <1> USE DEF IInv
  <1>1. PICK B \in SUBSET Jobs :
          /\ \A j \in B : Due(j)
          /\ claim_due(w, B)
          /\ held' = [held EXCEPT ![w] = B]
          /\ seen' = [seen EXCEPT ![w] =
                        [j \in Jobs |-> IF j \in B THEN attempts[j] ELSE 0]]
          /\ phase' = [phase EXCEPT ![w] = IF B = {} THEN "poll" ELSE "batch"]
    BY DEF Claim, Selects, FirstDue
  <1>2. /\ phase[w] = "claim" /\ held[w] = {}
        /\ UNCHANGED <<current, stop, faults, overrun, dropped>>
    BY DEF Claim, RunnerShape
  <1> USE DEF claim_due
  <1>3. TypeOK'
    BY <1>1, <1>2 DEF TypeOK
  <1>4. RunnerShape'
    BY <1>1, <1>2 DEF RunnerShape, TypeOK
  <1>5. HolderOwnsRow'
    \* A due row is held by nobody, unless it overran its lease.
    <2>1. \A j \in B \ overrun, v \in Workers : j \notin held[v]
      BY <1>1 DEF HolderOwnsRow, Due, TypeOK
    <2>2. SUFFICES ASSUME NEW v \in Workers, NEW j \in held'[v] \ overrun'
                   PROVE  /\ state'[j] = "running"
                          /\ locked_by'[j] = v
                          /\ lease'[j] > 0
                          /\ seen'[v][j] = attempts'[j]
      BY DEF HolderOwnsRow
    <2>3. CASE v = w
      BY <1>1, <1>2, <2>3 DEF TypeOK
    <2>4. CASE v # w
      <3>1. j \in held[v] \ overrun /\ j \in Jobs
        BY <1>1, <1>2, <2>4 DEF TypeOK
      <3>2. j \notin B
        BY <2>1, <3>1
      <3> QED BY <1>1, <1>2, <2>4, <3>1, <3>2 DEF HolderOwnsRow, TypeOK
    <2> QED BY <2>3, <2>4
  <1>6. AttemptsWithinBudget'
    BY <1>1, <1>2 DEF AttemptsWithinBudget, Due, TypeOK
  <1>7. LocksAccountedFor'
    BY <1>1, <1>2 DEF LocksAccountedFor, TypeOK
  <1>8. LockedIffRunning'
    BY <1>1, <1>2 DEF LockedIffRunning, TypeOK
  <1> QED BY <1>3, <1>4, <1>5, <1>6, <1>7, <1>8

LEMMA ClaimFailsIInv == ASSUME IInv, NEW w \in Workers, ClaimFails(w) PROVE IInv'
  <1> USE DEF IInv
  <1>1. PICK B \in SUBSET Jobs :
          /\ \A j \in B : Due(j)
          /\ claim_due(w, B)
          /\ dropped' = dropped \cup ({w} \X B)
    BY DEF ClaimFails, Selects, FirstDue
  <1>2. /\ phase[w] = "claim" /\ held[w] = {}
        /\ phase' = [phase EXCEPT ![w] = "poll"]
        /\ faults \in Nat \ {0} /\ faults' = faults - 1
        /\ UNCHANGED <<held, seen, current, stop, overrun>>
    BY DEF ClaimFails, RunnerShape, TypeOK
  <1> USE DEF claim_due
  <1>3. TypeOK'
    BY <1>1, <1>2 DEF TypeOK
  <1>4. RunnerShape'
    BY <1>1, <1>2 DEF RunnerShape, TypeOK
  <1>5. HolderOwnsRow'
    <2>1. \A j \in B \ overrun, v \in Workers : j \notin held[v]
      BY <1>1 DEF HolderOwnsRow, Due, TypeOK
    <2> QED BY <1>1, <1>2, <2>1 DEF HolderOwnsRow, TypeOK
  <1>6. AttemptsWithinBudget'
    BY <1>1, <1>2 DEF AttemptsWithinBudget, Due, TypeOK
  <1>7. LocksAccountedFor'
    BY <1>1, <1>2 DEF LocksAccountedFor, TypeOK
  <1>8. LockedIffRunning'
    BY <1>1, <1>2 DEF LockedIffRunning, TypeOK
  <1> QED BY <1>3, <1>4, <1>5, <1>6, <1>7, <1>8

\* What the end of a dispatch leaves of the runner's batch.
LEMMA EndDispatchShape ==
    ASSUME TypeOK, RunnerShape, NEW w \in Workers, phase[w] \in Verdict, EndDispatch(w)
    PROVE  /\ current[w] \in Jobs
           /\ held' \in [Workers -> SUBSET Jobs]
           /\ seen' \in [Workers -> [Jobs -> Nat]]
           /\ current' \in [Workers -> Jobs \cup {NoJob}]
           /\ phase' \in [Workers -> Phase]
           /\ stop' \in [Workers -> BOOLEAN]
           /\ held'[w] = held[w] \ {current[w]}
           /\ phase'[w] \in {"poll", "batch"}
           /\ \A j \in held'[w] : seen'[w][j] = seen[w][j]
           /\ \A v \in Workers \ {w} :
                /\ held'[v] = held[v] /\ seen'[v] = seen[v]
                /\ phase'[v] = phase[v] /\ current'[v] = current[v]
           /\ RunnerShape'
  <1>1. current[w] \in held[w] /\ current[w] \in Jobs
    BY DEF TypeOK, RunnerShape
  <1>2. /\ held' \in [Workers -> SUBSET Jobs]
        /\ seen' \in [Workers -> [Jobs -> Nat]]
        /\ current' \in [Workers -> Jobs \cup {NoJob}]
        /\ phase' \in [Workers -> Phase]
        /\ stop' \in [Workers -> BOOLEAN]
    BY <1>1 DEF EndDispatch, TypeOK
  <1>3. /\ held'[w] = held[w] \ {current[w]}
        /\ phase'[w] \in {"poll", "batch"}
        /\ phase'[w] = "poll" => held'[w] = {}
        /\ \A j \in held'[w] : seen'[w][j] = seen[w][j]
    BY <1>1 DEF EndDispatch, TypeOK
  <1>4. \A v \in Workers \ {w} :
                /\ held'[v] = held[v] /\ seen'[v] = seen[v]
                /\ phase'[v] = phase[v] /\ current'[v] = current[v]
    BY DEF EndDispatch, TypeOK
  <1>5. RunnerShape'
    BY <1>3, <1>4 DEF RunnerShape
  <1> QED BY <1>1, <1>2, <1>3, <1>4, <1>5

\* The effect of a successful mark of row j on the table, whichever it is.
LEMMA MarkTable ==
    ASSUME IInv, NEW w \in Workers, Mark(w)
    PROVE  /\ phase[w] \in Verdict
           /\ EndDispatch(w)
           /\ UNCHANGED <<faults, overrun, dropped>>
           /\ state' \in [Jobs -> JobState] /\ attempts' \in [Jobs -> Nat]
           /\ run_in' \in [Jobs -> Int]
           /\ locked_by' = [locked_by EXCEPT ![current[w]] = NoWorker]
           /\ lease' = [lease EXCEPT ![current[w]] = 0]
           /\ \A j \in Jobs \ {current[w]} :
                state'[j] = state[j] /\ attempts'[j] = attempts[j]
           /\ state'[current[w]] \in {"pending", "done", "dead"}
           /\ attempts'[current[w]] \in {attempts[current[w]], attempts[current[w]] + 1}
           /\ state'[current[w]] = "pending" =>
                /\ seen[w][current[w]] + 1 < MaxAttempts
                /\ attempts'[current[w]] = attempts[current[w]] + 1
  <1>1. current[w] \in Jobs /\ seen[w][current[w]] \in Nat /\ phase[w] \in Verdict
    BY DEF IInv, TypeOK, RunnerShape, Mark
  <1>2. CASE phase[w] = "mark_done"
    BY <1>1, <1>2 DEF Mark, mark_done, Unlock, IInv, TypeOK
  <1>3. CASE phase[w] = "mark_dead"
    <2>1. /\ state' = [state EXCEPT ![current[w]] = "dead"]
          /\ attempts' = [attempts EXCEPT ![current[w]] = @ + 1]
          /\ Unlock(current[w]) /\ EndDispatch(w)
          /\ UNCHANGED <<run_in, faults, overrun, dropped>>
      BY <1>3 DEF Mark, mark_dead
    <2> QED BY <1>1, <2>1 DEF Unlock, IInv, TypeOK
  <1>4. CASE phase[w] = "mark_failed_retry"
    <2>1. seen[w][current[w]] + 1 < MaxAttempts
      BY <1>4 DEF IInv, RunnerShape
    <2>2. compute_backoff(seen[w][current[w]] + 1) \in Nat
      BY <1>1, <2>1, BackoffAssumption
    <2>3. /\ state' = [state EXCEPT ![current[w]] = "pending"]
          /\ attempts' = [attempts EXCEPT ![current[w]] = @ + 1]
          /\ run_in' = [run_in EXCEPT ![current[w]] =
                           compute_backoff(seen[w][current[w]] + 1)]
          /\ Unlock(current[w]) /\ EndDispatch(w)
          /\ UNCHANGED <<faults, overrun, dropped>>
      BY <1>4 DEF Mark, mark_failed_retry
    <2> QED BY <1>1, <2>1, <2>2, <2>3 DEF Unlock, IInv, TypeOK
  <1> QED BY <1>1, <1>2, <1>3, <1>4

LEMMA MarkIInv == ASSUME IInv, NEW w \in Workers, Mark(w) PROVE IInv'
  <1> DEFINE c == current[w]
  <1>1. /\ phase[w] \in Verdict
        /\ EndDispatch(w)
        /\ UNCHANGED <<faults, overrun, dropped>>
        /\ state' \in [Jobs -> JobState] /\ attempts' \in [Jobs -> Nat]
        /\ run_in' \in [Jobs -> Int]
        /\ locked_by' = [locked_by EXCEPT ![c] = NoWorker]
        /\ lease' = [lease EXCEPT ![c] = 0]
        /\ \A j \in Jobs \ {c} : state'[j] = state[j] /\ attempts'[j] = attempts[j]
        /\ state'[c] \in {"pending", "done", "dead"}
        /\ attempts'[c] \in {attempts[c], attempts[c] + 1}
        /\ state'[c] = "pending" =>
             seen[w][c] + 1 < MaxAttempts /\ attempts'[c] = attempts[c] + 1
    BY MarkTable
  <1>2. /\ c \in Jobs /\ c \in held[w]
        /\ held' \in [Workers -> SUBSET Jobs]
        /\ seen' \in [Workers -> [Jobs -> Nat]]
        /\ current' \in [Workers -> Jobs \cup {NoJob}]
        /\ phase' \in [Workers -> Phase]
        /\ stop' \in [Workers -> BOOLEAN]
        /\ held'[w] = held[w] \ {c}
        /\ phase'[w] \in {"poll", "batch"}
        /\ \A j \in held'[w] : seen'[w][j] = seen[w][j]
        /\ \A v \in Workers \ {w} :
             held'[v] = held[v] /\ seen'[v] = seen[v] /\ phase'[v] = phase[v]
        /\ RunnerShape'
    BY <1>1, EndDispatchShape DEF IInv, RunnerShape
  <1> HIDE DEF c
  <1>3. TypeOK'
    BY <1>1, <1>2 DEF IInv, TypeOK
  <1>4. HolderOwnsRow'
    <2>1. SUFFICES ASSUME NEW v \in Workers, NEW j \in held'[v] \ overrun'
                   PROVE  /\ state'[j] = "running"
                          /\ locked_by'[j] = v
                          /\ lease'[j] > 0
                          /\ seen'[v][j] = attempts'[j]
      BY DEF HolderOwnsRow
    <2>2. j \in Jobs /\ j \in held[v] \ overrun /\ seen'[v][j] = seen[v][j]
      BY <1>1, <1>2 DEF IInv, TypeOK
    <2>3. /\ state[j] = "running" /\ locked_by[j] = v
          /\ lease[j] > 0 /\ seen[v][j] = attempts[j]
      BY <2>2 DEF IInv, HolderOwnsRow
    \* Only w holds the row it marks, and w drops it.
    <2>4. j # c
      BY <1>2, <2>2, <2>3 DEF IInv, HolderOwnsRow
    <2> QED BY <1>1, <2>2, <2>3, <2>4 DEF IInv, TypeOK
  <1>5. AttemptsWithinBudget'
    <2>1. c \notin overrun =>
            /\ attempts[c] < MaxAttempts /\ seen[w][c] = attempts[c]
      BY <1>2 DEF IInv, HolderOwnsRow, AttemptsWithinBudget
    <2>2. SUFFICES ASSUME NEW j \in Jobs \ overrun
                   PROVE  /\ attempts'[j] =< MaxAttempts
                          /\ state'[j] \in {"pending", "running"}
                               => attempts'[j] < MaxAttempts
      BY <1>1 DEF AttemptsWithinBudget
    <2>3. attempts[j] \in Nat
      BY DEF IInv, TypeOK
    <2>4. CASE j = c
      BY <1>1, <2>1, <2>3, <2>4
    <2>5. CASE j # c
      BY <1>1, <2>5 DEF IInv, AttemptsWithinBudget
    <2> QED BY <2>4, <2>5
  <1>6. LocksAccountedFor'
    BY <1>1, <1>2 DEF IInv, LocksAccountedFor, TypeOK
  <1>7. LockedIffRunning'
    BY <1>1, <1>2 DEF IInv, LockedIffRunning, TypeOK
  <1> QED BY <1>2, <1>3, <1>4, <1>5, <1>6, <1>7 DEF IInv

LEMMA MarkFailsIInv == ASSUME IInv, NEW w \in Workers, MarkFails(w) PROVE IInv'
  <1>1. /\ phase[w] \in Verdict /\ EndDispatch(w)
        /\ UNCHANGED <<state, attempts, run_in, locked_by, lease, overrun>>
        /\ faults \in Nat \ {0} /\ faults' = faults - 1
        /\ dropped' = dropped \cup {<<w, current[w]>>}
    BY DEF MarkFails, IInv, TypeOK
  <1>2. /\ current[w] \in Jobs
        /\ held' \in [Workers -> SUBSET Jobs]
        /\ seen' \in [Workers -> [Jobs -> Nat]]
        /\ current' \in [Workers -> Jobs \cup {NoJob}]
        /\ phase' \in [Workers -> Phase]
        /\ stop' \in [Workers -> BOOLEAN]
        /\ held'[w] = held[w] \ {current[w]}
        /\ phase'[w] \in {"poll", "batch"}
        /\ \A j \in held'[w] : seen'[w][j] = seen[w][j]
        /\ \A v \in Workers \ {w} :
             held'[v] = held[v] /\ seen'[v] = seen[v] /\ phase'[v] = phase[v]
        /\ RunnerShape'
    BY <1>1, EndDispatchShape DEF IInv
  <1>3. TypeOK'
    BY <1>1, <1>2 DEF IInv, TypeOK
  <1>4. HolderOwnsRow'
    BY <1>1, <1>2 DEF IInv, HolderOwnsRow
  <1>5. AttemptsWithinBudget' /\ LockedIffRunning'
    BY <1>1 DEF IInv, AttemptsWithinBudget, LockedIffRunning
  <1>6. LocksAccountedFor'
    BY <1>1, <1>2 DEF IInv, LocksAccountedFor
  <1> QED BY <1>2, <1>3, <1>4, <1>5, <1>6 DEF IInv

LEMMA CrashIInv == ASSUME IInv, NEW w \in Workers, Crash(w) PROVE IInv'
  <1> USE DEF IInv, Crash
  <1>1. TypeOK'
    BY DEF TypeOK
  <1>2. RunnerShape'
    BY DEF RunnerShape, TypeOK
  <1>3. HolderOwnsRow' /\ AttemptsWithinBudget' /\ LockedIffRunning'
    BY DEF HolderOwnsRow, AttemptsWithinBudget, LockedIffRunning, TypeOK
  <1>4. LocksAccountedFor'
    BY DEF LocksAccountedFor, TypeOK
  <1> QED BY <1>1, <1>2, <1>3, <1>4

LEMMA TickIInv == ASSUME IInv, Tick PROVE IInv'
  <1> USE DEF IInv, Tick
  <1>1. TypeOK'
    BY DEF TypeOK, Expiring
  <1>2. RunnerShape' /\ LocksAccountedFor' /\ LockedIffRunning'
    BY DEF RunnerShape, LocksAccountedFor, LockedIffRunning
  <1>3. HolderOwnsRow'
    \* A lease that runs out under its holder puts the row into overrun.
    BY DEF HolderOwnsRow, Expiring, TypeOK
  <1>4. AttemptsWithinBudget'
    BY DEF AttemptsWithinBudget
  <1> QED BY <1>1, <1>2, <1>3, <1>4

LEMMA NextIInv == IInv /\ [Next]_vars => IInv'
  <1> SUFFICES ASSUME IInv, [Next]_vars PROVE IInv'
    OBVIOUS
  <1>1. CASE UNCHANGED vars
    BY <1>1 DEF IInv, TypeOK, RunnerShape, HolderOwnsRow, AttemptsWithinBudget,
                LocksAccountedFor, LockedIffRunning
  <1>2. CASE Next
    BY <1>2, EnqueueIInv, ControlIInv, HandlerReturnsIInv, ClaimIInv, ClaimFailsIInv,
       MarkIInv, MarkFailsIInv, CrashIInv, TickIInv DEF Next
  <1> QED BY <1>1, <1>2

\* The inductive invariant holds throughout: types, ownership of held rows, retry
\* budget, accounting of locks, and locked exactly while running.
THEOREM JobQueueSafety == Spec => []IInv
  BY InitIInv, NextIInv, PTL DEF Spec

\* Every variable keeps its type: attempts, delays and leases stay in range.
THEOREM TypeOKHolds == Spec => []TypeOK
  <1>1. IInv => TypeOK
    BY DEF IInv
  <1> QED BY <1>1, JobQueueSafety, PTL

\* Ownership of the rows a runner holds (claim_due, FOR UPDATE SKIP LOCKED and the
\* visibility timeout), for any number of runners.
THEOREM HolderOwnsRowHolds == Spec => []HolderOwnsRow
  <1>1. IInv => HolderOwnsRow
    BY DEF IInv
  <1> QED BY <1>1, JobQueueSafety, PTL

\* The retry budget of dispatch, for any number of runners.
THEOREM AttemptsWithinBudgetHolds == Spec => []AttemptsWithinBudget
  <1>1. IInv => AttemptsWithinBudget
    BY DEF IInv
  <1> QED BY <1>1, JobQueueSafety, PTL

\* No lock without an owner that works on it, died or failed to mark.
THEOREM LocksAccountedForHolds == Spec => []LocksAccountedFor
  <1>1. IInv => LocksAccountedFor
    BY DEF IInv
  <1> QED BY <1>1, JobQueueSafety, PTL

\* done and dead are final for rows that never overran their lease.
THEOREM TerminalIsFinalHolds == Spec => TerminalIsFinal
  <1>1. IInv /\ [Next]_vars =>
          [\A j \in Jobs \ overrun : state[j] \in Terminal =>
              state'[j] = state[j] /\ attempts'[j] = attempts[j]]_vars
    <2> SUFFICES ASSUME IInv, Next, NEW j \in Jobs \ overrun, state[j] \in Terminal
                 PROVE  state'[j] = state[j] /\ attempts'[j] = attempts[j]
      OBVIOUS
    <2> USE DEF IInv
    <2>1. CASE \E k \in Jobs : enqueue(k)
      BY <2>1 DEF enqueue, TypeOK
    <2>2. CASE \E w \in Workers : Claim(w) \/ ClaimFails(w)
      <3>1. PICK w \in Workers, B \in SUBSET Jobs :
                claim_due(w, B) /\ \A k \in B : Due(k)
        BY <2>2 DEF Claim, ClaimFails, Selects, FirstDue
      <3> QED BY <3>1 DEF claim_due, Due, TypeOK
    <2>3. CASE \E w \in Workers : Mark(w)
      <3>1. PICK w \in Workers : Mark(w)
        BY <2>3
      <3>2. current[w] \in held[w] /\ phase[w] \in Verdict
        BY <3>1, MarkTable DEF RunnerShape
      <3>3. j # current[w]
        BY <3>2 DEF HolderOwnsRow
      <3> QED BY <3>1, <3>3, MarkTable
    <2>4. CASE \/ Tick
               \/ \E w \in Workers : \/ spawn(w) \/ shutdown(w) \/ LoopTop(w)
                                     \/ StartDispatch(w) \/ HandlerReturns(w)
                                     \/ MarkFails(w) \/ Crash(w)
      BY <2>4 DEF Tick, spawn, shutdown, LoopTop, StartDispatch, HandlerReturns,
                  MarkFails, Crash
    <2> QED BY <2>1, <2>2, <2>3, <2>4 DEF Next
  <1> QED BY <1>1, JobQueueSafety, PTL DEF Spec, TerminalIsFinal

-----------------------------------------------------------------------------
\* No two runners have the same row in their batches, unless its lease once ran out.
OneExecutor ==
    \A v, w \in Workers : v # w => held[v] \cap held[w] \subseteq overrun

\* A job is executed by one runner at a time (claim_due), as long as no execution
\* outlasts the visibility timeout.
THEOREM OneExecutorHolds == Spec => []OneExecutor
  <1>1. IInv => OneExecutor
    BY DEF IInv, HolderOwnsRow, OneExecutor, TypeOK
  <1> QED BY <1>1, JobQueueSafety, PTL

\* Ticks until claim_due may take an unfinished row: to run_at or to the end of a lock.
Wait(j) == IF state[j] = "pending" THEN run_in[j] ELSE lease[j]

\* An unfinished row can be claimed, now or after at most `longest` ticks.
NoJobStranded(longest) ==
    \A j \in Jobs :
        state[j] \in {"pending", "running"} => Due(j) \/ Wait(j) \in 1..longest

DelaysBounded(longest) ==
    \A j \in Jobs : state[j] = "pending" => run_in[j] =< longest

LEMMA BackoffBounded ==
    ASSUME NEW n \in 1..MaxAttempts
    PROVE  compute_backoff(n) \in Nat /\ compute_backoff(n) =< BackoffMax
  <1> DEFINE d == BackoffInitial * BackoffFactor ^ (n - 1)
  <1>1. compute_backoff(n) = IF d > BackoffMax THEN BackoffMax ELSE d
    BY DEF compute_backoff
  <1>2. compute_backoff(n) \in Nat
    BY BackoffAssumption
  <1> HIDE DEF d
  <1> QED BY <1>1, <1>2

LEMMA NextDelays ==
    ASSUME NEW longest \in Nat, Delays \subseteq 0..longest, BackoffMax =< longest,
           IInv, DelaysBounded(longest), [Next]_vars
    PROVE  DelaysBounded(longest)'
  <1> USE DEF IInv
  <1>1. CASE \E j \in Jobs : enqueue(j)
    BY <1>1 DEF enqueue, TypeOK, DelaysBounded
  <1>2. CASE \E w \in Workers : Claim(w) \/ ClaimFails(w)
    BY <1>2 DEF Claim, ClaimFails, claim_due, TypeOK, DelaysBounded
  <1>3. ASSUME NEW w \in Workers, Mark(w) PROVE DelaysBounded(longest)'
    <2> DEFINE n == seen[w][current[w]] + 1
    <2>1. current[w] \in Jobs
      BY <1>3 DEF Mark, RunnerShape, TypeOK
    <2>2. phase[w] = "mark_failed_retry" => n \in 1..MaxAttempts
      BY <2>1 DEF RunnerShape, TypeOK
    <2>3. phase[w] = "mark_failed_retry" =>
            compute_backoff(n) \in Nat /\ compute_backoff(n) =< longest
      <3> HIDE DEF n
      <3> QED BY <2>2, BackoffBounded
    <2> HIDE DEF n
    <2>4. CASE phase[w] = "mark_failed_retry" /\ mark_failed_retry(current[w], compute_backoff(n))
      BY <2>1, <2>3, <2>4 DEF mark_failed_retry, TypeOK, DelaysBounded
    <2>5. CASE mark_done(current[w]) \/ mark_dead(current[w])
      BY <2>1, <2>5 DEF mark_done, mark_dead, TypeOK, DelaysBounded
    <2> QED BY <1>3, <2>4, <2>5 DEF Mark, n
  <1>4. CASE Tick
    BY <1>4 DEF Tick, TypeOK, DelaysBounded
  <1>5. CASE UNCHANGED tableVars
    BY <1>5 DEF DelaysBounded
  <1>6. ASSUME NEW w \in Workers,
               \/ spawn(w) \/ shutdown(w) \/ LoopTop(w) \/ StartDispatch(w)
               \/ HandlerReturns(w) \/ MarkFails(w) \/ Crash(w)
        PROVE  UNCHANGED tableVars
    BY <1>6 DEF spawn, shutdown, LoopTop, StartDispatch, HandlerReturns, MarkFails, Crash
  <1> QED BY <1>1, <1>2, <1>3, <1>4, <1>5, <1>6 DEF Next

\* No job is stranded, however runners crash, lose answers, fail to mark or overrun their
\* leases: a row that is neither done nor dead satisfies the WHERE clause of claim_due
\* after at most the longest of the requested delays, the backoff and the visibility
\* timeout.
THEOREM NoJobStrandedHolds ==
    ASSUME NEW longest \in Nat, Delays \subseteq 0..longest, BackoffMax =< longest,
           Visibility =< longest
    PROVE  Spec => []NoJobStranded(longest)
  <1>1. Init => DelaysBounded(longest)
    BY DEF Init, DelaysBounded
  <1>2. IInv /\ DelaysBounded(longest) /\ [Next]_vars => DelaysBounded(longest)'
    BY NextDelays
  <1>3. IInv /\ DelaysBounded(longest) => NoJobStranded(longest)
    BY DEF IInv, TypeOK, LockedIffRunning, DelaysBounded, NoJobStranded, Due, Wait
  <1> QED BY <1>1, <1>2, <1>3, JobQueueSafety, PTL DEF Spec
=============================================================================
