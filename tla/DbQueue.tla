------------------------------ MODULE DbQueue ------------------------------
(***************************************************************************)
(* The SQL-backed job queue (jobs/backend/dbqueue).  Several processes     *)
(* share one table of job rows.  Each runs Backend.Run: it polls, claims a *)
(* batch of due rows one statement at a time, hands every claimed row to a *)
(* goroutine (a semaphore bounds how many), records the outcome of the     *)
(* job, and from time to time deletes old finished rows.                   *)
(*                                                                         *)
(* The claim has two implementations, chosen by the SQL dialect: a         *)
(* transaction that selects a candidate FOR UPDATE SKIP LOCKED and then    *)
(* updates it (rowLocking), or one atomic UPDATE ... RETURNING (SQLite).   *)
(*                                                                         *)
(* A database statement may fail, a process may be cancelled or crash at   *)
(* any step; Faults bounds how often.                                      *)
(***************************************************************************)
EXTENDS Integers, FiniteSets

CONSTANTS
  Jobs,             \* row ids
  Workers,          \* processes that run a Backend
  Limit,            \* the ConcurrencyLimit of the jobs that have a key
  Duration,         \* their ConcurrencyDuration
  MaxAttemptsOpts,  \* WithMaxAttempts arguments; 0 means the option is not given
  DefaultMaxAttempts,
  Delays,           \* WithDelay arguments; 0 means the option is not given
  BatchSize,        \* WithBatchSize
  Slots,            \* WithWorkers: capacity of the semaphore
  BackoffBase,      \* WithBackoff
  BackoffMax,
  Retention,        \* WithRetention
  CleanupBatchSize, \* WithCleanupBatchSize
  Setups,           \* the deployments considered: which jobs share the one
                    \* ConcurrencyKey, and whether the dialect locks rows
  MaxTime,          \* bound on the clock
  MaxFaults         \* bound on errors, cancellations and crashes

ASSUME DbQueueAssumption ==
  /\ IsFiniteSet(Jobs) /\ IsFiniteSet(Workers)
  /\ MaxAttemptsOpts \subseteq Nat
  /\ DefaultMaxAttempts \in Nat \ {0}
  /\ Delays \subseteq Nat
  /\ BatchSize \in Nat \ {0}
  /\ Slots \in Nat \ {0}
  /\ Limit \in Nat \ {0}
  /\ Duration \in Nat
  /\ BackoffBase \in Nat /\ BackoffMax \in Nat /\ Retention \in Nat
  /\ CleanupBatchSize \in Nat \ {0}
  /\ Setups \subseteq [keyed: SUBSET Jobs, rowLocking: BOOLEAN]
  /\ MaxTime \in Nat /\ MaxFaults \in Nat

VARIABLES
  now,          \* the wall clock all processes read
  setup,        \* the deployment, fixed at start
  rows,         \* the table dbqueue_jobs; a row that is not there has state "none"
  pc,           \* where each process's Run loop is
  pollNow,      \* the time stamp a claim uses throughout (0 outside claim)
  cand,         \* the row a claim transaction holds locked, as a set of at most one
  claimed,      \* copies of the rows claimed and not yet handed to a goroutine
  running,      \* copies of the rows whose goroutine runs, each holding a slot
  doomed,       \* ids selected by a cleanup pass, about to be deleted
  cancelled,    \* ctx passed to Run is done
  faults,       \* errors, cancellations and crashes so far
  performs      \* history: how often each job was dispatched to its Perform

vars == <<now, setup, rows, pc, pollNow, cand, claimed, running,
          doomed, cancelled, faults, performs>>

procVars == <<pc, pollNow, cand, claimed, running, doomed, cancelled>>

\* Dialect().SupportsRowLocking(), and the jobs with the ConcurrencyKey.
rowLocking == setup.rowLocking
Keyed == setup.keyed

States == {"none", "available", "executing", "finished", "failed"}

Row == [state: States, scheduledAt: Int, attempts: Nat, maxAttempts: Nat,
        lockedAt: Int, finishedAt: Int]

\* A process's copy of a row, read when it claimed it: Attempts is used later.
Copy == [id: Jobs, attempts: Nat]

NoRow == [state |-> "none", scheduledAt |-> 0, attempts |-> 0, maxAttempts |-> 0,
          lockedAt |-> 0, finishedAt |-> 0]

\* A process is between two iterations of Run's select (idle), inside claim
\* (claiming; locked while its transaction holds a candidate), handing the
\* batch to goroutines, inside cleanup, waiting for its goroutines after
\* ctx.Done, or gone.
Pcs == {"idle", "claiming", "locked", "handing", "cleaning", "draining", "stopped"}

TypeOK ==
  /\ now \in Nat
  /\ setup \in Setups
  /\ rows \in [Jobs -> Row]
  /\ pc \in [Workers -> Pcs]
  /\ pollNow \in [Workers -> Nat]
  /\ cand \in [Workers -> SUBSET Jobs]
  /\ claimed \in [Workers -> SUBSET Copy]
  /\ running \in [Workers -> SUBSET Copy]
  /\ doomed \in [Workers -> SUBSET Jobs]
  /\ cancelled \in [Workers -> BOOLEAN]
  /\ faults \in Nat
  /\ performs \in [Jobs -> Nat]

Init ==
  /\ now = 0
  /\ setup \in Setups
  /\ rows = [j \in Jobs |-> NoRow]
  /\ pc = [w \in Workers |-> "idle"]
  /\ pollNow = [w \in Workers |-> 0]
  /\ cand = [w \in Workers |-> {}]
  /\ claimed = [w \in Workers |-> {}]
  /\ running = [w \in Workers |-> {}]
  /\ doomed = [w \in Workers |-> {}]
  /\ cancelled = [w \in Workers |-> FALSE]
  /\ faults = 0
  /\ performs = [j \in Jobs |-> 0]

-----------------------------------------------------------------------------
(* Enqueue                                                                 *)

\* jobs.Enqueue fills in DefaultMaxAttempts when the option was not given.
EnqueuedMaxAttempts(opt) == IF opt = 0 THEN DefaultMaxAttempts ELSE opt

\* Backend.Enqueue: one INSERT of an available row.  An INSERT that fails
\* reports the error and changes nothing.
Enqueue(j, opt, delay) ==
  /\ rows[j].state = "none"
  /\ performs[j] = 0          \* ids are not reused
  /\ rows' = [rows EXCEPT ![j] =
       [NoRow EXCEPT !.state = "available",
                     !.scheduledAt = now + delay,
                     !.maxAttempts = EnqueuedMaxAttempts(opt)]]
  /\ UNCHANGED <<now, setup, procVars, faults, performs>>

-----------------------------------------------------------------------------
(* Claiming                                                                *)

\* What the subquery of concurrencyGuard counts, at time t.
WindowCount(t) ==
  Cardinality({k \in Keyed : /\ rows[k].state = "executing"
                             /\ rows[k].lockedAt > t - Duration})

\* Variant: admits one job more than the limit.
GuardOffByOne(j, t) == j \in Keyed => WindowCount(t) <= Limit

concurrencyGuard(j, t) == j \in Keyed => WindowCount(t) < Limit

\* The WHERE clause of both claims: due rows whose key has room.
Claimable(t) ==
  {j \in Jobs : /\ rows[j].state = "available"
                /\ rows[j].scheduledAt <= t
                /\ concurrencyGuard(j, t)}

RowLocks == UNION {cand[w] : w \in Workers}

\* ORDER BY scheduled_at ASC; the order among equals is the database's.
FirstOf(S) == {j \in S : \A k \in S : rows[j].scheduledAt <= rows[k].scheduledAt}

\* Variant: the select takes no row locks into account.
CandidatesIgnoringLocks(w) == FirstOf(Claimable(pollNow[w]))

\* Rows the next claim of w may take: locked rows are skipped (SKIP LOCKED).
Candidates(w) ==
  FirstOf(Claimable(pollNow[w]) \ (IF rowLocking THEN RowLocks ELSE {}))

\* A statement of w returns an error: always once ctx is done, and otherwise
\* when the database fails it.
StatementFails(w) ==
  \/ cancelled[w] /\ UNCHANGED faults
  \/ ~cancelled[w] /\ faults < MaxFaults /\ faults' = faults + 1

MarkExecuting(w, j) ==
  /\ rows' = [rows EXCEPT ![j] = [@ EXCEPT !.state = "executing", !.lockedAt = pollNow[w]]]
  /\ claimed' = [claimed EXCEPT ![w] = @ \cup {[id |-> j, attempts |-> rows[j].attempts]}]

\* Variant: polls forever with the time stamp of its start.
StartPollStale(w) ==
  /\ pc[w] = "idle"
  /\ pc' = [pc EXCEPT ![w] = "claiming"]
  /\ UNCHANGED <<now, setup, rows, pollNow, cand, claimed, running, doomed,
                 cancelled, faults, performs>>

\* Run's select takes the poll ticker (Go may prefer it to a done ctx).
StartPoll(w) ==
  /\ pc[w] = "idle"
  /\ pc' = [pc EXCEPT ![w] = "claiming"]
  /\ pollNow' = [pollNow EXCEPT ![w] = now]
  /\ UNCHANGED <<now, setup, rows, cand, claimed, running, doomed,
                 cancelled, faults, performs>>

\* claimOneSQLite: select and update are one statement.
claimOneSQLite(w) ==
  /\ pc[w] = "claiming" /\ ~rowLocking /\ ~cancelled[w]
  /\ Cardinality(claimed[w]) < BatchSize
  /\ \E j \in Candidates(w) : MarkExecuting(w, j)
  /\ UNCHANGED <<now, setup, pc, pollNow, cand, running, doomed, cancelled,
                 faults, performs>>

\* claimOneLocking, first statement: the candidate is locked, and the guard
\* was evaluated on what other transactions have committed so far.
claimOneLocking(w) ==
  /\ pc[w] = "claiming" /\ rowLocking /\ ~cancelled[w]
  /\ Cardinality(claimed[w]) < BatchSize
  /\ \E j \in Candidates(w) : cand' = [cand EXCEPT ![w] = {j}]
  /\ pc' = [pc EXCEPT ![w] = "locked"]
  /\ UNCHANGED <<now, setup, rows, pollNow, claimed, running, doomed,
                 cancelled, faults, performs>>

\* claimOneLocking, second statement and commit: the lock goes with it.
CommitClaim(w) ==
  /\ pc[w] = "locked" /\ ~cancelled[w]
  /\ \E j \in cand[w] : MarkExecuting(w, j)
  /\ cand' = [cand EXCEPT ![w] = {}]
  /\ pc' = [pc EXCEPT ![w] = "claiming"]
  /\ UNCHANGED <<now, setup, pollNow, running, doomed, cancelled, faults, performs>>

\* claim returns: the batch is full, or a query found nothing claimable.
EndClaim(w) ==
  /\ pc[w] = "claiming"
  /\ \/ Cardinality(claimed[w]) >= BatchSize
     \/ ~cancelled[w] /\ Candidates(w) = {}
  /\ pc' = [pc EXCEPT ![w] = IF claimed[w] = {} THEN "idle" ELSE "handing"]
  /\ pollNow' = [pollNow EXCEPT ![w] = 0]
  /\ UNCHANGED <<now, setup, rows, cand, claimed, running,
                 doomed, cancelled, faults, performs>>

\* claim returns an error (ctx done, or the statement failed): the
\* transaction rolls back, and poll drops the rows claimed so far.
ClaimError(w) ==
  /\ \/ pc[w] = "claiming" /\ Cardinality(claimed[w]) < BatchSize
     \/ pc[w] = "locked"
  /\ StatementFails(w)
  /\ pc' = [pc EXCEPT ![w] = "idle"]
  /\ cand' = [cand EXCEPT ![w] = {}]
  /\ claimed' = [claimed EXCEPT ![w] = {}]
  /\ pollNow' = [pollNow EXCEPT ![w] = 0]
  /\ UNCHANGED <<now, setup, rows, running, doomed, cancelled, performs>>

-----------------------------------------------------------------------------
(* Dispatching                                                             *)

\* Variant: drops the rest of the batch when no slot is free.
HandOffOrDrop(w) ==
  /\ pc[w] = "handing"
  /\ \/ /\ Cardinality(running[w]) < Slots
        /\ \E row \in claimed[w] :
             /\ claimed' = [claimed EXCEPT ![w] = @ \ {row}]
             /\ running' = [running EXCEPT ![w] = @ \cup {row}]
             /\ performs' = [performs EXCEPT ![row.id] = @ + 1]
             /\ pc' = [pc EXCEPT ![w] = IF claimed[w] = {row} THEN "idle" ELSE "handing"]
     \/ /\ Cardinality(running[w]) >= Slots
        /\ claimed' = [claimed EXCEPT ![w] = {}]
        /\ pc' = [pc EXCEPT ![w] = "idle"]
        /\ UNCHANGED <<running, performs>>
  /\ UNCHANGED <<now, setup, rows, pollNow, cand, doomed, cancelled, faults>>

\* poll's loop: take a semaphore slot (blocking the Run loop until there is
\* one) and start the goroutine that dispatches the row.  The rows of a
\* batch are started in any order here; the code keeps the claim's order.
HandOff(w) ==
  /\ pc[w] = "handing"
  /\ Cardinality(running[w]) < Slots
  /\ \E row \in claimed[w] :
       /\ claimed' = [claimed EXCEPT ![w] = @ \ {row}]
       /\ running' = [running EXCEPT ![w] = @ \cup {row}]
       /\ performs' = [performs EXCEPT ![row.id] = @ + 1]
       /\ pc' = [pc EXCEPT ![w] = IF claimed[w] = {row} THEN "idle" ELSE "handing"]
  /\ UNCHANGED <<now, setup, rows, pollNow, cand, doomed, cancelled, faults>>

\* The delays computeBackoff may return: half the capped exponential delay
\* plus a jitter of at most the other half.
computeBackoff(attempts) ==
  LET exp == IF attempts > 10 THEN 10 ELSE attempts
      raw == BackoffBase * 2^exp
      d   == IF raw <= 0 \/ raw > BackoffMax THEN BackoffMax ELSE raw
      half == d \div 2
  IN  half .. half + half

\* Variant: writes a state the rest of the code does not know.
FinishAsDone(w, row) ==
  /\ row \in running[w]
  /\ rows' = [rows EXCEPT ![row.id] = [@ EXCEPT !.state = "done", !.finishedAt = now]]
  /\ running' = [running EXCEPT ![w] = @ \ {row}]
  /\ UNCHANGED <<now, setup, pc, pollNow, cand, claimed, doomed, cancelled,
                 faults, performs>>

\* dispatch, the job returned nil: finish.
Finish(w, row) ==
  /\ row \in running[w]
  /\ rows' = [rows EXCEPT ![row.id] = [@ EXCEPT !.state = "finished", !.finishedAt = now]]
  /\ running' = [running EXCEPT ![w] = @ \ {row}]
  /\ UNCHANGED <<now, setup, pc, pollNow, cand, claimed, doomed, cancelled,
                 faults, performs>>

\* Variant: allows one attempt too many.
ExhaustedLate(j, attempts) == attempts > rows[j].maxAttempts

\* fail's test whether the job has used up its attempts.
Exhausted(j, attempts) == attempts >= rows[j].maxAttempts

\* dispatch, the job returned an error: fail.  Attempts comes from the
\* process's copy of the row, not from the table.
Fail(w, row) ==
  LET attempts == row.attempts + 1 IN
  /\ row \in running[w]
  /\ \/ /\ Exhausted(row.id, attempts)
        /\ rows' = [rows EXCEPT ![row.id] =
                       [@ EXCEPT !.attempts = attempts, !.state = "failed"]]
     \/ /\ ~Exhausted(row.id, attempts)
        /\ \E d \in computeBackoff(attempts) :
             rows' = [rows EXCEPT ![row.id] =
                        [@ EXCEPT !.attempts = attempts, !.state = "available",
                                  !.scheduledAt = now + d]]
  /\ running' = [running EXCEPT ![w] = @ \ {row}]
  /\ UNCHANGED <<now, setup, pc, pollNow, cand, claimed, doomed, cancelled,
                 faults, performs>>

\* finish or fail cannot write the row: the error is logged and the
\* goroutine ends.
RecordError(w, row) ==
  /\ row \in running[w]
  /\ faults < MaxFaults /\ faults' = faults + 1
  /\ running' = [running EXCEPT ![w] = @ \ {row}]
  /\ UNCHANGED <<now, setup, rows, pc, pollNow, cand, claimed, doomed,
                 cancelled, performs>>

-----------------------------------------------------------------------------
(* Cleanup, shutdown, crashes, time                                        *)

\* Variant: selects by finished_at alone.
StaleAnyState(cutoff) == {j \in Jobs : rows[j].state # "none" /\ rows[j].finishedAt <= cutoff}

\* Finished rows whose finished_at is no later than cutoff.
Stale(cutoff) == {j \in Jobs : rows[j].state = "finished" /\ rows[j].finishedAt <= cutoff}

\* cleanup, first statement: pick the oldest finished rows past the
\* retention window, at most CleanupBatchSize of them.
StartCleanup(w) ==
  /\ pc[w] = "idle" /\ ~cancelled[w]
  /\ \E ids \in SUBSET Stale(now - Retention) \ {{}} :
       /\ Cardinality(ids) <= CleanupBatchSize
       /\ \A j \in Stale(now - Retention) \ ids :
            /\ Cardinality(ids) = CleanupBatchSize
            /\ \A i \in ids : rows[i].finishedAt <= rows[j].finishedAt
       /\ doomed' = [doomed EXCEPT ![w] = ids]
  /\ pc' = [pc EXCEPT ![w] = "cleaning"]
  /\ UNCHANGED <<now, setup, rows, pollNow, cand, claimed, running,
                 cancelled, faults, performs>>

\* cleanup, second statement: delete them by id.  When it fails the rows
\* stay for a later pass.
EndCleanup(w) ==
  /\ pc[w] = "cleaning"
  /\ \/ /\ ~cancelled[w] /\ UNCHANGED faults
        /\ rows' = [j \in Jobs |-> IF j \in doomed[w] THEN NoRow ELSE rows[j]]
     \/ StatementFails(w) /\ UNCHANGED rows
  /\ doomed' = [doomed EXCEPT ![w] = {}]
  /\ pc' = [pc EXCEPT ![w] = "idle"]
  /\ UNCHANGED <<now, setup, pollNow, cand, claimed, running,
                 cancelled, performs>>

\* The application cancels the context it passed to Run.
Cancel(w) ==
  /\ ~cancelled[w] /\ pc[w] # "stopped"
  /\ faults < MaxFaults /\ faults' = faults + 1
  /\ cancelled' = [cancelled EXCEPT ![w] = TRUE]
  /\ UNCHANGED <<now, setup, rows, pc, pollNow, cand, claimed, running,
                 doomed, performs>>

\* Run's select takes ctx.Done: wait for the goroutines.
StopPolling(w) ==
  /\ pc[w] = "idle" /\ cancelled[w]
  /\ pc' = [pc EXCEPT ![w] = "draining"]
  /\ UNCHANGED <<now, setup, rows, pollNow, cand, claimed, running,
                 doomed, cancelled, faults, performs>>

\* wg.Wait returns and Run ends.
ReturnFromRun(w) ==
  /\ pc[w] = "draining" /\ running[w] = {}
  /\ pc' = [pc EXCEPT ![w] = "stopped"]
  /\ UNCHANGED <<now, setup, rows, pollNow, cand, claimed, running,
                 doomed, cancelled, faults, performs>>

\* The process dies: its open transaction rolls back, everything it held in
\* memory is gone.
Crash(w) ==
  /\ pc[w] # "stopped"
  /\ faults < MaxFaults /\ faults' = faults + 1
  /\ pc' = [pc EXCEPT ![w] = "stopped"]
  /\ cand' = [cand EXCEPT ![w] = {}]
  /\ claimed' = [claimed EXCEPT ![w] = {}]
  /\ running' = [running EXCEPT ![w] = {}]
  /\ doomed' = [doomed EXCEPT ![w] = {}]
  /\ pollNow' = [pollNow EXCEPT ![w] = 0]
  /\ UNCHANGED <<now, setup, rows, cancelled, performs>>

\* A new process starts under the same worker id.  Run recovers nothing.
Restart(w) ==
  /\ pc[w] = "stopped"
  /\ pc' = [pc EXCEPT ![w] = "idle"]
  /\ cancelled' = [cancelled EXCEPT ![w] = FALSE]
  /\ UNCHANGED <<now, setup, rows, pollNow, cand, claimed, running,
                 doomed, faults, performs>>

Tick ==
  /\ now < MaxTime
  /\ now' = now + 1
  /\ UNCHANGED <<setup, rows, procVars, faults, performs>>

\* Everything Run's own goroutine does.
RunStep(w) ==
  \/ StartPoll(w) \/ claimOneSQLite(w) \/ claimOneLocking(w) \/ CommitClaim(w)
  \/ EndClaim(w) \/ ClaimError(w) \/ HandOff(w)
  \/ StartCleanup(w) \/ EndCleanup(w) \/ StopPolling(w) \/ ReturnFromRun(w)

\* A job's goroutine ends.
DispatchStep(w) ==
  \E row \in running[w] : Finish(w, row) \/ Fail(w, row) \/ RecordError(w, row)

Next ==
  \/ Tick
  \/ \E j \in Jobs, opt \in MaxAttemptsOpts, delay \in Delays : Enqueue(j, opt, delay)
  \/ \E w \in Workers :
       RunStep(w) \/ DispatchStep(w) \/ Cancel(w) \/ Crash(w) \/ Restart(w)

Spec == Init /\ [][Next]_vars

\* The Run loop of a live process keeps going and every job returns.
Fairness ==
  \A w \in Workers : /\ WF_vars(RunStep(w))
                     /\ WF_vars(DispatchStep(w))

FairSpec == Spec /\ Fairness

-----------------------------------------------------------------------------
(* Properties                                                              *)

\* The copies of rows in the hands of process w.
Held(w) == claimed[w] \cup running[w]

\* Concurrent workers never hold the same row: whatever the dialect, and
\* through errors, cancellations and crashes, a row is in the hands of at most
\* one process and, there, either waits for a slot or runs, not both
\* (doc.go: "never claim the same row twice").
OneHolder ==
  /\ \A v, w \in Workers : \A r \in Held(v), s \in Held(w) : r.id = s.id => v = w /\ r = s
  /\ \A w \in Workers : claimed[w] \cap running[w] = {}

\* A row's attempts counts the failed performances of its job exactly, though
\* fail computes it from a copy read at claim time: a waiting row was
\* performed attempts times, a finished one once more, and a row is given up
\* exactly when its attempts reach MaxAttempts.
AttemptsAccount ==
  \A j \in Jobs :
    /\ rows[j].state = "available" =>
         performs[j] = rows[j].attempts /\ rows[j].attempts < rows[j].maxAttempts
    /\ rows[j].state = "executing" =>
         /\ performs[j] \in {rows[j].attempts, rows[j].attempts + 1}
         /\ rows[j].attempts < rows[j].maxAttempts
    /\ rows[j].state = "finished" =>
         performs[j] = rows[j].attempts + 1 /\ performs[j] <= rows[j].maxAttempts
    /\ rows[j].state = "failed" =>
         performs[j] = rows[j].attempts /\ rows[j].attempts = rows[j].maxAttempts

\* The claim query keeps the jobs of one key that execute within the window
\* under the limit; with row locking, where the guard does not see what other
\* open transactions are about to claim, each other process can add one.
WindowLimit ==
  WindowCount(now) <= Limit + (IF rowLocking THEN Cardinality(Workers) - 1 ELSE 0)

\* doc.go: ConcurrencyLimit is "enforced by the same claim query".
ConcurrencyLimitEnforced == WindowCount(now) <= Limit

\* A row is never lost before it is settled, and stays forever in finished or
\* failed as it was written, except that cleanup, which deletes by ids it read
\* in a statement before, deletes finished rows, never before their retention is
\* over.
SettledStep ==
  \A j \in Jobs :
    /\ rows[j].state = "failed" => rows'[j] = rows[j]
    /\ rows[j].state = "finished" =>
         \/ rows'[j] = rows[j]
         \/ rows'[j] = NoRow /\ rows[j].finishedAt + Retention <= now
    /\ rows[j].state \in {"available", "executing"} => rows'[j].state # "none"

SettledStays == [][SettledStep]_vars

\* A row in state executing that no process holds is never touched again.
\* Only an error, a cancellation or a crash can leave one behind.
NoOrphanWithoutFault ==
  faults = 0 => \A j \in Jobs : rows[j].state = "executing" =>
    \E w \in Workers : \E row \in Held(w) : row.id = j

Due(j) == rows[j].state = "available" /\ rows[j].scheduledAt <= now

\* As long as nothing fails, a due row is eventually claimed, its job
\* performed and the outcome recorded (a retry is due only after its backoff).
DueIsRecorded ==
  \A j \in Jobs :
    (Due(j) \/ rows[j].state = "executing")
      ~> (~(Due(j) \/ rows[j].state = "executing") \/ faults > 0)
=============================================================================
