----------------------------- MODULE CloudTask -----------------------------
(***************************************************************************)
(* The Cloud Tasks job backend (jobs/backend/cloudtask): Enqueue inserts a *)
(* row and creates a task; the Cloud Tasks service, which is external,     *)
(* pushes the task at least once until a push is answered 200; the push    *)
(* handler claims the row in a transaction, runs the job and records the   *)
(* outcome.  The model takes a database with row locks.                    *)
(*                                                                         *)
(* All jobs with a key share one; its lock row is the slot.  A push's      *)
(* request context ends when Cloud Tasks gives up on it (Timeout); the     *)
(* handler goes on, but every later statement of it fails.                 *)
(***************************************************************************)
EXTENDS Integers, FiniteSets

CONSTANTS
  Jobs,         \* job rows
  KeyedSets,    \* the sets of jobs with the ConcurrencyKey that are considered
  Limit,        \* its ConcurrencyLimit
  Duration,     \* its ConcurrencyDuration
  MaxAttempts,  \* MaxAttempts of every job
  Pushes,       \* push requests that can be open at the same time
  NoJob,        \* the job of a push request that is not open
  MaxTime,      \* bound on the clock
  MaxFaults     \* bound on failures, timeouts, crashes and duplicates

ASSUME CloudTaskAssumption ==
  /\ IsFiniteSet(Jobs) /\ KeyedSets \subseteq SUBSET Jobs
  /\ NoJob \notin Jobs
  /\ Limit \in Nat \ {0} /\ Duration \in Nat
  /\ MaxAttempts \in Nat \ {0}
  /\ MaxTime \in Nat /\ MaxFaults \in Nat

VARIABLES
  now,        \* wall clock
  keyed,      \* the jobs with the ConcurrencyKey
  rows,       \* table cloudtask_jobs, as committed
  enq,        \* progress of each job's Enqueue call
  task,       \* the Cloud Tasks side: is the job's task still to be delivered?
  push,       \* the open push requests
  slot,       \* committed: the key's row in cloudtask_concurrency_slots is there
  slotHeld,   \* the push whose open transaction inserted or locked the slot row
  sweep,      \* progress of a cleanup pass
  faults,     \* failures, timeouts, crashes and duplicate deliveries so far
  performs    \* history: how often each job was dispatched

vars == <<now, keyed, rows, enq, task, push, slot, slotHeld, sweep, faults, performs>>

States == {"none", "pending", "executing", "finished", "failed"}

\* A push's claim transaction has its job's row locked once it has marked it
\* executing (uncommitted): a job without a key is marked, one with a key goes
\* from claiming over upserted (slot row made sure of) and counting (slot row
\* locked) to within or over (the key's limit).  The claim is committed before
\* the job is dispatched (claimed, then performing).
ClaimPcs == {"marked", "claiming", "upserted", "counting", "within", "over"}
AtWork == {"claimed", "performing"}
PushPcs == ClaimPcs \cup AtWork \cup {"free"}

SweepPcs == {"idle", "selected", "jobsDone", "slotChecked"}

TypeOK ==
  /\ now \in Nat
  /\ keyed \in KeyedSets
  /\ rows \in [Jobs -> [state: States, attempts: Nat, lockedAt: Int]]
  /\ enq \in [Jobs -> {"no", "inserted", "undoing", "ok", "error"}]
  /\ task \in [Jobs -> {"none", "queued", "done"}]
  /\ push \in [Pushes -> [pc: PushPcs, job: Jobs \cup {NoJob}, attempts: Nat,
                      at: Nat, live: BOOLEAN]]
  /\ slot \in BOOLEAN
  /\ slotHeld \in SUBSET Pushes
  /\ sweep \in [pc: SweepPcs, ids: SUBSET Jobs]
  /\ faults \in Nat
  /\ performs \in [Jobs -> Nat]

NoRow == [state |-> "none", attempts |-> 0, lockedAt |-> 0]
Free == [pc |-> "free", job |-> NoJob, attempts |-> 0, at |-> 0, live |-> TRUE]

Init ==
  /\ now = 0
  /\ keyed \in KeyedSets
  /\ rows = [j \in Jobs |-> NoRow]
  /\ enq = [j \in Jobs |-> "no"]
  /\ task = [j \in Jobs |-> "none"]
  /\ push = [p \in Pushes |-> Free]
  /\ slot = FALSE
  /\ slotHeld = {}
  /\ sweep = [pc |-> "idle", ids |-> {}]
  /\ faults = 0
  /\ performs = [j \in Jobs |-> 0]

Fault == faults < MaxFaults /\ faults' = faults + 1

LockedBy(p, j) == push[p].job = j /\ push[p].pc \in ClaimPcs
RowLocked(j) == \E p \in Pushes : LockedBy(p, j)

-----------------------------------------------------------------------------
(* Enqueue                                                                 *)

\* Enqueue, first statement: insert the pending row.  (If it fails, Enqueue
\* returns the error and nothing happened.)
EnqueueInsert(j) ==
  /\ enq[j] = "no"
  /\ enq' = [enq EXCEPT ![j] = "inserted"]
  /\ rows' = [rows EXCEPT ![j] = [state |-> "pending", attempts |-> 0, lockedAt |-> 0]]
  /\ UNCHANGED <<now, keyed, task, push, slot, slotHeld, sweep, faults, performs>>

\* CreateTask succeeds; Enqueue returns nil (recording the task's name and
\* ensureScheduled, see CleanupChain, do not touch the job).
EnqueueCreated(j) ==
  /\ enq[j] = "inserted"
  /\ enq' = [enq EXCEPT ![j] = "ok"]
  /\ task' = [task EXCEPT ![j] = "queued"]
  /\ UNCHANGED <<now, keyed, rows, push, slot, slotHeld, sweep, faults, performs>>

\* CreateTask returns an error: the service may have created the task all
\* the same.
EnqueueCreateFails(j) ==
  /\ enq[j] = "inserted" /\ Fault
  /\ enq' = [enq EXCEPT ![j] = "undoing"]
  /\ \E t \in {"none", "queued"} : task' = [task EXCEPT ![j] = t]
  /\ UNCHANGED <<now, keyed, rows, push, slot, slotHeld, sweep, performs>>

\* Enqueue deletes the row again and returns the error; a DELETE that fails
\* is only logged.
EnqueueUndo(j) ==
  /\ enq[j] = "undoing"
  /\ enq' = [enq EXCEPT ![j] = "error"]
  /\ \/ ~RowLocked(j) /\ rows' = [rows EXCEPT ![j] = NoRow] /\ UNCHANGED faults
     \/ Fault /\ UNCHANGED rows
  /\ UNCHANGED <<now, keyed, task, push, slot, slotHeld, sweep, performs>>

-----------------------------------------------------------------------------
(* claimForExecution                                                       *)

\* A push is answered: 200 removes the task, anything else leaves it to be
\* delivered again.  Cloud Tasks ignores the answer to a push it gave up on.
Answer(p, code) ==
  /\ push' = [push EXCEPT ![p] = Free]
  /\ task' = IF code = 200 /\ push[p].live
             THEN [task EXCEPT ![push[p].job] = "done"] ELSE task

\* Variant: looks at the attempts only, not at the state.
ExhaustedOnly(j) == rows[j].attempts >= MaxAttempts

\* claimSkip and claimExhausted: the row is gone or not pending, or its
\* attempts are used up.
Skipped(j) == rows[j].state # "pending" \/ rows[j].attempts >= MaxAttempts

\* Cloud Tasks delivers j's task, the token and the body check out, and the
\* claim transaction locks and reads the row (waiting for whoever has it).
\* A row to be skipped is answered at once.  A delivery while another one is
\* open is a duplicate.  A rejected token or body is answered 4xx and changes
\* nothing.
DeliverSkip(p, j) ==
  /\ push[p].pc = "free" /\ task[j] = "queued" /\ ~RowLocked(j)
  /\ Skipped(j)
  /\ IF \E q \in Pushes : push[q].job = j /\ push[q].live THEN Fault ELSE UNCHANGED faults
  /\ task' = [task EXCEPT ![j] = "done"]
  /\ UNCHANGED <<now, keyed, rows, enq, push, slot, slotHeld, sweep, performs>>

\* ... or the row is marked executing (uncommitted: push holds the copy).
DeliverClaim(p, j) ==
  /\ push[p].pc = "free" /\ task[j] = "queued" /\ ~RowLocked(j)
  /\ ~Skipped(j)
  /\ push' = [push EXCEPT ![p] =
       [pc |-> IF j \in keyed THEN "claiming" ELSE "marked",
        job |-> j, attempts |-> rows[j].attempts + 1, at |-> now, live |-> TRUE]]
  /\ UNCHANGED <<now, keyed, rows, enq, task, slot, slotHeld, sweep, faults, performs>>

\* INSERT ... ON CONFLICT DO NOTHING of the slot row: waits for another
\* transaction that has inserted it and not committed; an insert of its own
\* also locks the row.
UpsertSlot(p) ==
  /\ push[p].pc = "claiming" /\ push[p].live
  /\ slot \/ slotHeld = {}
  /\ slotHeld' = IF slot THEN slotHeld ELSE {p}
  /\ push' = [push EXCEPT ![p].pc = "upserted"]
  /\ UNCHANGED <<now, keyed, rows, enq, task, slot, sweep, faults, performs>>

\* Variant: reads the slot row without locking it.
ReadSlot(p) ==
  /\ push[p].pc = "upserted" /\ push[p].live
  /\ p \in slotHeld \/ slot
  /\ push' = [push EXCEPT ![p].pc = "counting"]
  /\ UNCHANGED <<now, keyed, rows, enq, task, slot, slotHeld, sweep, faults, performs>>

\* SELECT ... FOR UPDATE of the slot row: waits for its holder.
LockSlot(p) ==
  /\ push[p].pc = "upserted" /\ push[p].live
  /\ p \in slotHeld \/ (slot /\ slotHeld = {})
  /\ slotHeld' = {p}
  /\ push' = [push EXCEPT ![p].pc = "counting"]
  /\ UNCHANGED <<now, keyed, rows, enq, task, slot, sweep, faults, performs>>

\* The rows the transaction of p counts: those committed as executing in the
\* window, and its own.
ActiveCount(p) ==
  Cardinality({j \in keyed :
    \/ j = push[p].job
    \/ rows[j].state = "executing" /\ rows[j].lockedAt > push[p].at - Duration})

CountActive(p) ==
  /\ push[p].pc = "counting" /\ push[p].live
  /\ push' = [push EXCEPT ![p].pc = IF ActiveCount(p) > Limit THEN "over" ELSE "within"]
  /\ UNCHANGED <<now, keyed, rows, enq, task, slot, slotHeld, sweep, faults, performs>>

\* No key, or within its limit: the row is executing, and the slot row there,
\* for everyone.
CommitClaim(p) ==
  /\ push[p].pc \in {"marked", "within"} /\ push[p].live
  /\ rows' = [rows EXCEPT ![push[p].job] =
       [state |-> "executing", attempts |-> push[p].attempts, lockedAt |-> push[p].at]]
  /\ slot' = (slot \/ push[p].pc = "within") /\ slotHeld' = slotHeld \ {p}

\* The commit returns, and the handler goes on to Dispatch.
ClaimExecute(p) ==
  /\ CommitClaim(p)
  /\ push' = [push EXCEPT ![p].pc = "claimed"]
  /\ UNCHANGED <<now, keyed, enq, task, sweep, faults, performs>>

\* The database commits, but the handler gets an error for it: 500, and the
\* job is not dispatched.  (Of a deferral's commit that makes no difference:
\* 429 and 500 both leave the task to be delivered again.)
ClaimAnswerLost(p) ==
  /\ CommitClaim(p) /\ Fault
  /\ Answer(p, 500)
  /\ UNCHANGED <<now, keyed, enq, sweep, performs>>

\* Variant: the attempt is not taken back.
DeferredKeepsAttempt(p) ==
  /\ push[p].pc = "over" /\ push[p].live
  /\ rows' = [rows EXCEPT ![push[p].job].attempts = push[p].attempts]
  /\ slot' = TRUE /\ slotHeld' = slotHeld \ {p}
  /\ Answer(p, 429)
  /\ UNCHANGED <<now, keyed, enq, sweep, faults, performs>>

\* Variant: the push is acknowledged.
DeferredAcked(p) ==
  /\ push[p].pc = "over" /\ push[p].live
  /\ slot' = TRUE /\ slotHeld' = slotHeld \ {p}
  /\ Answer(p, 200)
  /\ UNCHANGED <<now, keyed, rows, enq, sweep, faults, performs>>

\* Over the limit: the row goes back to pending (its locked_at stays), the
\* attempt is taken back, the transaction commits and the push is answered 429.
ClaimDeferred(p) ==
  /\ push[p].pc = "over" /\ push[p].live
  /\ rows' = [rows EXCEPT ![push[p].job].lockedAt = push[p].at]
  /\ slot' = TRUE /\ slotHeld' = slotHeld \ {p}
  /\ Answer(p, 429)
  /\ UNCHANGED <<now, keyed, enq, sweep, faults, performs>>

\* The claim fails and rolls back, the push is answered 500: the slot row was
\* deleted since the upsert, the context is done, or the database fails.
ClaimError(p) ==
  /\ push[p].pc \in ClaimPcs
  /\ \/ push[p].pc = "upserted" /\ p \notin slotHeld /\ ~slot /\ UNCHANGED faults
     \/ ~push[p].live /\ UNCHANGED faults
     \/ push[p].live /\ Fault
  /\ slotHeld' = slotHeld \ {p}
  /\ Answer(p, 500)
  /\ UNCHANGED <<now, keyed, rows, enq, slot, sweep, performs>>

-----------------------------------------------------------------------------
(* handlePush after the claim                                              *)

\* Dispatch calls the job, whether or not the request's context has ended
\* meanwhile.
Dispatch(p) ==
  /\ push[p].pc = "claimed"
  /\ push' = [push EXCEPT ![p].pc = "performing"]
  /\ performs' = [performs EXCEPT ![push[p].job] = @ + 1]
  /\ UNCHANGED <<now, keyed, rows, enq, task, slot, slotHeld, sweep, faults>>

\* A statement of the handler outside the claim: it fails once the request's
\* context is done, and the handler only logs that.
Write(p, row) ==
  \/ /\ push[p].live
     /\ rows' = [rows EXCEPT ![push[p].job] = IF @.state = "none" THEN NoRow ELSE row]
     /\ UNCHANGED faults
  \/ ~push[p].live /\ UNCHANGED <<rows, faults>>
  \/ push[p].live /\ Fault /\ UNCHANGED rows

\* The job returned nil: finish, 200.
Succeed(p) ==
  /\ push[p].pc = "performing" /\ ~RowLocked(push[p].job)
  /\ Write(p, [rows[push[p].job] EXCEPT !.state = "finished"])
  /\ Answer(p, 200)
  /\ UNCHANGED <<now, keyed, enq, slot, slotHeld, sweep, performs>>

\* The job returned an error: fail, 200 when the attempts are used up and
\* 500 when Cloud Tasks should retry.
Fail(p) ==
  /\ push[p].pc = "performing" /\ ~RowLocked(push[p].job)
  /\ LET exhausted == push[p].attempts >= MaxAttempts IN
       /\ Write(p, [rows[push[p].job] EXCEPT
                      !.state = IF exhausted THEN "failed" ELSE "pending"])
       /\ Answer(p, IF exhausted THEN 200 ELSE 500)
  /\ UNCHANGED <<now, keyed, enq, slot, slotHeld, sweep, performs>>

\* Cloud Tasks gives up on a push (dispatch deadline): it counts as failed.
Timeout(p) ==
  /\ push[p].pc # "free" /\ push[p].live /\ Fault
  /\ push' = [push EXCEPT ![p].live = FALSE]
  /\ UNCHANGED <<now, keyed, rows, enq, task, slot, slotHeld, sweep, performs>>

\* The instance that serves a push is killed.
Crash(p) ==
  /\ push[p].pc # "free" /\ Fault
  /\ push' = [push EXCEPT ![p] = Free]
  /\ slotHeld' = slotHeld \ {p}
  /\ UNCHANGED <<now, keyed, rows, enq, task, slot, sweep, performs>>

-----------------------------------------------------------------------------
(* A cleanup pass (handleCleanupPush; CleanupChain models when it runs).   *)
(* Retention and slot grace are over whenever the pass finds something.    *)

Settled == {j \in Jobs : rows[j].state \in {"finished", "failed"}}

CleanupSelect ==
  /\ sweep.pc = "idle"
  /\ sweep' = [pc |-> "selected", ids |-> Settled]
  /\ UNCHANGED <<now, keyed, rows, enq, task, push, slot, slotHeld, faults, performs>>

CleanupDelete ==
  /\ sweep.pc = "selected"
  /\ \/ /\ rows' = [j \in Jobs |-> IF j \in sweep.ids THEN NoRow ELSE rows[j]]
        /\ UNCHANGED faults
     \/ Fault /\ UNCHANGED rows           \* the error is logged
  /\ sweep' = [pc |-> "jobsDone", ids |-> {}]
  /\ UNCHANGED <<now, keyed, enq, task, push, slot, slotHeld, performs>>

\* cleanupSlots looks for an executing job of the slot's key ...
CleanupCheckSlot ==
  /\ sweep.pc = "jobsDone"
  /\ sweep' = [sweep EXCEPT !.pc =
       IF slot /\ \A j \in keyed : rows[j].state # "executing" THEN "slotChecked" ELSE "idle"]
  /\ UNCHANGED <<now, keyed, rows, enq, task, push, slot, slotHeld, faults, performs>>

\* ... and deletes the slot, in a statement of its own that waits for locks.
CleanupDeleteSlot ==
  /\ sweep.pc = "slotChecked"
  /\ \/ slotHeld = {} /\ slot' = FALSE /\ UNCHANGED faults
     \/ Fault /\ UNCHANGED slot           \* the error is logged
  /\ sweep' = [sweep EXCEPT !.pc = "idle"]
  /\ UNCHANGED <<now, keyed, rows, enq, task, push, slotHeld, performs>>

Tick ==
  /\ now < MaxTime
  /\ now' = now + 1
  /\ UNCHANGED <<keyed, rows, enq, task, push, slot, slotHeld, sweep, faults, performs>>

EnqueueStep(j) ==
  EnqueueInsert(j) \/ EnqueueCreated(j) \/ EnqueueCreateFails(j) \/ EnqueueUndo(j)

Deliver(j) == \E p \in Pushes : DeliverSkip(p, j) \/ DeliverClaim(p, j)

HandlerStep(p) ==
  \/ UpsertSlot(p) \/ LockSlot(p) \/ CountActive(p)
  \/ ClaimExecute(p) \/ ClaimDeferred(p) \/ ClaimError(p)
  \/ Dispatch(p) \/ Succeed(p) \/ Fail(p)

Cleanup == CleanupSelect \/ CleanupDelete \/ CleanupCheckSlot \/ CleanupDeleteSlot

Next ==
  \/ Tick
  \/ \E j \in Jobs : EnqueueStep(j) \/ Deliver(j)
  \/ \E p \in Pushes : HandlerStep(p) \/ ClaimAnswerLost(p) \/ Timeout(p) \/ Crash(p)
  \/ Cleanup

Spec == Init /\ [][Next]_vars

\* Cloud Tasks keeps delivering every queued task, and handlers and jobs run
\* to their end.
Fairness ==
  /\ \A j \in Jobs : SF_vars(Deliver(j))
  /\ \A p \in Pushes : WF_vars(HandlerStep(p))

FairSpec == Spec /\ Fairness

-----------------------------------------------------------------------------
(* Properties                                                              *)

\* Two pushes are never past the claim of the same job at the same time, so
\* that it is not performed twice at once, although Cloud Tasks delivers tasks
\* more than once and retries what timed out.
NoConcurrentPerform ==
  \A p, q \in Pushes :
    push[p].pc \in AtWork /\ push[q].pc \in AtWork /\ push[p].job = push[q].job => p = q

\* The local attempt counter is the number of times the job was dispatched, in
\* every row that is pending, finished or failed: a deferral does not consume
\* an attempt, a run does however it ends.  The claim is committed before
\* Dispatch, so that a row that is executing may be one attempt ahead, and one
\* whose handler was stopped between the two, or was told that the commit
\* failed, stays so; never by more than one, and never while the job runs.  A
\* job is dispatched at most MaxAttempts times, and given up for good only
\* after exactly so many runs.
AttemptsExact ==
  \A j \in Jobs :
    /\ performs[j] <= MaxAttempts
    /\ rows[j].state \in {"pending", "finished", "failed"} => rows[j].attempts = performs[j]
    /\ rows[j].state = "executing" =>
         \/ rows[j].attempts = performs[j]
         \/ /\ rows[j].attempts = performs[j] + 1
            /\ \A p \in Pushes : push[p].job = j => push[p].pc # "performing"
    /\ rows[j].state = "failed" => performs[j] = MaxAttempts

\* The per-key lock row makes the count and the claim one step: the jobs of a
\* key that execute within the window never exceed the limit, for a brand-new
\* key too and while cleanup deletes the lock row.
WindowLimit ==
  Cardinality({j \in keyed : rows[j].state = "executing" /\ rows[j].lockedAt > now - Duration})
    <= Limit

\* Cloud Tasks still has a task for every job that may need another push, or a
\* push whose answer counts is at work on it (Enqueue: "a push that fails is
\* retried against the row's own Attempts/MaxAttempts ... until exhausted").
RetriedUntilExhausted ==
  \A j \in Jobs :
    enq[j] = "ok" /\ rows[j].state \in {"pending", "executing"}
      => \/ task[j] = "queued" /\ rows[j].state = "pending"
         \/ \E p \in Pushes : push[p].job = j /\ push[p].live /\ task[j] = "queued"

\* A job that was handed to Cloud Tasks is eventually finished, failed for
\* good, or cleaned up after that, as long as nothing fails on the way.
EventuallySettled ==
  \A j \in Jobs :
    (enq[j] = "ok") ~> (rows[j].state \in {"finished", "failed", "none"} \/ faults > 0)
=============================================================================
