----------------------------- MODULE AsyncJobs -----------------------------
(***************************************************************************)
(* The in-process job backend (jobs/backend/async): a bounded channel, a   *)
(* fixed pool of worker goroutines, timers for delayed jobs and for jobs   *)
(* whose concurrency slot is full, and two ways to wait at shutdown: Drain *)
(* for the jobs in flight, Close for the workers.                          *)
(*                                                                         *)
(* A job may enqueue another one from inside Perform (Spawns), in which    *)
(* case the worker itself blocks on a full channel.                        *)
(***************************************************************************)
EXTENDS Integers, Sequences, FiniteSets

CONSTANTS
  Jobs,
  Workers,    \* worker goroutines there may be
  Pools,      \* the sets of them that New may start
  NoJob,
  Keyed,      \* the jobs with the ConcurrencyKey
  Delayed,    \* the jobs enqueued with a ScheduledAt in the future
  Spawns,     \* Spawns[j]: the job that j's Perform enqueues, or NoJob
  QueueSize,  \* WithQueueSize
  Limit,      \* ConcurrencyLimit of the key
  Duration,   \* its ConcurrencyDuration
  MaxTime     \* bound on the clock

ASSUME AsyncAssumption ==
  /\ IsFiniteSet(Jobs) /\ IsFiniteSet(Workers)
  /\ NoJob \notin Jobs /\ Pools \subseteq SUBSET Workers
  /\ Keyed \subseteq Jobs /\ Delayed \subseteq Jobs
  /\ Spawns \in [Jobs -> Jobs \cup {NoJob}]
  /\ QueueSize \in Nat \ {0} /\ Limit \in Nat \ {0}
  /\ Duration \in Nat /\ MaxTime \in Nat

VARIABLES
  now,       \* clock
  at,        \* where each job is
  queue,     \* the channel
  worker,    \* worker goroutines
  slot,      \* the key's entry of slots; count 0 when there is none
  inFlight,  \* WaitGroup of the jobs accepted and not finished
  closed,    \* stop is closed
  drain,     \* a Drain call: its phase and, as history, the jobs accepted before it
  overrun    \* history: a slot expired while a job still held it

vars == <<now, at, queue, worker, slot, inFlight, closed, drain, overrun>>

\* sending: a goroutine (or worker) is blocked in send; held: with a worker.
Places == {"new", "timer", "sending", "queued", "held", "done", "dropped"}
WorkerPcs == {"idle", "taken", "running", "enqueuing", "releasing", "exited"}

TypeOK ==
  /\ now \in Nat
  /\ at \in [Jobs -> Places]
  /\ queue \in Seq(Jobs) /\ Len(queue) <= QueueSize
  /\ worker \in [Workers -> [pc: WorkerPcs, job: Jobs \cup {NoJob}]]
  /\ slot \in [count: Nat, expiresAt: Int]
  /\ inFlight \in Nat
  /\ closed \in BOOLEAN
  /\ drain \in [phase: {"no", "waiting", "returned"}, jobs: SUBSET Jobs]
  /\ overrun \in BOOLEAN

Idle == [pc |-> "idle", job |-> NoJob]
Children == {Spawns[j] : j \in Jobs} \ {NoJob}

Init ==
  /\ now = 0
  /\ at = [j \in Jobs |-> "new"]
  /\ queue = <<>>
  /\ \E pool \in Pools :
       worker = [w \in Workers |-> [pc |-> IF w \in pool THEN "idle" ELSE "exited", job |-> NoJob]]
  /\ slot = [count |-> 0, expiresAt |-> 0]
  /\ inFlight = 0
  /\ closed = FALSE
  /\ drain = [phase |-> "no", jobs |-> {}]
  /\ overrun = FALSE

-----------------------------------------------------------------------------
(* Enqueue and send                                                        *)

\* Enqueue by the application: count the job, then send it now or by timer.
Enqueue(j) ==
  /\ at[j] = "new" /\ j \notin Children
  /\ inFlight' = inFlight + 1
  /\ at' = [at EXCEPT ![j] = IF j \in Delayed THEN "timer" ELSE "sending"]
  /\ UNCHANGED <<now, queue, worker, slot, closed, drain, overrun>>

\* Enqueue from a job's Perform: unless delayed, its worker blocks in send.
EnqueueFromJob(w) ==
  /\ worker[w].pc = "running"
  /\ LET c == Spawns[worker[w].job] IN
       /\ c # NoJob /\ at[c] = "new"
       /\ at' = [at EXCEPT ![c] = IF c \in Delayed THEN "timer" ELSE "sending"]
       /\ worker' = IF c \in Delayed THEN worker ELSE [worker EXCEPT ![w].pc = "enqueuing"]
  /\ inFlight' = inFlight + 1
  /\ UNCHANGED <<now, queue, slot, closed, drain, overrun>>

\* A time.AfterFunc fires, in a goroutine of its own.
Fire(j) ==
  /\ at[j] = "timer"
  /\ at' = [at EXCEPT ![j] = "sending"]
  /\ UNCHANGED <<now, queue, worker, slot, inFlight, closed, drain, overrun>>

\* The worker, if any, whose job enqueued j goes on.
Unblock(j) ==
  worker' = [w \in Workers |->
    IF worker[w].pc = "enqueuing" /\ Spawns[worker[w].job] = j
    THEN [worker[w] EXCEPT !.pc = "running"] ELSE worker[w]]

\* send's select: the channel has room.
Send(j) ==
  /\ at[j] = "sending" /\ Len(queue) < QueueSize
  /\ queue' = Append(queue, j)
  /\ at' = [at EXCEPT ![j] = "queued"]
  /\ Unblock(j)
  /\ UNCHANGED <<now, slot, inFlight, closed, drain, overrun>>

\* send's select: stop is closed (Go picks either when both are ready).
Drop(j) ==
  /\ at[j] = "sending" /\ closed
  /\ inFlight' = inFlight - 1
  /\ at' = [at EXCEPT ![j] = "dropped"]
  /\ Unblock(j)
  /\ UNCHANGED <<now, queue, slot, closed, drain, overrun>>

-----------------------------------------------------------------------------
(* work and dispatch                                                       *)

Take(w) ==
  /\ worker[w].pc = "idle" /\ queue # <<>>
  /\ worker' = [worker EXCEPT ![w] = [pc |-> "taken", job |-> Head(queue)]]
  /\ at' = [at EXCEPT ![Head(queue)] = "held"]
  /\ queue' = Tail(queue)
  /\ UNCHANGED <<now, slot, inFlight, closed, drain, overrun>>

Exit(w) ==
  /\ worker[w].pc = "idle" /\ closed
  /\ worker' = [worker EXCEPT ![w].pc = "exited"]
  /\ UNCHANGED <<now, at, queue, slot, inFlight, closed, drain, overrun>>

Holders == {w \in Workers : /\ worker[w].job \in Keyed
                            /\ worker[w].pc \in {"running", "enqueuing", "releasing"}}

Expired == slot.count > 0 /\ now > slot.expiresAt

\* tryAcquire starts from a new slot when there is none or it has expired.
CountNow == IF Expired THEN 0 ELSE slot.count

\* Variant: off by one.
HasRoomForOneMore == CountNow <= Limit

HasRoom == CountNow < Limit

\* dispatch with the slot acquired (or none needed): on to Perform.
Acquire(w) ==
  /\ worker[w].pc = "taken"
  /\ LET j == worker[w].job IN
       IF j \in Keyed
       THEN /\ HasRoom
            /\ slot' = [count |-> CountNow + 1, expiresAt |-> now + Duration]
            /\ overrun' = (overrun \/ Expired)
       ELSE UNCHANGED <<slot, overrun>>
  /\ worker' = [worker EXCEPT ![w].pc = "running"]
  /\ UNCHANGED <<now, at, queue, inFlight, closed, drain>>

\* Variant: the job no longer counts as in flight.
RequeueUncounted(w) ==
  /\ worker[w].pc = "taken"
  /\ worker[w].job \in Keyed /\ ~HasRoom
  /\ at' = [at EXCEPT ![worker[w].job] = "timer"]
  /\ worker' = [worker EXCEPT ![w] = Idle]
  /\ inFlight' = inFlight - 1
  /\ UNCHANGED <<now, queue, slot, closed, drain, overrun>>

\* dispatch with the slot full: try again after requeueDelay.
Requeue(w) ==
  /\ worker[w].pc = "taken"
  /\ worker[w].job \in Keyed /\ ~HasRoom
  /\ at' = [at EXCEPT ![worker[w].job] = "timer"]
  /\ worker' = [worker EXCEPT ![w] = Idle]
  /\ UNCHANGED <<now, queue, slot, inFlight, closed, drain, overrun>>

\* Perform returns, with or without an error (which is logged); the deferred
\* inFlight.Done runs before the deferred release.
Finish(w) ==
  /\ worker[w].pc = "running"
  /\ inFlight' = inFlight - 1
  /\ at' = [at EXCEPT ![worker[w].job] = "done"]
  /\ worker' = [worker EXCEPT ![w] =
                  IF @.job \in Keyed THEN [@ EXCEPT !.pc = "releasing"] ELSE Idle]
  /\ UNCHANGED <<now, queue, slot, closed, drain, overrun>>

\* Variant: the slot is not released.
KeepSlot(w) ==
  /\ worker[w].pc = "releasing"
  /\ worker' = [worker EXCEPT ![w] = Idle]
  /\ UNCHANGED <<now, at, queue, slot, inFlight, closed, drain, overrun>>

\* release: decrement whatever slot the key has by now; delete it at zero.
Release(w) ==
  /\ worker[w].pc = "releasing"
  /\ slot' = IF slot.count <= 1 THEN [count |-> 0, expiresAt |-> 0]
             ELSE [slot EXCEPT !.count = @ - 1]
  /\ worker' = [worker EXCEPT ![w] = Idle]
  /\ UNCHANGED <<now, at, queue, inFlight, closed, drain, overrun>>

-----------------------------------------------------------------------------
(* Drain, Close, time                                                      *)

Settled == {j \in Jobs : at[j] \in {"done", "dropped"}}
Accepted == {j \in Jobs : at[j] # "new"}

StartDrain ==
  /\ drain.phase = "no"
  /\ drain' = [phase |-> "waiting", jobs |-> Accepted]
  /\ UNCHANGED <<now, at, queue, worker, slot, inFlight, closed, overrun>>

\* inFlight.Wait returns.  (Drain also returns when its ctx is done.)
DrainReturns ==
  /\ drain.phase = "waiting" /\ inFlight = 0
  /\ drain' = [drain EXCEPT !.phase = "returned"]
  /\ UNCHANGED <<now, at, queue, worker, slot, inFlight, closed, overrun>>

\* Close: close(stop), then wait for the workers.  It is called once: closing
\* a closed channel panics.
Close ==
  /\ ~closed
  /\ closed' = TRUE
  /\ UNCHANGED <<now, at, queue, worker, slot, inFlight, drain, overrun>>

Tick ==
  /\ now < MaxTime
  /\ now' = now + 1
  /\ UNCHANGED <<at, queue, worker, slot, inFlight, closed, drain, overrun>>

WorkerStep(w) ==
  \/ Take(w) \/ Acquire(w) \/ Requeue(w) \/ EnqueueFromJob(w) \/ Finish(w) \/ Release(w)
  \/ Exit(w)

JobStep(j) == Fire(j) \/ Send(j) \/ Drop(j)

Next ==
  \/ Tick \/ Close \/ StartDrain \/ DrainReturns
  \/ \E j \in Jobs : Enqueue(j) \/ JobStep(j)
  \/ \E w \in Workers : WorkerStep(w)

Spec == Init /\ [][Next]_vars

\* Goroutines keep running, timers fire, jobs return, and Go serves the
\* goroutines blocked on a channel in turn.
Fairness ==
  /\ \A w \in Workers : WF_vars(WorkerStep(w))
  /\ \A j \in Jobs : WF_vars(Fire(j)) /\ SF_vars(Send(j)) /\ WF_vars(Drop(j))
  /\ WF_vars(DrainReturns)

FairSpec == Spec /\ Fairness

-----------------------------------------------------------------------------
(* Properties                                                              *)

\* inFlight counts the accepted jobs that are neither finished nor dropped,
\* on every path through timers, the channel, requeues and shutdown (it never
\* goes below zero, a panic), so that when Drain returns, every job accepted
\* before it was called is done or was dropped by Close.
DrainWaitsForAll ==
  /\ inFlight = Cardinality(Accepted \ Settled)
  /\ drain.phase = "returned" => drain.jobs \subseteq Settled

\* Until a job outlives its ConcurrencyDuration, at most Limit jobs of the key
\* run at once.  (After that the job's release takes down the count of the slot
\* that replaced its own, and later jobs of the key exceed the limit.)
LimitUntilOverrun == ~overrun => Cardinality(Holders) <= Limit

\* Every worker is inside a job that waits for room in the channel.
Jammed == \A w \in Workers : worker[w].pc \in {"enqueuing", "exited"}

\* Every accepted job is eventually done or dropped, unless Close left it in
\* the channel, or all workers wait for each other because their jobs enqueue
\* jobs while the channel is full.  (Each of these stays once it is so.)
AcceptedIsSettled == <>[](Accepted \subseteq Settled \/ closed \/ Jammed)

\* Close returns: all workers exit, also those that were jammed.
CloseReturns == closed ~> (\A w \in Workers : worker[w].pc = "exited")
=============================================================================
