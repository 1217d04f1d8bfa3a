----------------------------- MODULE Scheduler -----------------------------
(***************************************************************************)
(* The job scheduler (jobs/scheduler.go) with jobs.Enqueue and the Registry *)
(* of schedules (enqueue.go, registry.go).  Run takes ticks from a ticker   *)
(* of one second, each with the time the runtime read when it sent it, some *)
(* time after it was due; the ticker keeps one tick while nobody takes it.  *)
(* A tick enqueues the schedules that are due by its time one after the     *)
(* other, and an Enqueue takes as long as its Backend does (a full channel  *)
(* of the in-process backend, a slow database), or runs the whole job       *)
(* (inline).                                                                *)
(***************************************************************************)
EXTENDS Integers, Sequences

CONSTANTS
  Schedules,    \* the names in Registry.schedules, in order of registration
  Second,       \* a second, in units of the clock
  Interval,     \* Interval[s], in units of the clock; 0 is allowed
  Jitter,       \* what counts as late: a tick sent so long after it was due
  MaxClock,     \* bound on the clock
  MaxScheduleFaults

VARIABLES
  clock,
  due,          \* when the ticker's next tick is due
  ticked,       \* the tick in the ticker's channel, by its time; 0 for none
  nextRun,      \* Scheduler.nextRun; 0 for a schedule not seen yet
  turn,         \* Run: waiting for a tick, or at a schedule of the tick it took
  tickTime,     \* tick's now
  called,       \* history: the clock at each schedule's last Enqueue call, 0 before it
  calls,        \* history: how many calls there were ...
  enqueued,     \* ... and how many of them the Backend accepted
  slow,         \* history: a tick was late, or one before it not done
  tooSoon,      \* history: two calls of a schedule were less than its Interval apart
  restarts, scheduleFaults

vars == <<clock, due, ticked, nextRun, turn, tickTime, called, calls, enqueued, slow, tooSoon, restarts,
          scheduleFaults>>

Names == {Schedules[i] : i \in DOMAIN Schedules}
Waiting == [at |-> 0, pc |-> "wait"]
Zeros == [s \in Names |-> 0]

Init ==
  /\ clock = 0 /\ due = Second /\ ticked = 0 /\ turn = Waiting /\ tickTime = 0
  /\ nextRun = Zeros /\ called = Zeros /\ calls = Zeros /\ enqueued = Zeros
  /\ slow = FALSE /\ tooSoon = FALSE /\ restarts = 0 /\ scheduleFaults = 0

\* Time passes.
Pass ==
  /\ clock < MaxClock
  /\ clock' = clock + 1
  /\ UNCHANGED <<due, ticked, nextRun, turn, tickTime, called, calls, enqueued, slow, tooSoon,
                 restarts, scheduleFaults>>

\* The ticker ticks, at any time from when it is due: it drops the tick when the
\* last one is still there, and the next one is due at the next whole second.
Fire ==
  /\ clock >= due
  /\ \E t \in due .. clock : ticked' = IF ticked = 0 THEN t ELSE ticked
  /\ \E n \in 1 .. MaxClock :
       /\ due' = due + n * Second
       /\ clock < due' /\ due' <= clock + Second
  /\ slow' = (slow \/ ticked # 0 \/ turn.pc # "wait" \/ clock > due + Jitter)
  /\ UNCHANGED <<clock, nextRun, turn, tickTime, called, calls, enqueued, tooSoon, restarts,
                 scheduleFaults>>

\* Run takes the tick.
TakeTick ==
  /\ turn.pc = "wait" /\ ticked # 0
  /\ tickTime' = ticked /\ ticked' = 0
  /\ turn' = [at |-> 1, pc |-> "look"]
  /\ UNCHANGED <<clock, due, nextRun, called, calls, enqueued, slow, tooSoon, restarts,
                 scheduleFaults>>

Sched == Schedules[turn.at]
NextTurn == IF turn.at = Len(Schedules) THEN Waiting ELSE [at |-> turn.at + 1, pc |-> "look"]

\* Variant: !seen || now.Before(next), so that a schedule not seen yet is passed over.
Due_seen(s) == nextRun[s] # 0 /\ tickTime >= nextRun[s]

\* Not seen yet, or now is not before its next run.
Due(s) == nextRun[s] = 0 \/ tickTime >= nextRun[s]

\* due, under the lock: the next run is set ahead, and Enqueue called.
CallEnqueue ==
  /\ turn.pc = "look" /\ Due(Sched)
  /\ nextRun' = [nextRun EXCEPT ![Sched] = tickTime + Interval[Sched]]
  /\ called' = [called EXCEPT ![Sched] = clock]
  /\ calls' = [calls EXCEPT ![Sched] = @ + 1]
  /\ tooSoon' = (tooSoon \/ (called[Sched] # 0 /\ clock - called[Sched] < Interval[Sched]))
  /\ turn' = [turn EXCEPT !.pc = "enqueue"]
  /\ UNCHANGED <<clock, due, ticked, tickTime, enqueued, slow, restarts, scheduleFaults>>

NotDue ==
  /\ turn.pc = "look" /\ ~Due(Sched)
  /\ turn' = NextTurn
  /\ UNCHANGED <<clock, due, ticked, nextRun, tickTime, called, calls, enqueued, slow, tooSoon,
                 restarts, scheduleFaults>>

\* Enqueue returns: the job was accepted ...
EnqueueOk ==
  /\ turn.pc = "enqueue"
  /\ enqueued' = [enqueued EXCEPT ![Sched] = @ + 1]
  /\ turn' = NextTurn
  /\ UNCHANGED <<clock, due, ticked, nextRun, tickTime, called, calls, slow, tooSoon, restarts,
                 scheduleFaults>>

Fault == scheduleFaults < MaxScheduleFaults /\ scheduleFaults' = scheduleFaults + 1

\* ... or its arguments could not be marshalled or the Backend failed, which is
\* logged: the next run is set all the same.
EnqueueFails ==
  /\ turn.pc = "enqueue" /\ Fault
  /\ turn' = NextTurn
  /\ UNCHANGED <<clock, due, ticked, nextRun, tickTime, called, calls, enqueued, slow, tooSoon,
                 restarts>>

\* The process is started again: NewScheduler knows of no run, and Run's ticker
\* ticks for the first time a second later.
Restart ==
  /\ Fault
  /\ restarts' = restarts + 1
  /\ due' = clock + Second
  /\ nextRun' = Zeros /\ turn' = Waiting /\ ticked' = 0 /\ tickTime' = 0
  /\ UNCHANGED <<clock, called, calls, enqueued, slow, tooSoon>>

Next ==
  \/ Pass \/ Fire \/ TakeTick \/ CallEnqueue \/ NotDue \/ EnqueueOk \/ EnqueueFails \/ Restart

Spec == Init /\ [][Next]_vars

-----------------------------------------------------------------------------
(* Properties                                                              *)

\* Two runs of a schedule are at least its Interval apart: "Interval is the
\* minimum time between runs."  (The code computes the next run from the time of
\* the tick, not of the run; MCServicesInterval.cfg shows it.)
IntervalKept == ~tooSoon

\* The ticks from one run of s to the next, at most, while none is late: as many
\* as it takes for its Interval and a tick's own lateness to have passed.
TicksApart(s) ==
  IF Interval[s] + Jitter = 0 THEN 1 ELSE (Interval[s] + Jitter + Second - 1) \div Second

\* Over time a schedule never runs more often than its Interval allows, but once
\* more for each restart, nor more than once per second; and as long as no tick
\* is late and each is done before the next, it is put off for the tick it just
\* misses and not for more: no run is lost or put off by the other schedules.  A
\* run whose Enqueue fails is lost, not put off.
KeepsInterval ==
  \A s \in Names :
    /\ calls[s] > 0 => (calls[s] - 1 - restarts) * Interval[s] <= clock - Second
    /\ calls[s] * Second <= clock
    /\ ~slow /\ restarts = 0 /\ turn = Waiting /\ ticked = 0
         => due - Second <= calls[s] * (TicksApart(s) * Second)
    /\ turn = Waiting => calls[s] - enqueued[s] <= scheduleFaults
=============================================================================
