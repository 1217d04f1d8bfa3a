---------------------------- MODULE CleanupChain ----------------------------
(***************************************************************************)
(* The self-rescheduling cleanup of the Cloud Tasks backend                *)
(* (jobs/backend/cloudtask/schedule.go, cleanup.go).  One row of           *)
(* cloudtask_schedule holds NextRunAt, the time stamp of the one cleanup   *)
(* task that counts.  A delivered task whose time stamp matches claims the *)
(* row with a sentinel, runs a pass (see CloudTask), creates the next task *)
(* and records its time stamp.  Every Enqueue looks at the row and starts  *)
(* a new chain when NextRunAt has passed.                                  *)
(*                                                                         *)
(* Time stamps are nanoseconds, so two computed ones never coincide: here  *)
(* they are members of Stamps, and a fresh one is a member not in use.     *)
(***************************************************************************)
EXTENDS Naturals, FiniteSets

CONSTANTS
  Stamps,     \* time stamps, reused when nothing refers to them any more
  Enqueues,   \* Enqueue calls that can be in ensureScheduled at a time
  Pushes,     \* cleanup push requests that can be open at a time
  Zero,       \* NextRunAt 0
  Sentinel,   \* scheduleClaimedSentinel
  MaxFaults   \* bound on failures, crashes and calls that take too long

VARIABLES
  nextRunAt,  \* the schedule row
  past,       \* the time stamps that now has reached
  tasks,      \* cleanup tasks Cloud Tasks has still to deliver, by scheduled_for
  enq,        \* the Enqueue calls
  push,       \* the cleanup pushes
  faults

vars == <<nextRunAt, past, tasks, enq, push, faults>>

IdleEnq == [pc |-> "idle", at |-> Zero]
IdlePush == [pc |-> "idle", task |-> Zero, at |-> Zero]

Init ==
  /\ nextRunAt = Zero
  /\ past = {}
  /\ tasks = {}
  /\ enq = [e \in Enqueues |-> IdleEnq]
  /\ push = [p \in Pushes |-> IdlePush]
  /\ faults = 0

Fault == faults < MaxFaults /\ faults' = faults + 1

InUse == tasks \cup {nextRunAt} \cup {enq[e].at : e \in Enqueues}
               \cup {push[p].at : p \in Pushes} \cup {push[p].task : p \in Pushes}

\* now + cleanupInterval, which lies ahead.
Fresh == Stamps \ InUse

\* Variant: only the first run ever is bootstrapped.
AheadOnceStarted == nextRunAt # Zero

\* row.NextRunAt > now: the sentinel is the largest integer.
Ahead == nextRunAt = Sentinel \/ nextRunAt \in Stamps \ past

-----------------------------------------------------------------------------
(* ensureScheduled                                                         *)

\* The transaction: nothing to do while NextRunAt is ahead (or when it
\* fails), else advance NextRunAt first, so that a concurrent Enqueue does
\* not start a chain too.
ClaimBootstrap(e) ==
  /\ enq[e].pc = "idle" /\ ~Ahead
  /\ \E s \in Fresh :
       /\ nextRunAt' = s
       /\ past' = past \ {s}
       /\ enq' = [enq EXCEPT ![e] = [pc |-> "claimed", at |-> s]]
  /\ UNCHANGED <<tasks, push, faults>>

CreateBootstrap(e) ==
  /\ enq[e].pc = "claimed"
  /\ tasks' = tasks \cup {enq[e].at}
  /\ enq' = [enq EXCEPT ![e] = IdleEnq]
  /\ UNCHANGED <<nextRunAt, past, push, faults>>

\* CreateTask returns an error; the task may exist all the same.
BootstrapFails(e) ==
  /\ enq[e].pc = "claimed" /\ Fault
  /\ tasks' \in {tasks, tasks \cup {enq[e].at}}
  /\ enq' = [enq EXCEPT ![e].pc = "resetting"]
  /\ UNCHANGED <<nextRunAt, past, push>>

\* Set NextRunAt back to 0, whatever it is by now.
ResetBootstrap(e) ==
  /\ enq[e].pc = "resetting"
  /\ \/ nextRunAt' = Zero /\ UNCHANGED faults
     \/ Fault /\ UNCHANGED nextRunAt
  /\ enq' = [enq EXCEPT ![e] = IdleEnq]
  /\ UNCHANGED <<past, tasks, push>>

-----------------------------------------------------------------------------
(* handleCleanupPush                                                       *)

\* Cloud Tasks delivers a task whose time has come, for the first time or
\* again.  No match: a duplicate, or superseded; answered 200.
DeliverNoMatch(p, s) ==
  /\ push[p].pc = "idle" /\ s \in tasks \cap past
  /\ nextRunAt # s
  /\ tasks' = tasks \ {s}
  /\ UNCHANGED <<nextRunAt, past, enq, push, faults>>

\* Variant: a match does not claim the row.
DeliverUnclaimed(p, s) ==
  /\ push[p].pc = "idle" /\ s \in tasks \cap past
  /\ nextRunAt = s
  /\ push' = [push EXCEPT ![p] = [pc |-> "cleaning", task |-> s, at |-> Zero]]
  /\ UNCHANGED <<nextRunAt, past, tasks, enq, faults>>

\* A match claims the row and starts a pass.
DeliverMatch(p, s) ==
  /\ push[p].pc = "idle" /\ s \in tasks \cap past
  /\ nextRunAt = s
  /\ nextRunAt' = Sentinel
  /\ push' = [push EXCEPT ![p] = [pc |-> "cleaning", task |-> s, at |-> Zero]]
  /\ UNCHANGED <<past, tasks, enq, faults>>

\* After the pass: CreateTask for the next one succeeds.
Reschedule(p) ==
  /\ push[p].pc = "cleaning"
  /\ \E s \in Fresh :
       /\ tasks' = tasks \cup {s}
       /\ past' = past \ {s}
       /\ push' = [push EXCEPT ![p].pc = "recording", ![p].at = s]
  /\ UNCHANGED <<nextRunAt, enq, faults>>

\* ... or returns an error, with or without creating the task.
RescheduleFails(p) ==
  /\ push[p].pc = "cleaning" /\ Fault
  /\ \/ UNCHANGED <<tasks, past>>
     \/ \E s \in Fresh : tasks' = tasks \cup {s} /\ past' = past \ {s}
  /\ push' = [push EXCEPT ![p].pc = "resetting"]
  /\ UNCHANGED <<nextRunAt, enq>>

\* The handler answers 200: its task is done.
Answer(p) ==
  /\ push' = [push EXCEPT ![p] = IdlePush]
  /\ tasks' = tasks \ {push[p].task}

\* Record the next time stamp; an UPDATE that fails is only logged.
Record(p) ==
  /\ push[p].pc = "recording"
  /\ \/ nextRunAt' = push[p].at /\ UNCHANGED faults
     \/ Fault /\ UNCHANGED nextRunAt
  /\ Answer(p)
  /\ UNCHANGED <<past, enq>>

ResetChain(p) ==
  /\ push[p].pc = "resetting"
  /\ \/ nextRunAt' = Zero /\ UNCHANGED faults
     \/ Fault /\ UNCHANGED nextRunAt
  /\ Answer(p)
  /\ UNCHANGED <<past, enq>>

-----------------------------------------------------------------------------

\* The instance serving a request is killed, or the request's context ends,
\* after which all its statements fail.
CrashEnqueue(e) ==
  /\ enq[e].pc # "idle" /\ Fault
  /\ enq' = [enq EXCEPT ![e] = IdleEnq]
  /\ UNCHANGED <<nextRunAt, past, tasks, push>>

CrashPush(p) ==
  /\ push[p].pc # "idle" /\ Fault
  /\ push' = [push EXCEPT ![p] = IdlePush]
  /\ UNCHANGED <<nextRunAt, past, tasks, enq>>

\* Time passes.  That a request which computed a time stamp is still at work
\* on it when it passes (a call that takes all of cleanupInterval) is a fault.
Pass(s) ==
  /\ s \in InUse \cap (Stamps \ past)
  /\ IF s \in {enq[e].at : e \in Enqueues} \cup {push[p].at : p \in Pushes}
     THEN Fault ELSE UNCHANGED faults
  /\ past' = past \cup {s}
  /\ UNCHANGED <<nextRunAt, tasks, enq, push>>

EnqueueStep(e) == CreateBootstrap(e) \/ BootstrapFails(e) \/ ResetBootstrap(e)
PushStep(p) == Reschedule(p) \/ RescheduleFails(p) \/ Record(p) \/ ResetChain(p)
Deliver(s) == \E p \in Pushes : DeliverNoMatch(p, s) \/ DeliverMatch(p, s)

Next ==
  \/ \E e \in Enqueues : ClaimBootstrap(e) \/ EnqueueStep(e) \/ CrashEnqueue(e)
  \/ \E p \in Pushes : PushStep(p) \/ CrashPush(p)
  \/ \E s \in Stamps : Deliver(s) \/ Pass(s)

Spec == Init /\ [][Next]_vars

\* Requests run to their end, Cloud Tasks delivers what is due, time passes,
\* and the application keeps enqueuing jobs.
Fairness ==
  /\ WF_vars(\E e \in Enqueues : ClaimBootstrap(e))
  /\ \A e \in Enqueues : WF_vars(EnqueueStep(e))
  /\ \A p \in Pushes : WF_vars(PushStep(p))
  /\ \A s \in Stamps : SF_vars(Deliver(s)) /\ WF_vars(Pass(s))

FairSpec == Spec /\ Fairness

-----------------------------------------------------------------------------
(* Properties                                                              *)

\* The sentinel stands in the row only while a pass is under way, as doc.go
\* has it: Enqueue "bootstraps or heals the chain if it was never started or
\* has gone stale", which it cannot do past a sentinel.
SentinelOwned == nextRunAt = Sentinel => \E p \in Pushes : push[p].pc # "idle"

\* As long as nothing fails the sentinel has its owner, and at most one pass
\* runs, although tasks are delivered twice and Enqueue starts a new chain next
\* to one whose task is late.
OnePassOwnsTheChain ==
  faults = 0 =>
    /\ SentinelOwned
    /\ Cardinality({p \in Pushes : push[p].pc # "idle"}) <= 1

\* The row waits for a task that exists.
Armed == nextRunAt \in tasks

\* Through every fault the chain keeps being armed again, unless the sentinel
\* stays in the row for good.  (Whether a pass is reached before an Enqueue puts
\* it off again is a question of real time.)
ArmedAgain == []<>Armed \/ <>[](nextRunAt = Sentinel)
=============================================================================
