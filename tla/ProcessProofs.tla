--------------------------- MODULE ProcessProofs ---------------------------
(***************************************************************************)
(* Proofs about what runs inside one process: the in-process job backend   *)
(* (AsyncJobs), for any finite sets of jobs and workers and any size of    *)
(* the channel, and Trail.Run (Lifecycle, the instance Trail of            *)
(* MCProcess), for any number of Runners and requests.                     *)
(*                                                                         *)
(* AsyncJobs: the inductive invariant says where a job is: in the channel  *)
(* once, or with one worker; with that, every Add and Done of the          *)
(* WaitGroup and every acquire and release of the slot is accounted for.   *)
(***************************************************************************)
EXTENDS MCProcess, FiniteSetTheorems, SequenceTheorems, TLAPS

Busy(w) == worker[w].pc \in {"taken", "running", "enqueuing"}

\* A worker's job is held by it alone; what it releases is the key's slot.
HeldJobs ==
  /\ \A w \in Workers : Busy(w) => worker[w].job \in Jobs /\ at[worker[w].job] = "held"
  /\ \A v, w \in Workers : Busy(v) /\ Busy(w) /\ worker[v].job = worker[w].job => v = w
  /\ \A w \in Workers : worker[w].pc = "releasing" => worker[w].job \in Keyed

\* A job is in the channel at most once, and nowhere else.
QueuedJobs ==
  /\ \A i \in 1..Len(queue) : at[queue[i]] = "queued"
  /\ \A i, k \in 1..Len(queue) : queue[i] = queue[k] => i = k

\* The jobs the WaitGroup is to wait for.
Unsettled == {j \in Jobs : at[j] \in {"timer", "sending", "queued", "held"}}

InFlightCounts == inFlight = Cardinality(Unsettled)

\* Drain's history: what it waits for was accepted, and is settled when it
\* returns.
DrainJobs ==
  /\ drain.jobs \subseteq Accepted
  /\ drain.phase = "returned" => drain.jobs \subseteq Settled

\* Until a slot is overrun its count is the number of its holders.
SlotCounts == ~overrun => slot.count = Cardinality(Holders) /\ slot.count <= Limit

IInv == TypeOK /\ HeldJobs /\ QueuedJobs /\ InFlightCounts /\ DrainJobs /\ SlotCounts

-----------------------------------------------------------------------------
(* Counting.                                                               *)

LEMMA UnsettledFinite == IsFiniteSet(Unsettled) /\ Cardinality(Unsettled) \in Nat
<1>1. IsFiniteSet(Unsettled)
  BY AsyncAssumption, FS_Subset DEF Unsettled
<1>2. QED BY <1>1, FS_CardinalityType

LEMMA HoldersFinite == IsFiniteSet(Holders) /\ Cardinality(Holders) \in Nat
<1>1. IsFiniteSet(Holders)
  BY AsyncAssumption, FS_Subset DEF Holders
<1>2. QED BY <1>1, FS_CardinalityType

\* inFlight.Add of a job that was not counted.
LEMMA CountUp ==
  ASSUME InFlightCounts, NEW j, j \notin Unsettled,
         Unsettled' = Unsettled \cup {j}, inFlight' = inFlight + 1
  PROVE  InFlightCounts'
BY UnsettledFinite, FS_AddElement DEF InFlightCounts

\* inFlight.Done of a job that was.
LEMMA CountDown ==
  ASSUME InFlightCounts, NEW j, j \in Unsettled,
         Unsettled' = Unsettled \ {j}, inFlight' = inFlight - 1
  PROVE  InFlightCounts' /\ inFlight' \in Nat
<1>1. IsFiniteSet(Unsettled \ {j}) /\ Cardinality(Unsettled \ {j}) = Cardinality(Unsettled) - 1
  BY UnsettledFinite, FS_RemoveElement
<1>2. Cardinality(Unsettled \ {j}) \in Nat
  BY <1>1, FS_CardinalityType
<1>3. QED BY <1>1, <1>2 DEF InFlightCounts

\* Jobs are never taken back: what Drain found accepted stays accepted, what is
\* settled stays settled.
LEMMA DrainKept ==
  ASSUME TypeOK, DrainJobs, drain' = drain,
         \A j \in Jobs : at[j] # "new" => at'[j] # "new",
         \A j \in Jobs : at[j] \in {"done", "dropped"} => at'[j] \in {"done", "dropped"}
  PROVE  DrainJobs'
<1>1. Accepted \subseteq Accepted' /\ Settled \subseteq Settled'
  BY DEF Accepted, Settled
<1>2. QED BY <1>1 DEF DrainJobs

\* While no worker gets or gives back the slot its count stays right.
LEMMA SlotKept ==
  ASSUME SlotCounts, UNCHANGED <<slot, overrun>>,
         \A w \in Workers :
           worker'[w].job \in Keyed /\ worker'[w].pc \in {"running", "enqueuing", "releasing"}
             <=> w \in Holders
  PROVE  SlotCounts'
<1>1. Holders' = Holders
  BY DEF Holders
<1>2. QED BY <1>1 DEF SlotCounts

-----------------------------------------------------------------------------
(* The steps.                                                              *)

LEMMA InitInv == Init => IInv
<1> SUFFICES ASSUME Init PROVE IInv
  OBVIOUS
<1>1. PICK pool \in Pools :
        worker = [w \in Workers |-> [pc |-> IF w \in pool THEN "idle" ELSE "exited", job |-> NoJob]]
  BY DEF Init
<1>2. TypeOK
  <2>1. worker \in [Workers -> [pc: WorkerPcs, job: Jobs \cup {NoJob}]]
    BY <1>1 DEF WorkerPcs
  <2>2. queue \in Seq(Jobs) /\ Len(queue) <= QueueSize
    BY AsyncAssumption DEF Init
  <2>3. slot \in [count: Nat, expiresAt: Int]
    BY DEF Init
  <2>4. drain \in [phase: {"no", "waiting", "returned"}, jobs: SUBSET Jobs]
    BY DEF Init
  <2>5. QED BY <2>1, <2>2, <2>3, <2>4 DEF Init, TypeOK, Places
<1>3. HeldJobs /\ QueuedJobs
  BY <1>1 DEF Init, HeldJobs, Busy, QueuedJobs
<1>4. Unsettled = {} /\ Holders = {}
  BY <1>1, AsyncAssumption DEF Init, Unsettled, Holders
<1>5. InFlightCounts /\ SlotCounts
  BY <1>4, FS_EmptySet, AsyncAssumption DEF Init, InFlightCounts, SlotCounts
<1>6. DrainJobs
  BY DEF Init, DrainJobs
<1>7. QED BY <1>2, <1>3, <1>5, <1>6 DEF IInv

\* An accepted job gets its timer or its goroutine in send.
LEMMA AcceptStep ==
  ASSUME IInv, NEW j \in Jobs, at[j] = "new",
         at' = [at EXCEPT ![j] = IF j \in Delayed THEN "timer" ELSE "sending"],
         inFlight' = inFlight + 1, UNCHANGED <<now, queue, closed, slot, drain, overrun>>,
         worker' \in [Workers -> [pc: WorkerPcs, job: Jobs \cup {NoJob}]],
         \A w \in Workers :
           \/ worker'[w] = worker[w]
           \/ /\ worker[w].pc = "running" /\ worker'[w].pc = "enqueuing"
              /\ worker'[w].job = worker[w].job
  PROVE  IInv'
<1>1. /\ at' \in [Jobs -> Places] /\ at'[j] \in {"timer", "sending"}
      /\ \A k \in Jobs : k # j => at'[k] = at[k]
  BY DEF IInv, TypeOK, Places
<1>2. ASSUME NEW w \in Workers
      PROVE  /\ worker'[w].job = worker[w].job /\ (Busy(w)' <=> Busy(w))
             /\ worker'[w].pc = "releasing" <=> worker[w].pc = "releasing"
  BY <1>2 DEF Busy
<1>3. HeldJobs'
  BY <1>1, <1>2 DEF IInv, HeldJobs
<1>4. QueuedJobs'
  BY <1>1 DEF IInv, TypeOK, QueuedJobs
<1>5. InFlightCounts'
  <2>1. j \notin Unsettled /\ Unsettled' = Unsettled \cup {j}
    BY <1>1 DEF Unsettled
  <2>2. QED BY <2>1, CountUp DEF IInv
<1>6. TypeOK'
  BY <1>1 DEF IInv, TypeOK
<1>7. DrainJobs'
  BY <1>1, DrainKept DEF IInv
<1>8. SlotCounts'
  BY SlotKept DEF IInv, Holders
<1>9. QED BY <1>3, <1>4, <1>5, <1>6, <1>7, <1>8 DEF IInv

\* The worker that waited in send for j goes on, if there is one.
LEMMA UnblockKeeps ==
  ASSUME TypeOK, NEW j \in Jobs, Unblock(j)
  PROVE  /\ worker' \in [Workers -> [pc: WorkerPcs, job: Jobs \cup {NoJob}]]
         /\ \A w \in Workers :
              /\ worker'[w].job = worker[w].job /\ (Busy(w)' <=> Busy(w))
              /\ worker'[w].pc = "releasing" <=> worker[w].pc = "releasing"
              /\ worker'[w].pc \in {"running", "enqueuing", "releasing"}
                   <=> worker[w].pc \in {"running", "enqueuing", "releasing"}
<1>1. ASSUME NEW w \in Workers
      PROVE  /\ worker'[w] \in [pc: WorkerPcs, job: Jobs \cup {NoJob}]
             /\ worker'[w].job = worker[w].job /\ (Busy(w)' <=> Busy(w))
             /\ worker'[w].pc = "releasing" <=> worker[w].pc = "releasing"
             /\ worker'[w].pc \in {"running", "enqueuing", "releasing"}
                  <=> worker[w].pc \in {"running", "enqueuing", "releasing"}
  <2>1. CASE worker[w].pc = "enqueuing" /\ Spawns[worker[w].job] = j
    <3>1. worker'[w] = [worker[w] EXCEPT !.pc = "running"]
      BY <2>1 DEF Unblock
    <3>2. QED BY <2>1, <3>1 DEF TypeOK, WorkerPcs, Busy
  <2>2. CASE ~(worker[w].pc = "enqueuing" /\ Spawns[worker[w].job] = j)
    <3>1. worker'[w] = worker[w]
      BY <2>2 DEF Unblock
    <3>2. QED BY <3>1 DEF TypeOK, Busy
  <2>3. QED BY <2>1, <2>2
<1>2. worker' \in [Workers -> [pc: WorkerPcs, job: Jobs \cup {NoJob}]]
  BY <1>1 DEF Unblock
<1>3. QED BY <1>1, <1>2

LEMMA JobStepInv == ASSUME IInv, NEW j \in Jobs, JobStep(j) PROVE IInv'
<1>0. TypeOK
  BY DEF IInv
<1>1. CASE Fire(j)
  <2>1. /\ at' \in [Jobs -> Places] /\ at[j] = "timer" /\ at'[j] = "sending"
        /\ \A k \in Jobs : k # j => at'[k] = at[k]
    BY <1>0, <1>1 DEF Fire, TypeOK, Places
  <2>2. UNCHANGED <<now, queue, worker, slot, inFlight, closed, drain, overrun>>
    BY <1>1 DEF Fire
  <2>3. HeldJobs' /\ QueuedJobs'
    BY <1>0, <2>1, <2>2 DEF IInv, TypeOK, HeldJobs, QueuedJobs, Busy
  <2>4. InFlightCounts'
    <3>1. Unsettled' = Unsettled
      BY <2>1 DEF Unsettled
    <3>2. QED BY <2>2, <3>1 DEF IInv, InFlightCounts
  <2>5. DrainJobs' /\ SlotCounts'
    <3>1. DrainJobs'
      BY <2>1, <2>2, DrainKept DEF IInv
    <3>2. QED BY <2>2, <3>1, SlotKept DEF IInv, Holders
  <2>6. TypeOK'
    BY <1>0, <2>1, <2>2 DEF TypeOK
  <2>7. QED BY <2>3, <2>4, <2>5, <2>6 DEF IInv
<1>2. CASE Send(j)
  <2>1. /\ at' \in [Jobs -> Places] /\ at[j] = "sending" /\ at'[j] = "queued"
        /\ \A k \in Jobs : k # j => at'[k] = at[k]
    BY <1>0, <1>2 DEF Send, TypeOK, Places
  <2>2. queue' = Append(queue, j) /\ UNCHANGED <<now, slot, inFlight, closed, drain, overrun>>
    BY <1>2 DEF Send
  <2>3. /\ worker' \in [Workers -> [pc: WorkerPcs, job: Jobs \cup {NoJob}]]
        /\ \A w \in Workers :
             /\ worker'[w].job = worker[w].job /\ (Busy(w)' <=> Busy(w))
             /\ worker'[w].pc = "releasing" <=> worker[w].pc = "releasing"
             /\ worker'[w].pc \in {"running", "enqueuing", "releasing"}
                  <=> worker[w].pc \in {"running", "enqueuing", "releasing"}
    BY <1>0, <1>2, UnblockKeeps DEF Send
  <2>4. HeldJobs'
    BY <2>1, <2>3 DEF IInv, HeldJobs
  <2>5. QueuedJobs'
    <3>1. /\ Len(queue') = Len(queue) + 1 /\ queue'[Len(queue) + 1] = j
          /\ \A i \in 1..Len(queue) : queue'[i] = queue[i] /\ queue[i] \in Jobs
      BY <1>0, <2>2 DEF TypeOK
    <3>2. Len(queue) \in Nat
      BY <1>0 DEF TypeOK
    <3>3. \A i \in 1..Len(queue) : queue[i] # j
      BY <2>1 DEF IInv, QueuedJobs
    <3>4. \A i \in 1..Len(queue') : i = Len(queue) + 1 \/ i \in 1..Len(queue)
      BY <3>1, <3>2
    <3>5. \A i \in 1..Len(queue') : at'[queue'[i]] = "queued"
      BY <2>1, <3>1, <3>4 DEF IInv, QueuedJobs
    <3>6. \A i, k \in 1..Len(queue') : queue'[i] = queue'[k] => i = k
      BY <3>1, <3>3, <3>4 DEF IInv, QueuedJobs
    <3>7. QED BY <3>5, <3>6 DEF QueuedJobs
  <2>6. InFlightCounts'
    <3>1. Unsettled' = Unsettled
      BY <2>1 DEF Unsettled
    <3>2. QED BY <2>2, <3>1 DEF IInv, InFlightCounts
  <2>7. DrainJobs' /\ SlotCounts'
    <3>1. DrainJobs'
      BY <2>1, <2>2, DrainKept DEF IInv
    <3>2. QED BY <2>2, <2>3, <3>1, SlotKept DEF IInv, Holders
  <2>8. TypeOK'
    <3>1. queue' \in Seq(Jobs) /\ Len(queue') <= QueueSize
      BY <1>0, <1>2, AsyncAssumption DEF Send, TypeOK
    <3>2. QED BY <1>0, <2>1, <2>2, <2>3, <3>1 DEF TypeOK
  <2>9. QED BY <2>4, <2>5, <2>6, <2>7, <2>8 DEF IInv
<1>3. CASE Drop(j)
  <2>1. /\ at' \in [Jobs -> Places] /\ at[j] = "sending" /\ at'[j] = "dropped"
        /\ \A k \in Jobs : k # j => at'[k] = at[k]
    BY <1>0, <1>3 DEF Drop, TypeOK, Places
  <2>2. inFlight' = inFlight - 1 /\ UNCHANGED <<now, queue, slot, closed, drain, overrun>>
    BY <1>3 DEF Drop
  <2>3. /\ worker' \in [Workers -> [pc: WorkerPcs, job: Jobs \cup {NoJob}]]
        /\ \A w \in Workers :
             /\ worker'[w].job = worker[w].job /\ (Busy(w)' <=> Busy(w))
             /\ worker'[w].pc = "releasing" <=> worker[w].pc = "releasing"
             /\ worker'[w].pc \in {"running", "enqueuing", "releasing"}
                  <=> worker[w].pc \in {"running", "enqueuing", "releasing"}
    BY <1>0, <1>3, UnblockKeeps DEF Drop
  <2>4. HeldJobs'
    BY <2>1, <2>3 DEF IInv, HeldJobs
  <2>5. QueuedJobs'
    BY <1>0, <2>1, <2>2 DEF IInv, TypeOK, QueuedJobs
  <2>6. InFlightCounts' /\ inFlight' \in Nat
    <3>1. j \in Unsettled /\ Unsettled' = Unsettled \ {j}
      BY <2>1 DEF Unsettled
    <3>2. QED BY <2>2, <3>1, CountDown DEF IInv
  <2>7. DrainJobs' /\ SlotCounts'
    <3>1. DrainJobs'
      BY <2>1, <2>2, DrainKept DEF IInv
    <3>2. QED BY <2>2, <2>3, <3>1, SlotKept DEF IInv, Holders
  <2>8. TypeOK'
    BY <1>0, <2>1, <2>2, <2>3, <2>6 DEF TypeOK
  <2>9. QED BY <2>4, <2>5, <2>6, <2>7, <2>8 DEF IInv
<1>4. QED BY <1>1, <1>2, <1>3 DEF JobStep

\* A worker takes the job at the head of the channel.
LEMMA TakeInv == ASSUME IInv, NEW w \in Workers, Take(w) PROVE IInv'
<1> DEFINE j == Head(queue)
<1>0. TypeOK
  BY DEF IInv
<1>1. /\ Len(queue) \in Nat /\ Len(queue) > 0 /\ j = queue[1] /\ j \in Jobs
      /\ Tail(queue) \in Seq(Jobs) /\ Len(Tail(queue)) = Len(queue) - 1
      /\ \A i \in 1..Len(Tail(queue)) : Tail(queue)[i] = queue[i + 1] /\ i + 1 \in 1..Len(queue)
  BY <1>0 DEF Take, TypeOK
<1>2. at[j] = "queued" /\ \A i \in 1..Len(Tail(queue)) : Tail(queue)[i] # j
  BY <1>1 DEF IInv, QueuedJobs
<1>3. /\ at' \in [Jobs -> Places] /\ at'[j] = "held"
      /\ \A k \in Jobs : k # j => at'[k] = at[k]
  BY <1>0, <1>1 DEF Take, TypeOK, Places
<1>4. /\ worker' \in [Workers -> [pc: WorkerPcs, job: Jobs \cup {NoJob}]]
      /\ worker[w].pc = "idle" /\ worker'[w].pc = "taken" /\ worker'[w].job = j
      /\ \A v \in Workers : v # w => worker'[v] = worker[v]
  BY <1>0, <1>1 DEF Take, TypeOK, WorkerPcs
<1>5. queue' = Tail(queue) /\ UNCHANGED <<now, slot, inFlight, closed, drain, overrun>>
  BY DEF Take
<1>6. HeldJobs'
  <2>1. \A v \in Workers : v # w /\ Busy(v) => worker[v].job # j
    BY <1>2 DEF IInv, HeldJobs
  <2>2. \A v \in Workers : Busy(v)' <=> v = w \/ Busy(v)
    BY <1>4 DEF Busy
  <2>3. QED BY <1>1, <1>3, <1>4, <2>1, <2>2, SMTT(15) DEF IInv, HeldJobs
<1>7. QueuedJobs'
  <2>1. \A i \in 1..Len(queue') : at'[queue'[i]] = "queued"
    <3>1. \A i \in 1..Len(queue') : queue'[i] \in Jobs
      BY <1>1, <1>5
    <3>2. QED BY <1>1, <1>2, <1>3, <1>5, <3>1 DEF IInv, QueuedJobs
  <2>2. ASSUME NEW i \in 1..Len(queue'), NEW k \in 1..Len(queue'), queue'[i] = queue'[k]
        PROVE  i = k
    <3>1. queue[i + 1] = queue[k + 1] /\ i + 1 \in 1..Len(queue) /\ k + 1 \in 1..Len(queue)
      BY <1>1, <1>5, <2>2
    <3>2. i + 1 = k + 1
      BY <3>1 DEF IInv, QueuedJobs
    <3>3. QED BY <3>2
  <2>3. QED BY <2>1, <2>2 DEF QueuedJobs
<1>8. InFlightCounts'
  <2>1. Unsettled' = Unsettled
    BY <1>2, <1>3 DEF Unsettled
  <2>2. QED BY <1>5, <2>1 DEF IInv, InFlightCounts
<1>9. DrainJobs'
  BY <1>0, <1>2, <1>3, <1>5, DrainKept DEF IInv
<1>10. SlotCounts'
  <2>1. \A v \in Workers :
           worker'[v].job \in Keyed /\ worker'[v].pc \in {"running", "enqueuing", "releasing"}
             <=> v \in Holders
    BY <1>4 DEF Holders
  <2>2. QED BY <1>5, <2>1, SlotKept DEF IInv
<1>11. TypeOK'
  <2>1. queue' \in Seq(Jobs) /\ Len(queue') <= QueueSize
    BY <1>0, <1>1, <1>5, AsyncAssumption DEF TypeOK
  <2>2. QED BY <1>0, <1>3, <1>4, <1>5, <2>1 DEF TypeOK
<1>12. QED BY <1>6, <1>7, <1>8, <1>9, <1>10, <1>11 DEF IInv

\* A job that ends or is put back leaves its worker; the jobs of the others
\* stay where they are.
LEMMA LetGo ==
  ASSUME IInv, NEW w \in Workers, Busy(w), NEW place \in Places \ {"new", "queued", "held"},
         at' = [at EXCEPT ![worker[w].job] = place],
         \A v \in Workers : v # w => worker'[v] = worker[v],
         worker' \in [Workers -> [pc: WorkerPcs, job: Jobs \cup {NoJob}]],
         worker'[w].pc = "idle" \/ (worker'[w].pc = "releasing" /\ worker'[w].job \in Keyed),
         queue' = queue, drain' = drain
  PROVE  HeldJobs' /\ QueuedJobs' /\ DrainJobs'
<1>0. TypeOK
  BY DEF IInv
<1>1. worker[w].job \in Jobs /\ at[worker[w].job] = "held"
  BY DEF IInv, HeldJobs
<1>2. /\ at'[worker[w].job] = place
      /\ \A k \in Jobs : k # worker[w].job => at'[k] = at[k]
  BY <1>0, <1>1 DEF TypeOK
<1>3. \A v \in Workers : Busy(v)' => v # w /\ Busy(v) /\ worker'[v] = worker[v]
  BY DEF Busy
<1>4. HeldJobs'
  <2>1. \A v \in Workers : v # w /\ Busy(v) => worker[v].job # worker[w].job
    BY DEF IInv, HeldJobs
  <2>2. QED BY <1>2, <1>3, <2>1 DEF IInv, HeldJobs
<1>5. QueuedJobs'
  <2>1. \A i \in 1..Len(queue) : queue[i] \in Jobs /\ queue[i] # worker[w].job
    BY <1>0, <1>1 DEF IInv, TypeOK, QueuedJobs
  <2>2. QED BY <1>2, <2>1 DEF IInv, QueuedJobs
<1>6. DrainJobs'
  BY <1>0, <1>1, <1>2, DrainKept DEF IInv
<1>7. QED BY <1>4, <1>5, <1>6

\* Perform returned: Done once, for a job that was counted.
LEMMA FinishInv == ASSUME IInv, NEW w \in Workers, Finish(w) PROVE IInv'
<1> DEFINE j == worker[w].job
<1>0. TypeOK /\ worker[w].pc = "running" /\ Busy(w)
  BY DEF IInv, Finish, Busy
<1>1. j \in Jobs /\ at[j] = "held"
  BY <1>0 DEF IInv, HeldJobs
<1>2. /\ at' = [at EXCEPT ![j] = "done"] /\ inFlight' = inFlight - 1
      /\ UNCHANGED <<now, queue, slot, closed, drain, overrun>>
  BY DEF Finish
<1>3. /\ worker' \in [Workers -> [pc: WorkerPcs, job: Jobs \cup {NoJob}]]
      /\ \A v \in Workers : v # w => worker'[v] = worker[v]
      /\ worker'[w].pc = IF j \in Keyed THEN "releasing" ELSE "idle"
      /\ j \in Keyed => worker'[w].job = j
  BY <1>0 DEF Finish, TypeOK, WorkerPcs, Idle
<1>4. HeldJobs' /\ QueuedJobs' /\ DrainJobs'
  BY <1>0, <1>2, <1>3, LetGo DEF Places
<1>5. InFlightCounts' /\ inFlight' \in Nat
  <2>1. j \in Unsettled /\ Unsettled' = Unsettled \ {j}
    BY <1>0, <1>1, <1>2 DEF TypeOK, Unsettled
  <2>2. QED BY <1>2, <2>1, CountDown DEF IInv
<1>6. SlotCounts'
  <2>1. \A v \in Workers :
           worker'[v].job \in Keyed /\ worker'[v].pc \in {"running", "enqueuing", "releasing"}
             <=> v \in Holders
    BY <1>0, <1>3 DEF Holders
  <2>2. QED BY <1>2, <2>1, SlotKept DEF IInv
<1>7. TypeOK'
  BY <1>0, <1>2, <1>3, <1>5 DEF TypeOK, Places
<1>8. QED BY <1>4, <1>5, <1>6, <1>7 DEF IInv

\* The slot is full: the job goes back to a timer and stays counted.
LEMMA RequeueInv == ASSUME IInv, NEW w \in Workers, Requeue(w) PROVE IInv'
<1> DEFINE j == worker[w].job
<1>0. TypeOK /\ worker[w].pc = "taken" /\ Busy(w)
  BY DEF IInv, Requeue, Busy
<1>1. j \in Jobs /\ at[j] = "held"
  BY <1>0 DEF IInv, HeldJobs
<1>2. /\ at' = [at EXCEPT ![j] = "timer"]
      /\ UNCHANGED <<now, queue, slot, inFlight, closed, drain, overrun>>
  BY DEF Requeue
<1>3. /\ worker' \in [Workers -> [pc: WorkerPcs, job: Jobs \cup {NoJob}]]
      /\ \A v \in Workers : v # w => worker'[v] = worker[v]
      /\ worker'[w].pc = "idle"
  BY <1>0 DEF Requeue, TypeOK, WorkerPcs, Idle
<1>4. HeldJobs' /\ QueuedJobs' /\ DrainJobs'
  BY <1>0, <1>2, <1>3, LetGo DEF Places
<1>5. InFlightCounts'
  <2>1. Unsettled' = Unsettled
    BY <1>0, <1>1, <1>2 DEF TypeOK, Unsettled
  <2>2. QED BY <1>2, <2>1 DEF IInv, InFlightCounts
<1>6. SlotCounts'
  <2>1. \A v \in Workers :
           worker'[v].job \in Keyed /\ worker'[v].pc \in {"running", "enqueuing", "releasing"}
             <=> v \in Holders
    BY <1>0, <1>3 DEF Holders
  <2>2. QED BY <1>2, <2>1, SlotKept DEF IInv
<1>7. TypeOK'
  BY <1>0, <1>2, <1>3 DEF TypeOK, Places
<1>8. QED BY <1>4, <1>5, <1>6, <1>7 DEF IInv

\* A worker that changes neither its job nor anybody's place.
LEMMA OnlyWorker ==
  ASSUME IInv, NEW w \in Workers, UNCHANGED <<at, queue, inFlight, drain>>,
         \A v \in Workers : v # w => worker'[v] = worker[v],
         worker'[w].pc # "releasing", Busy(w)' => Busy(w) /\ worker'[w].job = worker[w].job
  PROVE  HeldJobs' /\ QueuedJobs' /\ InFlightCounts' /\ DrainJobs'
<1>1. \A v \in Workers : Busy(v)' => Busy(v) /\ worker'[v].job = worker[v].job
  BY DEF Busy
<1>2. HeldJobs'
  BY <1>1 DEF IInv, HeldJobs
<1>3. QueuedJobs' /\ InFlightCounts' /\ DrainJobs'
  BY DEF IInv, QueuedJobs, InFlightCounts, Unsettled, DrainJobs, Accepted, Settled
<1>4. QED BY <1>2, <1>3

\* tryAcquire: one more holder, unless an expired slot is replaced.
LEMMA AcquireInv == ASSUME IInv, NEW w \in Workers, Acquire(w) PROVE IInv'
<1>0. TypeOK /\ worker[w].pc = "taken"
  BY DEF IInv, Acquire
<1>1. UNCHANGED <<now, at, queue, inFlight, closed, drain>>
  BY DEF Acquire
<1>2. /\ worker' \in [Workers -> [pc: WorkerPcs, job: Jobs \cup {NoJob}]]
      /\ \A v \in Workers : v # w => worker'[v] = worker[v]
      /\ worker'[w].pc = "running" /\ worker'[w].job = worker[w].job
  BY <1>0 DEF Acquire, TypeOK, WorkerPcs
<1>3. HeldJobs' /\ QueuedJobs' /\ InFlightCounts' /\ DrainJobs'
  BY <1>0, <1>1, <1>2, OnlyWorker DEF Busy
<1>4. CASE worker[w].job \in Keyed
  <2>1. /\ CountNow < Limit /\ overrun' = (overrun \/ Expired)
        /\ slot' = [count |-> CountNow + 1, expiresAt |-> now + Duration]
    BY <1>4 DEF Acquire, HasRoom
  <2>2. CountNow \in Nat
    BY <1>0 DEF CountNow, TypeOK
  <2>3. SlotCounts'
    <3> SUFFICES ASSUME ~overrun'
                 PROVE  slot'.count = Cardinality(Holders') /\ slot'.count <= Limit
      BY DEF SlotCounts
    <3>1. ~overrun /\ CountNow = slot.count /\ slot.count = Cardinality(Holders)
      BY <2>1 DEF CountNow, IInv, SlotCounts
    <3>2. w \notin Holders /\ Holders' = Holders \cup {w}
      BY <1>0, <1>2, <1>4 DEF Holders
    <3>3. Cardinality(Holders') = Cardinality(Holders) + 1
      BY <3>2, HoldersFinite, FS_AddElement
    <3>4. QED BY <2>1, <2>2, <3>1, <3>3, AsyncAssumption
  <2>4. TypeOK'
    <3>1. slot' \in [count: Nat, expiresAt: Int]
      BY <1>0, <2>1, <2>2, AsyncAssumption DEF TypeOK
    <3>2. overrun' \in BOOLEAN
      BY <2>1
    <3>3. QED BY <1>0, <1>1, <1>2, <3>1, <3>2 DEF TypeOK
  <2>5. QED BY <1>3, <2>3, <2>4 DEF IInv
<1>5. CASE worker[w].job \notin Keyed
  <2>1. UNCHANGED <<slot, overrun>>
    BY <1>5 DEF Acquire
  <2>2. SlotCounts'
    BY <1>0, <1>2, <1>5, <2>1, SlotKept DEF IInv, Holders
  <2>3. TypeOK'
    BY <1>0, <1>1, <1>2, <2>1 DEF TypeOK
  <2>4. QED BY <1>3, <2>2, <2>3 DEF IInv
<1>6. QED BY <1>4, <1>5

\* release: one holder less, and the slot is there to be released.
LEMMA ReleaseInv == ASSUME IInv, NEW w \in Workers, Release(w) PROVE IInv'
<1>0. TypeOK /\ worker[w].pc = "releasing"
  BY DEF IInv, Release
<1>1. UNCHANGED <<now, at, queue, inFlight, closed, drain, overrun>>
  BY DEF Release
<1>2. /\ worker' \in [Workers -> [pc: WorkerPcs, job: Jobs \cup {NoJob}]]
      /\ \A v \in Workers : v # w => worker'[v] = worker[v]
      /\ worker'[w].pc = "idle"
  BY <1>0 DEF Release, TypeOK, WorkerPcs, Idle
<1>3. HeldJobs' /\ QueuedJobs' /\ InFlightCounts' /\ DrainJobs'
  BY <1>0, <1>1, <1>2, OnlyWorker DEF Busy
<1>4. slot' \in [count: Nat, expiresAt: Int]
      /\ slot'.count = IF slot.count <= 1 THEN 0 ELSE slot.count - 1
  BY <1>0 DEF Release, TypeOK
<1>5. SlotCounts'
  <2> SUFFICES ASSUME ~overrun
               PROVE  slot'.count = Cardinality(Holders') /\ slot'.count <= Limit
    BY <1>1 DEF SlotCounts
  <2>1. slot.count = Cardinality(Holders) /\ slot.count <= Limit
    BY DEF IInv, SlotCounts
  <2>2. w \in Holders /\ Holders' = Holders \ {w}
    BY <1>0, <1>2 DEF Holders, IInv, HeldJobs
  <2>3. /\ Cardinality(Holders') = Cardinality(Holders) - 1
        /\ IsFiniteSet(Holders') /\ Cardinality(Holders) \in Nat
    BY <2>2, HoldersFinite, FS_RemoveElement
  <2>4. Cardinality(Holders') \in Nat
    BY <2>3, FS_CardinalityType
  <2>5. QED BY <1>4, <2>1, <2>3, <2>4, AsyncAssumption
<1>6. TypeOK'
  BY <1>0, <1>1, <1>2, <1>4 DEF TypeOK
<1>7. QED BY <1>3, <1>5, <1>6 DEF IInv

LEMMA NextInv == IInv /\ [Next]_vars => IInv'
<1> SUFFICES ASSUME IInv, [Next]_vars PROVE IInv'
  OBVIOUS
<1>0. TypeOK
  BY DEF IInv
<1>1. ASSUME NEW j \in Jobs, Enqueue(j) PROVE IInv'
  BY <1>0, <1>1, AcceptStep DEF Enqueue, TypeOK
<1>2. ASSUME NEW j \in Jobs, JobStep(j) PROVE IInv'
  BY <1>2, JobStepInv
<1>3. ASSUME NEW w \in Workers, EnqueueFromJob(w) PROVE IInv'
  <2> DEFINE c == Spawns[worker[w].job]
  <2>1. worker[w].pc = "running" /\ worker[w].job \in Jobs
    BY <1>3 DEF EnqueueFromJob, IInv, HeldJobs, Busy
  <2>2. c \in Jobs
    BY <1>3, <2>1, AsyncAssumption DEF EnqueueFromJob
  <2>3. /\ worker' \in [Workers -> [pc: WorkerPcs, job: Jobs \cup {NoJob}]]
        /\ \A v \in Workers :
             \/ worker'[v] = worker[v]
             \/ /\ worker[v].pc = "running" /\ worker'[v].pc = "enqueuing"
                /\ worker'[v].job = worker[v].job
    BY <1>0, <1>3, <2>1 DEF EnqueueFromJob, TypeOK, WorkerPcs
  <2>4. /\ at[c] = "new" /\ inFlight' = inFlight + 1
        /\ at' = [at EXCEPT ![c] = IF c \in Delayed THEN "timer" ELSE "sending"]
        /\ UNCHANGED <<now, queue, closed, slot, drain, overrun>>
    BY <1>3 DEF EnqueueFromJob
  <2>5. QED BY <2>2, <2>3, <2>4, AcceptStep
<1>4. ASSUME NEW w \in Workers,
             Take(w) \/ Acquire(w) \/ Requeue(w) \/ Finish(w) \/ Release(w)
      PROVE  IInv'
  BY <1>4, TakeInv, AcquireInv, RequeueInv, FinishInv, ReleaseInv
<1>5. ASSUME NEW w \in Workers, Exit(w) PROVE IInv'
  <2>1. /\ worker' \in [Workers -> [pc: WorkerPcs, job: Jobs \cup {NoJob}]]
        /\ \A v \in Workers : v # w => worker'[v] = worker[v]
        /\ worker[w].pc = "idle" /\ worker'[w].pc = "exited"
    BY <1>0, <1>5 DEF Exit, TypeOK, WorkerPcs
  <2>2. UNCHANGED <<now, at, queue, slot, inFlight, closed, drain, overrun>>
    BY <1>5 DEF Exit
  <2>3. HeldJobs' /\ QueuedJobs' /\ InFlightCounts' /\ DrainJobs'
    BY <2>1, <2>2, OnlyWorker DEF Busy
  <2>4. SlotCounts'
    BY <2>1, <2>2, SlotKept DEF IInv, Holders
  <2>5. TypeOK'
    BY <1>0, <2>1, <2>2 DEF TypeOK
  <2>6. QED BY <2>3, <2>4, <2>5 DEF IInv
<1>6. CASE Tick \/ Close \/ UNCHANGED vars
  <2>1. /\ UNCHANGED <<at, queue, worker, slot, inFlight, drain, overrun>>
        /\ now' \in Nat
    BY <1>0, <1>6 DEF Tick, Close, vars, TypeOK
  <2>2. TypeOK'
    <3>1. closed' \in BOOLEAN
      BY <1>0, <1>6, Zenon DEF Tick, Close, vars, TypeOK
    <3>2. QED BY <1>0, <2>1, <3>1 DEF TypeOK
  <2>3. HeldJobs' /\ QueuedJobs' /\ InFlightCounts'
    BY <2>1 DEF IInv, HeldJobs, Busy, QueuedJobs, InFlightCounts, Unsettled
  <2>4. DrainJobs' /\ SlotCounts'
    BY <2>1 DEF IInv, DrainJobs, Accepted, Settled, SlotCounts, Holders
  <2>5. QED BY <2>2, <2>3, <2>4 DEF IInv
<1>7. CASE StartDrain \/ DrainReturns
  <2>1. UNCHANGED <<now, at, queue, worker, slot, inFlight, closed, overrun>>
    BY <1>7 DEF StartDrain, DrainReturns
  <2>2. HeldJobs' /\ QueuedJobs' /\ InFlightCounts' /\ SlotCounts'
    BY <2>1 DEF IInv, HeldJobs, Busy, QueuedJobs, InFlightCounts, Unsettled, SlotCounts, Holders
  <2>3. DrainJobs' /\ TypeOK'
    <3>1. CASE StartDrain
      BY <1>0, <2>1, <3>1 DEF StartDrain, DrainJobs, Accepted, TypeOK
    <3>2. CASE DrainReturns
      <4>1. Unsettled = {}
        BY <3>2, UnsettledFinite, FS_EmptySet DEF DrainReturns, IInv, InFlightCounts
      <4>2. Accepted \subseteq Settled
        BY <1>0, <4>1 DEF Unsettled, Accepted, Settled, TypeOK, Places
      <4>3. Accepted' = Accepted /\ Settled' = Settled
        BY <2>1 DEF Accepted, Settled
      <4>4. drain'.jobs = drain.jobs /\ drain' \in [phase: {"no", "waiting", "returned"}, jobs: SUBSET Jobs]
        BY <1>0, <3>2 DEF DrainReturns, TypeOK
      <4>5. DrainJobs'
        BY <4>2, <4>3, <4>4 DEF IInv, DrainJobs
      <4>6. QED BY <1>0, <2>1, <4>4, <4>5 DEF TypeOK
    <3>3. QED BY <1>7, <3>1, <3>2
  <2>4. QED BY <2>2, <2>3 DEF IInv
<1>8. QED BY <1>1, <1>2, <1>3, <1>4, <1>5, <1>6, <1>7 DEF Next, WorkerStep

LEMMA Inductive == Spec => []IInv
BY InitInv, NextInv, PTL DEF Spec

\* The variables of the backend keep their types; in particular the WaitGroup's
\* counter never goes below zero, which would be a panic.
THEOREM TypeCorrect == Spec => []TypeOK
<1>1. IInv => TypeOK
  BY DEF IInv
<1>2. QED BY <1>1, Inductive, PTL

\* The WaitGroup counts exactly the jobs that are accepted and not settled, so
\* that Drain returns only when all jobs accepted before it are done or dropped:
\* for any number of jobs, workers, requeues and jobs that enqueue jobs.
THEOREM DrainWaits == Spec => []DrainWaitsForAll
<1>1. IInv => DrainWaitsForAll
  <2> SUFFICES ASSUME IInv PROVE DrainWaitsForAll
    OBVIOUS
  <2>1. Accepted \ Settled = Unsettled
    BY DEF IInv, TypeOK, Places, Accepted, Settled, Unsettled
  <2>2. QED BY <2>1 DEF IInv, InFlightCounts, DrainJobs, DrainWaitsForAll
<1>2. QED BY <1>1, Inductive, PTL

\* Until a job outlives its ConcurrencyDuration at most Limit jobs of a key run
\* at once, on any number of workers.
THEOREM LimitHolds == Spec => []LimitUntilOverrun
<1>1. IInv => LimitUntilOverrun
  BY DEF IInv, SlotCounts, LimitUntilOverrun
<1>2. QED BY <1>1, Inductive, PTL

-----------------------------------------------------------------------------
(* Lifecycle: the invariant says what Run knows at each of its places; a   *)
(* server that is closing or has failed lets no request in, so that what   *)
(* Shutdown found stays found.                                             *)

\* What the goroutines send; Run returns one of them, "shutdown", or nil.
Errors == {"server", "runner"}

TrailTypes ==
  /\ main \in {"select", "stop", "shutdown", "wait", "returned"}
  /\ server \in {"listening", "failed", "closing", "closed"}
  /\ runner \in [Runners -> {"running", "sending", "done"}]
  /\ request \in [Requests -> {"none", "open", "answered", "cut"}]
  /\ errs \in Seq(Errors)
  /\ cancelled \in BOOLEAN /\ stopped \in BOOLEAN /\ overtime \in BOOLEAN
  /\ runErr \in {"", "server", "runner", "shutdown"}

\* Shutdown has given up.
GaveUp == overtime \/ cancelled

\* No listener is open once Run has stopped; requests are cut off only by a
\* Shutdown that gave up without an error before it, and then all of them are.
Stopped ==
  /\ main \in {"shutdown", "wait", "returned"} => server # "listening"
  /\ runErr = "shutdown" => main \in {"wait", "returned"} /\ GaveUp /\ Trail!Open = {}
  /\ (\E q \in Requests : request[q] = "cut") => runErr = "shutdown"

\* What is left open is left by an error before a Shutdown that gave up.
Closed ==
  /\ main \in {"wait", "returned"} => Trail!Open = {} \/ (runErr \in {"server", "runner"} /\ GaveUp)
  /\ main = "returned" => \A r \in Runners : runner[r] = "done"

TrailInv == TrailTypes /\ Stopped /\ Closed

LEMMA TrailInitInv == Trail!Init => TrailInv
<1> SUFFICES ASSUME Trail!Init PROVE TrailInv
  OBVIOUS
<1>1. TrailTypes
  <2>1. errs \in Seq(Errors)
    BY EmptySeq DEF Trail!Init
  <2>2. QED BY <2>1 DEF Trail!Init, TrailTypes
<1>2. QED BY <1>1 DEF Trail!Init, TrailInv, Stopped, Closed

LEMMA TrailNextTypes == TrailTypes /\ [Trail!Next]_(Trail!vars) => TrailTypes'
<1> SUFFICES ASSUME TrailTypes, [Trail!Next]_(Trail!vars) PROVE TrailTypes'
  OBVIOUS
<1> USE DEF TrailTypes
<1>1. CASE Trail!Signal \/ Trail!Cancel
  <2>1. cancelled' \in BOOLEAN /\ stopped' \in BOOLEAN
    <3>1. CASE Trail!Signal
      BY <3>1 DEF Trail!Signal
    <3>2. CASE Trail!Cancel
      BY <3>2 DEF Trail!Cancel
    <3>3. QED BY <1>1, <3>1, <3>2
  <2>2. UNCHANGED <<main, server, runner, request, errs, overtime, runErr>>
    BY <1>1 DEF Trail!Signal, Trail!Cancel
  <2>3. QED BY <2>1, <2>2
<1>2. CASE Trail!ServeFails
  <2>1. "server" \in Errors
    BY DEF Errors
  <2>2. errs' \in Seq(Errors)
    BY <1>2, <2>1, AppendProperties DEF Trail!ServeFails
  <2>3. QED BY <1>2, <2>2 DEF Trail!ServeFails
<1>3. CASE Trail!SelectError
  <2>1. Head(errs) \in Errors /\ Tail(errs) \in Seq(Errors)
    BY <1>3, HeadTailProperties DEF Trail!SelectError
  <2>2. QED BY <1>3, <2>1 DEF Trail!SelectError, Errors
<1>4. CASE Trail!SelectDone \/ Trail!ShutdownOk \/ Trail!Return
  BY <1>4 DEF Trail!SelectDone, Trail!ShutdownOk, Trail!Return
<1>5. CASE Trail!Stop
  BY <1>5 DEF Trail!Stop
<1>6. CASE Trail!TimeOut
  BY <1>6 DEF Trail!TimeOut
<1>7. CASE Trail!ShutdownFails
  BY <1>7 DEF Trail!ShutdownFails, Trail!ForceClose
<1>8. ASSUME NEW q \in Requests, Trail!Arrive(q) \/ Trail!Respond(q) PROVE TrailTypes'
  BY <1>8 DEF Trail!Arrive, Trail!Respond
<1>9. ASSUME NEW r \in Runners, Trail!RunnerReturns(r) \/ Trail!RunnerFails(r) \/ Trail!SendError(r) PROVE TrailTypes'
  <2>1. runner' \in [Runners -> {"running", "sending", "done"}]
    BY <1>9 DEF Trail!RunnerReturns, Trail!RunnerFails, Trail!SendError
  <2>2. errs' \in Seq(Errors)
    <3>1. "runner" \in Errors
      BY DEF Errors
    <3>2. CASE Trail!SendError(r)
      BY <3>1, <3>2, AppendProperties DEF Trail!SendError
    <3>3. CASE Trail!RunnerReturns(r) \/ Trail!RunnerFails(r)
      BY <3>3 DEF Trail!RunnerReturns, Trail!RunnerFails
    <3>4. QED BY <1>9, <3>2, <3>3
  <2>3. QED BY <1>9, <2>1, <2>2 DEF Trail!RunnerReturns, Trail!RunnerFails, Trail!SendError
<1>10. CASE UNCHANGED Trail!vars
  BY <1>10 DEF Trail!vars
<1>11. QED
  BY <1>1, <1>2, <1>3, <1>4, <1>5, <1>6, <1>7, <1>8, <1>9, <1>10 DEF Trail!Next, Trail!MainStep

LEMMA TrailNextInv == TrailInv /\ [Trail!Next]_(Trail!vars) => TrailInv'
<1> SUFFICES ASSUME TrailInv, [Trail!Next]_(Trail!vars) PROVE TrailInv'
  OBVIOUS
<1>0. TrailTypes /\ TrailTypes'
  BY TrailNextTypes DEF TrailInv
<1>1. ASSUME UNCHANGED <<main, server, request, runErr>>, GaveUp => GaveUp',
             \A r \in Runners : runner[r] = "done" => runner'[r] = "done"
      PROVE  TrailInv'
  <2>1. Trail!Open' = Trail!Open
    BY <1>1 DEF Trail!Open
  <2>2. Stopped' /\ Closed'
    BY <1>1, <2>1 DEF TrailInv, Stopped, Closed
  <2>3. QED BY <1>0, <2>2 DEF TrailInv
<1>2. CASE Trail!Signal \/ Trail!Cancel \/ Trail!TimeOut \/ UNCHANGED Trail!vars
  <2>1. GaveUp => GaveUp'
    BY <1>2 DEF Trail!Signal, Trail!Cancel, Trail!TimeOut, Trail!vars, GaveUp
  <2>2. UNCHANGED <<main, server, request, runErr, runner>>
    BY <1>2 DEF Trail!Signal, Trail!Cancel, Trail!TimeOut, Trail!vars
  <2>3. QED BY <1>1, <2>1, <2>2
<1>3. ASSUME NEW r \in Runners, Trail!RunnerReturns(r) \/ Trail!RunnerFails(r) \/ Trail!SendError(r) PROVE TrailInv'
  <2>1. \A s \in Runners : runner[s] = "done" => runner'[s] = "done"
    BY <1>0, <1>3 DEF Trail!RunnerReturns, Trail!RunnerFails, Trail!SendError, TrailTypes
  <2>2. UNCHANGED <<main, server, request, runErr, cancelled, overtime>>
    BY <1>3 DEF Trail!RunnerReturns, Trail!RunnerFails, Trail!SendError
  <2>3. QED BY <1>1, <2>1, <2>2 DEF GaveUp
<1>4. ASSUME UNCHANGED <<request, overtime, cancelled, runner>>,
             main' \in {"select", "stop", "shutdown"}, runErr' # "shutdown", runErr # "shutdown",
             main' = "shutdown" => server' # "listening"
      PROVE  TrailInv'
  <2>1. Stopped' /\ Closed'
    BY <1>4 DEF TrailInv, Stopped, Closed
  <2>2. QED BY <1>0, <2>1 DEF TrailInv
<1>5. CASE Trail!ServeFails
  <2>1. main \in {"select", "stop"} /\ main' = main /\ runErr # "shutdown"
    BY <1>0, <1>5 DEF Trail!ServeFails, TrailInv, Stopped, TrailTypes
  <2>2. QED BY <1>4, <1>5, <2>1 DEF Trail!ServeFails
<1>6. CASE Trail!SelectError \/ Trail!SelectDone \/ Trail!Stop
  <2>1. runErr # "shutdown" /\ runErr' # "shutdown"
    <3>1. CASE Trail!SelectError
      <4>1. Head(errs) \in Errors
        BY <1>0, <3>1, HeadTailProperties DEF Trail!SelectError, TrailTypes
      <4>2. QED BY <3>1, <4>1 DEF Trail!SelectError, TrailInv, Stopped, Errors
    <3>2. CASE Trail!SelectDone \/ Trail!Stop
      BY <3>2 DEF Trail!SelectDone, Trail!Stop, TrailInv, Stopped
    <3>3. QED BY <1>6, <3>1, <3>2
  <2>2. QED BY <1>4, <1>6, <2>1 DEF Trail!SelectError, Trail!SelectDone, Trail!Stop
<1>7. CASE Trail!ShutdownOk
  <2>1. Trail!Open' = Trail!Open /\ Trail!Open = {}
    BY <1>7 DEF Trail!ShutdownOk, Trail!Open
  <2>2. Stopped' /\ Closed'
    BY <1>7, <2>1 DEF Trail!ShutdownOk, TrailInv, Stopped, Closed
  <2>3. QED BY <1>0, <2>2 DEF TrailInv
<1>8. CASE Trail!ShutdownFails
  <2>1. GaveUp /\ GaveUp' /\ main = "shutdown" /\ main' = "wait"
    BY <1>8 DEF Trail!ShutdownFails, GaveUp
  <2>2. CASE runErr = ""
    <3>1. server' = "closed" /\ runErr' = "shutdown" /\ Trail!Open' = {}
      <4>1. /\ server' = "closed" /\ runErr' = "shutdown"
            /\ request' = [q \in Requests |-> IF q \in Trail!Open THEN "cut" ELSE request[q]]
        BY <1>8, <2>2 DEF Trail!ShutdownFails, Trail!ForceClose
      <4>2. \A q \in Requests : request'[q] # "open"
        BY <4>1 DEF Trail!Open
      <4>3. QED BY <4>1, <4>2 DEF Trail!Open
    <3>2. Stopped' /\ Closed'
      BY <2>1, <3>1 DEF Stopped, Closed
    <3>3. QED BY <1>0, <3>2 DEF TrailInv
  <2>3. CASE runErr # ""
    <3>1. UNCHANGED <<server, request, runErr>> /\ runErr \in {"server", "runner"}
      BY <1>0, <1>8, <2>1, <2>3 DEF Trail!ShutdownFails, Trail!ForceClose, TrailInv, Stopped, TrailTypes
    <3>2. Stopped' /\ Closed'
      BY <2>1, <3>1 DEF TrailInv, Stopped, Closed
    <3>3. QED BY <1>0, <3>2 DEF TrailInv
  <2>4. QED BY <2>2, <2>3
<1>9. CASE Trail!Return
  <2>1. Trail!Open' = Trail!Open
    BY <1>9 DEF Trail!Return, Trail!Open
  <2>2. Stopped' /\ Closed'
    BY <1>9, <2>1 DEF Trail!Return, TrailInv, Stopped, Closed, GaveUp
  <2>3. QED BY <1>0, <2>2 DEF TrailInv
<1>10. ASSUME NEW q \in Requests, Trail!Arrive(q) PROVE TrailInv'
  <2>1. main \in {"select", "stop"} /\ main' = main /\ runErr # "shutdown"
    BY <1>0, <1>10 DEF Trail!Arrive, TrailInv, Stopped, TrailTypes
  <2>2. \A p \in Requests : request[p] # "cut" /\ request'[p] # "cut"
    BY <1>0, <1>10, <2>1 DEF Trail!Arrive, TrailInv, Stopped, TrailTypes
  <2>3. Stopped' /\ Closed'
    BY <1>10, <2>1, <2>2 DEF Trail!Arrive, Stopped, Closed
  <2>4. QED BY <1>0, <2>3 DEF TrailInv
<1>11. ASSUME NEW q \in Requests, Trail!Respond(q) PROVE TrailInv'
  <2>1. Trail!Open' \subseteq Trail!Open
    BY <1>0, <1>11 DEF Trail!Respond, Trail!Open, TrailTypes
  <2>2. \A p \in Requests : request'[p] = "cut" => request[p] = "cut"
    BY <1>0, <1>11 DEF Trail!Respond, TrailTypes
  <2>3. UNCHANGED <<main, server, runner, runErr, cancelled, overtime>>
    BY <1>11 DEF Trail!Respond
  <2>4. Stopped' /\ Closed'
    BY <2>1, <2>2, <2>3 DEF TrailInv, Stopped, Closed, GaveUp
  <2>5. QED BY <1>0, <2>4 DEF TrailInv
<1>12. QED
  BY <1>2, <1>3, <1>5, <1>6, <1>7, <1>8, <1>9, <1>10, <1>11 DEF Trail!Next, Trail!MainStep

\* Whatever the order of signals, errors and timeouts: when Run has returned,
\* all Runners are done and no request is open, unless an error of the server or
\* of a Runner came before a Shutdown that gave up; and only a Shutdown that gave
\* up cuts requests off.
THEOREM LeftBehind == Trail!Spec => []LeftBehindOnlyAfterError
<1>1. TrailInv => Trail!LeftBehindOnlyAfterError
  <2> SUFFICES ASSUME TrailInv PROVE Trail!LeftBehindOnlyAfterError
    OBVIOUS
  <2>1. Trail!NothingLeftBehind \/ (runErr \in {"server", "runner"} /\ (overtime \/ cancelled))
    BY DEF TrailInv, Closed, Trail!NothingLeftBehind, GaveUp
  <2>2. (\E q \in Requests : request[q] = "cut") => runErr = "shutdown" /\ (overtime \/ cancelled)
    BY DEF TrailInv, Stopped, GaveUp
  <2>3. QED BY <2>1, <2>2 DEF Trail!LeftBehindOnlyAfterError
<1>2. QED BY <1>1, TrailInitInv, TrailNextInv, PTL DEF Trail!Spec, LeftBehindOnlyAfterError
=============================================================================
