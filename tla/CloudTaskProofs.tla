-------------------------- MODULE CloudTaskProofs --------------------------
(***************************************************************************)
(* Proofs about CloudTask, for any finite set of jobs, any number of open  *)
(* pushes and any number of faults.  The inductive invariant says what the *)
(* table holds while a push is at work on a row, and that the lock on the  *)
(* slot row has one owner from the count to the commit.                    *)
(*                                                                         *)
(* And about CleanupChain, the instance Chain of MCCloudTask, for any      *)
(* number of time stamps, Enqueue calls and cleanup pushes.                *)
(***************************************************************************)
EXTENDS MCCloudTask, FiniteSetTheorems, TLAPS

\* The row a claim transaction has locked stays pending and has an attempt
\* left; nobody else has it locked.
ClaimRows ==
  \A p \in Pushes : push[p].pc \in ClaimPcs =>
    /\ push[p].job \in Jobs /\ push[p].at <= now
    /\ push[p].pc = "marked" <=> push[p].job \notin keyed
    /\ rows[push[p].job].state = "pending"
    /\ push[p].attempts = rows[push[p].job].attempts + 1
    /\ push[p].attempts <= MaxAttempts
    /\ \A q \in Pushes : LockedBy(q, push[p].job) => q = p

\* The row of a job that was claimed or runs is executing, unless Enqueue took
\* it back, and counts this run, as the handler's copy does; the dispatches do
\* so once the job runs.
PerformedRows ==
  \A p \in Pushes : push[p].pc \in AtWork =>
    /\ push[p].job \in Jobs
    /\ rows[push[p].job].state \in {"executing", "none"}
    /\ rows[push[p].job].state = "executing" =>
         rows[push[p].job].attempts = push[p].attempts
    /\ push[p].attempts <= MaxAttempts
    /\ push[p].attempts = performs[push[p].job] + (IF push[p].pc = "claimed" THEN 1 ELSE 0)

\* Before its Enqueue nothing knows a job's id.
UnknownBefore ==
  \A j \in Jobs : enq[j] = "no" =>
    /\ rows[j].state = "none" /\ task[j] = "none" /\ performs[j] = 0
    /\ j \notin sweep.ids
    /\ \A p \in Pushes : push[p].job # j

\* What a cleanup pass is about to delete is settled, or gone already.
DoomedRows == \A j \in sweep.ids : rows[j].state \in {"finished", "failed", "none"}

\* The slot row has one locker, and who counts or has counted is it.
SlotLock ==
  /\ \A p \in slotHeld : slotHeld = {p}
  /\ \A p \in Pushes : push[p].pc \in {"counting", "within", "over"} => p \in slotHeld

\* A count within the limit still holds when its transaction commits.
CountHolds == \A p \in Pushes : push[p].pc = "within" => ActiveCount(p) <= Limit

IInv ==
  /\ TypeOK /\ ClaimRows /\ PerformedRows /\ UnknownBefore /\ DoomedRows /\ SlotLock
  /\ NoConcurrentPerform /\ AttemptsExact

Row == [state: States, attempts: Nat, lockedAt: Int]
Push == [pc: PushPcs, job: Jobs \cup {NoJob}, attempts: Nat, at: Nat, live: BOOLEAN]

-----------------------------------------------------------------------------
(* Type correctness.                                                       *)

\* A handler's statement leaves a row in the table's format.
LEMMA WriteTypeOK ==
  ASSUME TypeOK, NEW p \in Pushes, NEW row \in Row, Write(p, row)
  PROVE  rows' \in [Jobs -> Row] /\ faults' \in Nat
<1>1. NoRow \in Row
  BY DEF NoRow, Row, States
<1>2. rows \in [Jobs -> Row]
  BY DEF TypeOK, Row
<1>3. QED BY <1>1, <1>2 DEF Write, TypeOK, Fault

\* An answered push is free again.
LEMMA AnswerTypeOK ==
  ASSUME TypeOK, NEW p \in Pushes, NEW code, Answer(p, code)
  PROVE  /\ push' \in [Pushes -> Push]
         /\ task' \in [Jobs -> {"none", "queued", "done"}]
<1>1. Free \in Push
  BY DEF Free, Push, PushPcs
<1>2. push \in [Pushes -> Push]
  BY DEF TypeOK, Push
<1>3. QED BY <1>1, <1>2 DEF Answer, TypeOK

LEMMA InitTypeOK == Init => TypeOK
<1> SUFFICES ASSUME Init PROVE TypeOK
  OBVIOUS
<1>1. NoRow \in [state: States, attempts: Nat, lockedAt: Int]
  BY DEF NoRow, States
<1>2. Free \in [pc: PushPcs, job: Jobs \cup {NoJob}, attempts: Nat, at: Nat, live: BOOLEAN]
  BY DEF Free, PushPcs
<1>3. sweep \in [pc: SweepPcs, ids: SUBSET Jobs]
  BY DEF Init, SweepPcs
<1>4. QED BY <1>1, <1>2, <1>3 DEF Init, TypeOK

LEMMA NextTypeOK == TypeOK /\ [Next]_vars => TypeOK'
<1> SUFFICES ASSUME TypeOK, [Next]_vars PROVE TypeOK'
  OBVIOUS
<1> USE DEF Push, Row
<1>0. rows \in [Jobs -> Row] /\ push \in [Pushes -> Push] /\ faults \in Nat /\ keyed \subseteq Jobs
  BY CloudTaskAssumption DEF TypeOK
<1>1. CASE Tick
  BY <1>1 DEF Tick, TypeOK
<1>2. ASSUME NEW j \in Jobs, EnqueueStep(j) PROVE TypeOK'
  <2>1. CASE EnqueueInsert(j)
    BY <2>1 DEF EnqueueInsert, TypeOK, States
  <2>2. CASE EnqueueCreated(j)
    BY <2>2 DEF EnqueueCreated, TypeOK
  <2>3. CASE EnqueueCreateFails(j)
    BY <2>3 DEF EnqueueCreateFails, Fault, TypeOK
  <2>4. CASE EnqueueUndo(j)
    <3>1. NoRow \in Row
      BY DEF NoRow, States
    <3>2. rows' \in [Jobs -> Row]
      BY <1>0, <2>4, <3>1 DEF EnqueueUndo
    <3>3. faults' \in Nat
      BY <1>0, <2>4 DEF EnqueueUndo, Fault
    <3>4. enq' \in [Jobs -> {"no", "inserted", "undoing", "ok", "error"}]
      BY <2>4 DEF EnqueueUndo, TypeOK
    <3>5. QED BY <2>4, <3>2, <3>3, <3>4 DEF EnqueueUndo, TypeOK
  <2>5. QED BY <1>2, <2>1, <2>2, <2>3, <2>4 DEF EnqueueStep
<1>3. ASSUME NEW j \in Jobs, NEW p \in Pushes, DeliverSkip(p, j) PROVE TypeOK'
  BY <1>3 DEF DeliverSkip, Fault, TypeOK
<1>4. ASSUME NEW j \in Jobs, NEW p \in Pushes, DeliverClaim(p, j) PROVE TypeOK'
  <2>1. push' \in [Pushes -> Push]
    BY <1>0, <1>4 DEF DeliverClaim, TypeOK, PushPcs, ClaimPcs
  <2>2. QED BY <1>4, <2>1 DEF DeliverClaim, TypeOK
<1>5. ASSUME NEW p \in Pushes, HandlerStep(p) \/ ClaimAnswerLost(p) PROVE TypeOK'
  <2>1. CASE UpsertSlot(p)
    <3>1. push' \in [Pushes -> Push]
      BY <1>0, <2>1 DEF UpsertSlot, PushPcs, ClaimPcs
    <3>2. QED BY <2>1, <3>1 DEF UpsertSlot, TypeOK
  <2>2. CASE LockSlot(p)
    <3>1. push' \in [Pushes -> Push]
      BY <1>0, <2>2 DEF LockSlot, PushPcs, ClaimPcs
    <3>2. QED BY <2>2, <3>1 DEF LockSlot, TypeOK
  <2>3. CASE CountActive(p)
    <3>1. push' \in [Pushes -> Push]
      <4>1. PICK pc \in {"over", "within"} : push' = [push EXCEPT ![p].pc = pc]
        BY <2>3 DEF CountActive
      <4>2. pc \in PushPcs
        BY DEF PushPcs, ClaimPcs
      <4>3. QED BY <1>0, <4>1, <4>2
    <3>2. QED BY <2>3, <3>1 DEF CountActive, TypeOK
  <2>4. CASE ClaimExecute(p) \/ ClaimAnswerLost(p)
    <3>1. [state |-> "executing", attempts |-> push[p].attempts, lockedAt |-> push[p].at] \in Row
      BY <1>0 DEF States
    <3>2. CommitClaim(p)
      BY <2>4 DEF ClaimExecute, ClaimAnswerLost
    <3>3. rows' \in [Jobs -> Row] /\ slotHeld' \in SUBSET Pushes
      BY <1>0, <3>1, <3>2 DEF CommitClaim, TypeOK
    <3>4. slot' \in BOOLEAN
      BY <3>2, Zenon DEF CommitClaim
    <3>5. CASE ClaimExecute(p)
      <4>1. push' \in [Pushes -> Push]
        BY <1>0, <3>5 DEF ClaimExecute, PushPcs, AtWork
      <4>2. QED BY <3>3, <3>4, <3>5, <4>1 DEF ClaimExecute, TypeOK
    <3>6. CASE ClaimAnswerLost(p)
      BY <3>3, <3>4, <3>6, AnswerTypeOK DEF ClaimAnswerLost, Fault, TypeOK
    <3>7. QED BY <2>4, <3>5, <3>6
  <2>5. CASE ClaimDeferred(p)
    <3>1. rows' \in [Jobs -> Row]
      <4>1. CASE push[p].job \in Jobs
        <5>1. [rows[push[p].job] EXCEPT !.lockedAt = push[p].at] \in Row
          BY <1>0, <4>1
        <5>2. QED BY <1>0, <2>5, <5>1 DEF ClaimDeferred
      <4>2. CASE push[p].job \notin Jobs
        BY <1>0, <2>5, <4>2 DEF ClaimDeferred
      <4>3. QED BY <4>1, <4>2
    <3>2. QED BY <2>5, <3>1, AnswerTypeOK DEF ClaimDeferred, TypeOK
  <2>6. CASE ClaimError(p)
    BY <1>0, <2>6, AnswerTypeOK DEF ClaimError, Fault, TypeOK
  <2>7. CASE push[p].pc = "performing" /\ (Succeed(p) \/ Fail(p))
    <3>1. CASE push[p].job \in Jobs
      <4>1. \A st \in States : [rows[push[p].job] EXCEPT !.state = st] \in Row
        BY <1>0, <3>1
      <4>2. rows' \in [Jobs -> Row] /\ faults' \in Nat
        BY <2>7, <4>1, WriteTypeOK DEF Succeed, Fail, States
      <4>3. QED BY <2>7, <4>2, AnswerTypeOK DEF Succeed, Fail, TypeOK
    <3>2. CASE push[p].job \notin Jobs
      <4>1. rows' = rows /\ faults' \in Nat
        BY <1>0, <2>7, <3>2 DEF Succeed, Fail, Write, Fault
      <4>2. QED BY <2>7, <4>1, AnswerTypeOK DEF Succeed, Fail, TypeOK
    <3>3. QED BY <3>1, <3>2
  <2>8. CASE Dispatch(p)
    <3>1. push' \in [Pushes -> Push]
      BY <1>0, <2>8 DEF Dispatch, PushPcs, AtWork
    <3>2. performs' \in [Jobs -> Nat]
      <4>1. performs \in [Jobs -> Nat]
        BY DEF TypeOK
      <4>2. CASE push[p].job \in Jobs
        BY <2>8, <4>1, <4>2 DEF Dispatch
      <4>3. CASE push[p].job \notin Jobs
        BY <2>8, <4>1, <4>3 DEF Dispatch
      <4>4. QED BY <4>2, <4>3
    <3>3. QED BY <2>8, <3>1, <3>2 DEF Dispatch, TypeOK
  <2>9. QED
    BY <1>5, <2>1, <2>2, <2>3, <2>4, <2>5, <2>6, <2>7, <2>8 DEF HandlerStep, Succeed, Fail
<1>6. ASSUME NEW p \in Pushes, Timeout(p) \/ Crash(p) PROVE TypeOK'
  <2>1. Free \in Push
    BY DEF Free, PushPcs
  <2>2. push' \in [Pushes -> Push]
    <3>1. CASE Timeout(p)
      BY <1>0, <3>1 DEF Timeout
    <3>2. CASE Crash(p)
      BY <1>0, <2>1, <3>2 DEF Crash
    <3>3. QED BY <1>6, <3>1, <3>2
  <2>3. QED BY <1>6, <2>2 DEF Timeout, Crash, Fault, TypeOK
<1>7. CASE Cleanup
  <2>1. CASE CleanupDelete
    <3>1. NoRow \in Row
      BY DEF NoRow, States
    <3>2. rows' \in [Jobs -> Row]
      BY <1>0, <2>1, <3>1 DEF CleanupDelete
    <3>3. QED BY <2>1, <3>2 DEF CleanupDelete, Fault, TypeOK, SweepPcs
  <2>2. CASE CleanupSelect
    BY <2>2 DEF CleanupSelect, Settled, TypeOK, SweepPcs
  <2>3. CASE CleanupCheckSlot
    BY <2>3 DEF CleanupCheckSlot, TypeOK, SweepPcs
  <2>4. CASE CleanupDeleteSlot
    <3>1. faults' \in Nat
      BY <2>4 DEF CleanupDeleteSlot, Fault, TypeOK
    <3>2. slot' \in BOOLEAN
      BY <2>4, Zenon DEF CleanupDeleteSlot, TypeOK
    <3>3. QED BY <2>4, <3>1, <3>2 DEF CleanupDeleteSlot, TypeOK, SweepPcs
  <2>5. QED BY <1>7, <2>1, <2>2, <2>3, <2>4 DEF Cleanup
<1>8. CASE UNCHANGED vars
  BY <1>8 DEF vars, TypeOK
<1>9. QED BY <1>1, <1>2, <1>3, <1>4, <1>5, <1>6, <1>7, <1>8 DEF Next, Deliver

\* The variables of the backend keep their types.
THEOREM TypeCorrect == Spec => []TypeOK
BY InitTypeOK, NextTypeOK, PTL DEF Spec

-----------------------------------------------------------------------------
(* Who works on a row.                                                     *)

\* The row keeps its state and, while it is in the table, its attempts.
SameRow(j) ==
  /\ rows'[j].state = rows[j].state
  /\ rows[j].state # "none" => rows'[j].attempts = rows[j].attempts

\* The handler p records how its job ended.
RecordedBy(p, j) ==
  /\ push[p].pc = "performing" /\ j = push[p].job
  /\ rows[j].state = "executing" /\ rows'[j].attempts = rows[j].attempts
  /\ rows'[j].state \in {"finished", "failed", "pending"}
  /\ rows'[j].state = "failed" => push[p].attempts >= MaxAttempts

LEMMA InitInv == Init => IInv
<1> SUFFICES ASSUME Init PROVE IInv
  OBVIOUS
<1>1. TypeOK
  BY InitTypeOK
<1>2. \A p \in Pushes : push[p].pc = "free" /\ push[p].job = NoJob
  BY DEF Init, Free
<1>3. \A j \in Jobs : rows[j].state = "none" /\ task[j] = "none" /\ performs[j] = 0
  BY DEF Init, NoRow
<1>4. sweep.ids = {} /\ slotHeld = {}
  BY DEF Init
<1>5. ClaimRows /\ PerformedRows /\ SlotLock /\ DoomedRows /\ NoConcurrentPerform
  BY <1>2, <1>4
  DEF ClaimRows, PerformedRows, SlotLock, DoomedRows, NoConcurrentPerform, ClaimPcs, AtWork
<1>6. UnknownBefore
  BY <1>2, <1>3, <1>4, CloudTaskAssumption DEF UnknownBefore
<1>7. AttemptsExact
  BY <1>3, CloudTaskAssumption DEF AttemptsExact
<1>8. QED BY <1>1, <1>5, <1>6, <1>7 DEF IInv

\* What the counters say of a row.
CountedRow(j) ==
  /\ performs[j] <= MaxAttempts
  /\ rows[j].state \in {"pending", "finished", "failed"} => rows[j].attempts = performs[j]
  /\ rows[j].state = "executing" =>
       \/ rows[j].attempts = performs[j]
       \/ /\ rows[j].attempts = performs[j] + 1
          /\ \A p \in Pushes : push[p].job = j => push[p].pc # "performing"
  /\ rows[j].state = "failed" => performs[j] = MaxAttempts

\* The commit of p's claim.
ClaimedBy(p, j) ==
  /\ push[p].pc \in ClaimPcs /\ j = push[p].job
  /\ rows'[j].state = "executing" /\ rows'[j].attempts = push[p].attempts

\* A push that ends, however it ends, leaves every other push what it relies on.
LEMMA PushEnds ==
  ASSUME IInv, TypeOK', NEW p \in Pushes,
         push' = [push EXCEPT ![p] = Free],
         \A j \in Jobs : SameRow(j) \/ RecordedBy(p, j) \/ ClaimedBy(p, j),
         \A j \in Jobs : enq[j] = "no" => task'[j] = "none",
         slotHeld' \subseteq slotHeld, slotHeld \ {p} \subseteq slotHeld',
         UNCHANGED <<now, keyed, enq, sweep, performs>>
  PROVE  IInv'
<1>1. /\ \A q \in Pushes : q # p => push'[q] = push[q]
      /\ push'[p].pc = "free" /\ push'[p].job = NoJob
  BY DEF IInv, TypeOK, Free
<1>2. ASSUME NEW q \in Pushes, push'[q].pc # "free" \/ push'[q].job \in Jobs
      PROVE  q # p /\ push'[q] = push[q]
  BY <1>1, <1>2, CloudTaskAssumption
<1>3. \A q \in Pushes : push[q].pc \in ClaimPcs => push[q].job \in Jobs
  BY DEF IInv, ClaimRows
<1>4. ClaimRows'
  <2> SUFFICES ASSUME NEW q \in Pushes, push'[q].pc \in ClaimPcs
               PROVE  /\ push'[q].job \in Jobs /\ push'[q].at <= now
                      /\ push'[q].pc = "marked" <=> push'[q].job \notin keyed
                      /\ rows'[push'[q].job].state = "pending"
                      /\ push'[q].attempts = rows'[push'[q].job].attempts + 1
                      /\ push'[q].attempts <= MaxAttempts
                      /\ \A r \in Pushes :
                           push'[r].job = push'[q].job /\ push'[r].pc \in ClaimPcs => r = q
    BY DEF ClaimRows, LockedBy
  <2>1. q # p /\ push'[q] = push[q]
    BY <1>2 DEF ClaimPcs
  <2>2. /\ push[q].job \in Jobs /\ push[q].at <= now
        /\ push[q].pc = "marked" <=> push[q].job \notin keyed
        /\ rows[push[q].job].state = "pending"
        /\ push[q].attempts = rows[push[q].job].attempts + 1
        /\ push[q].attempts <= MaxAttempts
    BY <2>1 DEF IInv, ClaimRows
  <2>3. SameRow(push[q].job)
    BY <2>1, <2>2 DEF RecordedBy, ClaimedBy, IInv, ClaimRows, LockedBy
  <2>4. ASSUME NEW r \in Pushes, push'[r].job = push'[q].job, push'[r].pc \in ClaimPcs
        PROVE  r = q
    <3>1. push'[r] = push[r]
      BY <1>2, <2>4 DEF ClaimPcs
    <3>2. QED BY <2>1, <2>4, <3>1 DEF LockedBy, IInv, ClaimRows
  <2>5. QED BY <2>1, <2>2, <2>3, <2>4 DEF SameRow
<1>5. PerformedRows'
  <2> SUFFICES ASSUME NEW q \in Pushes, push'[q].pc \in AtWork
               PROVE  /\ push'[q].job \in Jobs
                      /\ rows'[push'[q].job].state \in {"executing", "none"}
                      /\ rows'[push'[q].job].state = "executing" =>
                           rows'[push'[q].job].attempts = push'[q].attempts
                      /\ push'[q].attempts <= MaxAttempts
                      /\ push'[q].attempts
                           = performs[push'[q].job] + (IF push'[q].pc = "claimed" THEN 1 ELSE 0)
    BY DEF PerformedRows
  <2>1. q # p /\ push'[q] = push[q]
    BY <1>2 DEF AtWork
  <2>2. ~RecordedBy(p, push[q].job)
    BY <2>1 DEF IInv, NoConcurrentPerform, RecordedBy, AtWork
  <2>3. ~ClaimedBy(p, push[q].job)
    BY <2>1 DEF IInv, PerformedRows, ClaimRows, ClaimedBy
  <2>4. SameRow(push[q].job) /\ push[q].pc \in AtWork /\ push[q].job \in Jobs
    BY <2>1, <2>2, <2>3 DEF IInv, PerformedRows
  <2>5. QED BY <2>1, <2>4 DEF IInv, PerformedRows, SameRow
<1>6. UnknownBefore'
  <2> SUFFICES ASSUME NEW j \in Jobs, enq[j] = "no"
               PROVE  /\ rows'[j].state = "none" /\ task'[j] = "none" /\ performs[j] = 0
                      /\ j \notin sweep.ids
                      /\ \A q \in Pushes : push'[q].job # j
    BY DEF UnknownBefore
  <2>1. /\ rows[j].state = "none" /\ performs[j] = 0 /\ j \notin sweep.ids
        /\ \A q \in Pushes : push[q].job # j
    BY DEF IInv, UnknownBefore
  <2>2. QED BY <1>2, <2>1 DEF SameRow, RecordedBy, ClaimedBy
<1>7. DoomedRows'
  <2>1. \A j \in sweep.ids : j \in Jobs /\ SameRow(j)
    BY DEF IInv, TypeOK, DoomedRows, RecordedBy, ClaimedBy, ClaimRows
  <2>2. QED BY <2>1 DEF IInv, DoomedRows, SameRow
<1>8. SlotLock'
  BY <1>2 DEF IInv, SlotLock
<1>9. NoConcurrentPerform'
  BY <1>2 DEF IInv, NoConcurrentPerform, AtWork
<1>10. AttemptsExact'
  <2> SUFFICES ASSUME NEW j \in Jobs PROVE CountedRow(j)'
    BY DEF AttemptsExact, CountedRow
  <2>1. CountedRow(j) /\ performs[j] \in Nat
    BY DEF IInv, TypeOK, AttemptsExact, CountedRow
  <2>2. \A q \in Pushes : push'[q].job = j => push'[q].pc = push[q].pc /\ push[q].job = j
    BY <1>2
  <2>3. CASE SameRow(j)
    BY <2>1, <2>2, <2>3 DEF SameRow, CountedRow
  <2>4. CASE RecordedBy(p, j)
    <3>1. rows'[j].attempts = performs[j]
      BY <2>1, <2>4 DEF RecordedBy, IInv, PerformedRows, AtWork
    <3>2. rows'[j].state = "failed" => performs[j] = MaxAttempts
      BY <2>1, <2>4, <3>1, CloudTaskAssumption DEF RecordedBy, IInv, PerformedRows, AtWork
    <3>3. QED BY <2>1, <2>4, <3>1, <3>2 DEF RecordedBy, CountedRow
  <2>5. CASE ClaimedBy(p, j)
    <3>1. rows'[j].attempts = performs[j] + 1
      BY <2>1, <2>5 DEF ClaimedBy, IInv, ClaimRows, CountedRow
    <3>2. \A q \in Pushes : push'[q].job = j => push'[q].pc # "performing"
      BY <2>2, <2>5 DEF ClaimedBy, IInv, ClaimRows, PerformedRows, AtWork
    <3>3. QED BY <2>1, <2>5, <3>1, <3>2 DEF ClaimedBy, CountedRow
  <2>6. QED BY <2>3, <2>4, <2>5
<1>11. QED BY <1>4, <1>5, <1>6, <1>7, <1>8, <1>9, <1>10 DEF IInv

\* A push that moves on within its claim, or is given up by Cloud Tasks.
LEMMA PushMoves ==
  ASSUME IInv, TypeOK', NEW p \in Pushes, SlotLock',
         \A q \in Pushes : q # p => push'[q] = push[q],
         push'[p].job = push[p].job, push'[p].attempts = push[p].attempts,
         push'[p].at = push[p].at,
         push'[p].pc = push[p].pc \/ {push[p].pc, push'[p].pc} \subseteq ClaimPcs \ {"marked"},
         UNCHANGED <<now, keyed, rows, enq, task, sweep, performs>>
  PROVE  IInv'
<1>1. ASSUME NEW q \in Pushes
      PROVE  /\ push'[q].job = push[q].job
             /\ push'[q].attempts = push[q].attempts /\ push'[q].at = push[q].at
             /\ push'[q].pc \in ClaimPcs <=> push[q].pc \in ClaimPcs
             /\ push'[q].pc = "marked" <=> push[q].pc = "marked"
             /\ push'[q].pc \in AtWork => push'[q].pc = push[q].pc
             /\ push'[q].pc = "performing" => push[q].pc = "performing"
  BY <1>1 DEF ClaimPcs, AtWork
<1>2. ClaimRows'
  BY <1>1 DEF IInv, ClaimRows, LockedBy
<1>3. PerformedRows' /\ UnknownBefore' /\ DoomedRows'
  BY <1>1 DEF IInv, PerformedRows, UnknownBefore, DoomedRows
<1>4. NoConcurrentPerform' /\ AttemptsExact'
  BY <1>1 DEF IInv, NoConcurrentPerform, AttemptsExact
<1>5. QED BY <1>2, <1>3, <1>4 DEF IInv

\* Enqueue and cleanup insert a row nobody knows of, delete one nobody has
\* locked, or leave the row alone.
InsertedRow(j) ==
  /\ enq[j] = "no" /\ enq'[j] # "no"
  /\ rows'[j].state = "pending" /\ rows'[j].attempts = 0

DeletedRow(j) == rows'[j].state = "none" /\ enq'[j] # "no" /\ ~RowLocked(j)

LEMMA RowsMove ==
  ASSUME IInv, TypeOK', now' >= now,
         \A j \in Jobs : SameRow(j) \/ InsertedRow(j) \/ DeletedRow(j),
         \A j \in Jobs : enq'[j] = "no" => enq[j] = "no" /\ task'[j] = task[j],
         \A j \in sweep'.ids : j \in sweep.ids \/ (j \in Settled /\ SameRow(j)),
         UNCHANGED <<keyed, push, slotHeld, performs>>
  PROVE  IInv'
<1>1. ClaimRows'
  <2> SUFFICES ASSUME NEW p \in Pushes, push[p].pc \in ClaimPcs
               PROVE  /\ push[p].job \in Jobs /\ push[p].at <= now'
                      /\ push[p].pc = "marked" <=> push[p].job \notin keyed
                      /\ rows'[push[p].job].state = "pending"
                      /\ push[p].attempts = rows'[push[p].job].attempts + 1
                      /\ push[p].attempts <= MaxAttempts
                      /\ \A q \in Pushes : LockedBy(q, push[p].job) => q = p
    BY DEF ClaimRows, LockedBy
  <2>1. /\ push[p].job \in Jobs /\ push[p].at <= now
        /\ push[p].pc = "marked" <=> push[p].job \notin keyed
        /\ rows[push[p].job].state = "pending"
        /\ push[p].attempts = rows[push[p].job].attempts + 1
        /\ push[p].attempts <= MaxAttempts
        /\ \A q \in Pushes : LockedBy(q, push[p].job) => q = p
    BY DEF IInv, ClaimRows
  <2>2. push[p].at <= now'
    BY <2>1 DEF IInv, TypeOK
  <2>3. SameRow(push[p].job)
    BY <2>1, <2>2 DEF InsertedRow, DeletedRow, RowLocked, LockedBy, IInv, UnknownBefore
  <2>4. QED BY <2>1, <2>2, <2>3 DEF SameRow
<1>2. PerformedRows'
  <2> SUFFICES ASSUME NEW p \in Pushes, push[p].pc \in AtWork
               PROVE  /\ push[p].job \in Jobs
                      /\ rows'[push[p].job].state \in {"executing", "none"}
                      /\ rows'[push[p].job].state = "executing" =>
                           rows'[push[p].job].attempts = push[p].attempts
                      /\ push[p].attempts <= MaxAttempts
                      /\ push[p].attempts
                           = performs[push[p].job] + (IF push[p].pc = "claimed" THEN 1 ELSE 0)
    BY DEF PerformedRows
  <2>1. push[p].job \in Jobs
    BY DEF IInv, PerformedRows
  <2>2. SameRow(push[p].job) \/ DeletedRow(push[p].job)
    BY <2>1 DEF InsertedRow, IInv, UnknownBefore
  <2>3. QED BY <2>1, <2>2 DEF SameRow, DeletedRow, IInv, PerformedRows
<1>3. UnknownBefore'
  <2> SUFFICES ASSUME NEW j \in Jobs, enq'[j] = "no"
               PROVE  /\ rows'[j].state = "none" /\ task'[j] = "none" /\ performs[j] = 0
                      /\ j \notin sweep'.ids
                      /\ \A p \in Pushes : push[p].job # j
    BY DEF UnknownBefore
  <2>1. enq[j] = "no" /\ task'[j] = task[j] /\ SameRow(j)
    BY DEF InsertedRow, DeletedRow
  <2>2. QED BY <2>1 DEF IInv, UnknownBefore, SameRow, Settled
<1>4. DoomedRows'
  <2> SUFFICES ASSUME NEW j \in sweep'.ids
               PROVE  rows'[j].state \in {"finished", "failed", "none"}
    BY DEF DoomedRows
  <2>1. CASE j \in sweep.ids
    <3>1. j \in Jobs /\ rows[j].state \in {"finished", "failed", "none"}
      BY <2>1 DEF IInv, TypeOK, DoomedRows
    <3>2. ~InsertedRow(j)
      BY <2>1, <3>1 DEF InsertedRow, IInv, UnknownBefore
    <3>3. QED BY <3>1, <3>2 DEF SameRow, DeletedRow
  <2>2. CASE j \in Settled /\ SameRow(j)
    BY <2>2 DEF Settled, SameRow
  <2>3. QED BY <2>1, <2>2
<1>5. SlotLock' /\ NoConcurrentPerform'
  BY DEF IInv, SlotLock, NoConcurrentPerform
<1>6. AttemptsExact'
  <2> SUFFICES ASSUME NEW j \in Jobs PROVE CountedRow(j)'
    BY DEF AttemptsExact, CountedRow
  <2>0. CountedRow(j)
    BY DEF IInv, AttemptsExact, CountedRow
  <2>1. CASE SameRow(j)
    BY <2>0, <2>1 DEF SameRow, CountedRow
  <2>2. CASE InsertedRow(j)
    BY <2>0, <2>2 DEF InsertedRow, IInv, CountedRow, UnknownBefore
  <2>3. CASE DeletedRow(j)
    BY <2>0, <2>3 DEF DeletedRow, CountedRow
  <2>4. QED BY <2>1, <2>2, <2>3
<1>7. QED BY <1>1, <1>2, <1>3, <1>4, <1>5, <1>6 DEF IInv

\* A claim takes a pending row that nobody has locked and that has an attempt
\* left.
LEMMA ClaimStarts ==
  ASSUME IInv, TypeOK', NEW p \in Pushes, NEW j \in Jobs, DeliverClaim(p, j)
  PROVE  IInv'
<1>1. /\ ~RowLocked(j) /\ rows[j].state = "pending" /\ rows[j].attempts < MaxAttempts
      /\ rows[j].attempts \in Nat /\ now \in Nat
      /\ enq[j] # "no" /\ push[p].pc = "free"
  BY CloudTaskAssumption DEF DeliverClaim, Skipped, IInv, TypeOK, UnknownBefore
<1>2. /\ \A q \in Pushes : q # p => push'[q] = push[q]
      /\ push'[p].job = j /\ push'[p].attempts = rows[j].attempts + 1 /\ push'[p].at = now
      /\ push'[p].pc = IF j \in keyed THEN "claiming" ELSE "marked"
  BY DEF DeliverClaim, IInv, TypeOK
<1>3. \A q \in Pushes : ~(push[q].job = j /\ push[q].pc \in ClaimPcs \cup AtWork)
  BY <1>1 DEF RowLocked, LockedBy, IInv, PerformedRows
<1>4. UNCHANGED <<now, keyed, rows, enq, task, slotHeld, sweep, performs>>
  BY DEF DeliverClaim
<1>5. push'[p].pc \in ClaimPcs /\ push'[p].pc \notin AtWork \cup {"counting", "within", "over"}
  BY <1>2 DEF ClaimPcs, AtWork
<1>6. ClaimRows'
  <2> SUFFICES ASSUME NEW q \in Pushes, push'[q].pc \in ClaimPcs
               PROVE  /\ push'[q].job \in Jobs /\ push'[q].at <= now
                      /\ push'[q].pc = "marked" <=> push'[q].job \notin keyed
                      /\ rows[push'[q].job].state = "pending"
                      /\ push'[q].attempts = rows[push'[q].job].attempts + 1
                      /\ push'[q].attempts <= MaxAttempts
                      /\ \A r \in Pushes :
                           push'[r].job = push'[q].job /\ push'[r].pc \in ClaimPcs => r = q
    BY <1>4 DEF ClaimRows, LockedBy
  <2>1. CASE q = p
    BY <1>1, <1>2, <1>3, <2>1, CloudTaskAssumption
  <2>2. CASE q # p
    BY <1>1, <1>2, <1>3, <2>2 DEF IInv, ClaimRows, LockedBy
  <2>3. QED BY <2>1, <2>2
<1>7. PerformedRows' /\ DoomedRows'
  BY <1>2, <1>4, <1>5 DEF IInv, PerformedRows, DoomedRows
<1>8. AttemptsExact'
  <2>1. \A q \in Pushes : push'[q].pc = "performing" => push'[q] = push[q]
    BY <1>2, <1>5 DEF AtWork
  <2>2. QED BY <1>4, <2>1 DEF IInv, AttemptsExact
<1>9. UnknownBefore' /\ SlotLock' /\ NoConcurrentPerform'
  <2>1. UnknownBefore'
    BY <1>1, <1>2, <1>4 DEF IInv, UnknownBefore
  <2>2. SlotLock'
    BY <1>2, <1>4, <1>5 DEF IInv, SlotLock
  <2>3. NoConcurrentPerform'
    BY <1>2, <1>5 DEF IInv, NoConcurrentPerform
  <2>4. QED BY <2>1, <2>2, <2>3
<1>10. QED BY <1>6, <1>7, <1>8, <1>9 DEF IInv

\* The commit of a claim makes the row executing and uses one attempt, ahead
\* of the dispatch.
LEMMA ClaimCommits ==
  ASSUME IInv, TypeOK', NEW p \in Pushes, ClaimExecute(p)
  PROVE  IInv'
<1> DEFINE j == push[p].job
<1>0. push[p].pc \in ClaimPcs
  BY DEF ClaimExecute, CommitClaim, ClaimPcs
<1>1. /\ j \in Jobs /\ rows[j].state = "pending" /\ rows[j].attempts \in Nat
      /\ push[p].attempts = rows[j].attempts + 1 /\ push[p].attempts <= MaxAttempts
      /\ performs[j] = rows[j].attempts /\ enq[j] # "no"
      /\ \A q \in Pushes : push[q].job = j /\ push[q].pc \in ClaimPcs => q = p
  <2>1. j \in Jobs
    BY <1>0 DEF IInv, ClaimRows
  <2>2. QED
    BY <1>0, <2>1 DEF IInv, TypeOK, ClaimRows, LockedBy, AttemptsExact, UnknownBefore
<1>2. /\ \A q \in Pushes : q # p => push'[q] = push[q]
      /\ push'[p].job = j /\ push'[p].attempts = push[p].attempts
      /\ push'[p].pc = "claimed"
  BY DEF ClaimExecute, IInv, TypeOK
<1>3. /\ rows'[j].state = "executing" /\ rows'[j].attempts = push[p].attempts
      /\ \A k \in Jobs : k # j => rows'[k] = rows[k]
  BY <1>1 DEF ClaimExecute, CommitClaim, IInv, TypeOK
<1>4. UNCHANGED <<now, keyed, enq, task, sweep, performs>> /\ slotHeld' = slotHeld \ {p}
  BY DEF ClaimExecute, CommitClaim
<1>5. \A q \in Pushes : q # p =>
        ~(push[q].job = j /\ push[q].pc \in ClaimPcs \cup AtWork)
  BY <1>1 DEF IInv, PerformedRows
<1>6. ClaimRows'
  <2> SUFFICES ASSUME NEW q \in Pushes, push'[q].pc \in ClaimPcs
               PROVE  /\ push'[q].job \in Jobs /\ push'[q].at <= now
                      /\ push'[q].pc = "marked" <=> push'[q].job \notin keyed
                      /\ rows'[push'[q].job].state = "pending"
                      /\ push'[q].attempts = rows'[push'[q].job].attempts + 1
                      /\ push'[q].attempts <= MaxAttempts
                      /\ \A r \in Pushes :
                           push'[r].job = push'[q].job /\ push'[r].pc \in ClaimPcs => r = q
    BY <1>4 DEF ClaimRows, LockedBy
  <2>1. q # p /\ push'[q] = push[q]
    BY <1>2 DEF ClaimPcs
  <2>2. push[q].job # j /\ push[q].job \in Jobs
    BY <1>5, <2>1 DEF IInv, ClaimRows
  <2>3. \A r \in Pushes : push'[r].job = push[q].job => push'[r] = push[r]
    BY <1>2, <2>2
  <2>4. QED BY <1>3, <2>1, <2>2, <2>3 DEF IInv, ClaimRows, LockedBy
<1>7. PerformedRows'
  <2> SUFFICES ASSUME NEW q \in Pushes, push'[q].pc \in AtWork
               PROVE  /\ push'[q].job \in Jobs
                      /\ rows'[push'[q].job].state \in {"executing", "none"}
                      /\ rows'[push'[q].job].state = "executing" =>
                           rows'[push'[q].job].attempts = push'[q].attempts
                      /\ push'[q].attempts <= MaxAttempts
                      /\ push'[q].attempts
                           = performs[push'[q].job] + (IF push'[q].pc = "claimed" THEN 1 ELSE 0)
    BY <1>4 DEF PerformedRows
  <2>1. CASE q = p
    BY <1>1, <1>2, <1>3, <2>1
  <2>2. CASE q # p
    BY <1>2, <1>3, <1>5, <2>2 DEF IInv, PerformedRows
  <2>3. QED BY <2>1, <2>2
<1>8. UnknownBefore'
  <2> SUFFICES ASSUME NEW k \in Jobs, enq[k] = "no"
               PROVE  /\ rows'[k].state = "none" /\ task[k] = "none" /\ performs[k] = 0
                      /\ k \notin sweep.ids /\ \A q \in Pushes : push'[q].job # k
    BY <1>4 DEF UnknownBefore
  <2>1. k # j
    BY <1>1
  <2>2. QED BY <1>2, <1>3, <2>1 DEF IInv, UnknownBefore
<1>9. DoomedRows' /\ SlotLock'
  <2>1. DoomedRows'
    BY <1>1, <1>3, <1>4 DEF IInv, TypeOK, DoomedRows
  <2>2. SlotLock'
    BY <1>2, <1>4 DEF IInv, SlotLock
  <2>3. QED BY <2>1, <2>2
<1>10. NoConcurrentPerform'
  BY <1>2, <1>5 DEF IInv, NoConcurrentPerform
<1>11. AttemptsExact'
  <2> SUFFICES ASSUME NEW k \in Jobs PROVE CountedRow(k)'
    BY DEF AttemptsExact, CountedRow
  <2>1. CountedRow(k)
    BY DEF IInv, AttemptsExact, CountedRow
  <2>2. \A q \in Pushes : push'[q].pc = "performing" => push'[q] = push[q] /\ q # p
    BY <1>2
  <2>3. CASE k = j
    <3>1. \A q \in Pushes : push'[q].job = j => push'[q].pc # "performing"
      BY <1>5, <2>2 DEF AtWork
    <3>2. QED BY <1>1, <1>3, <1>4, <2>1, <2>3, <3>1 DEF CountedRow
  <2>4. CASE k # j
    BY <1>3, <1>4, <2>1, <2>2, <2>4 DEF CountedRow
  <2>5. QED BY <2>3, <2>4
<1>12. QED BY <1>6, <1>7, <1>8, <1>9, <1>10, <1>11 DEF IInv

\* The dispatch of a claimed job catches up with its row.
LEMMA JobDispatched ==
  ASSUME IInv, TypeOK', NEW p \in Pushes, Dispatch(p)
  PROVE  IInv'
<1> DEFINE j == push[p].job
<1>1. /\ push[p].pc = "claimed" /\ push[p].pc \in AtWork /\ push[p].pc \notin ClaimPcs
      /\ j \in Jobs /\ rows[j].state \in {"executing", "none"}
      /\ rows[j].state = "executing" => rows[j].attempts = push[p].attempts
      /\ push[p].attempts <= MaxAttempts /\ push[p].attempts = performs[j] + 1
  BY DEF Dispatch, IInv, PerformedRows, AtWork, ClaimPcs
<1>2. /\ \A q \in Pushes : q # p => push'[q] = push[q]
      /\ push'[p].job = j /\ push'[p].attempts = push[p].attempts
      /\ push'[p].pc = "performing"
  BY DEF Dispatch, IInv, TypeOK
<1>3. /\ performs'[j] = performs[j] + 1
      /\ \A k \in Jobs : k # j => performs'[k] = performs[k]
  BY <1>1 DEF Dispatch, IInv, TypeOK
<1>4. UNCHANGED <<now, keyed, rows, enq, task, slotHeld, sweep>>
  BY DEF Dispatch
<1>5. \A q \in Pushes : push[q].pc \in AtWork /\ push[q].job = j => q = p
  BY <1>1 DEF IInv, NoConcurrentPerform
<1>6. \A q \in Pushes : push'[q].pc \in ClaimPcs => push'[q] = push[q]
  BY <1>2 DEF ClaimPcs
<1>7. ClaimRows'
  BY <1>4, <1>6 DEF IInv, ClaimRows, LockedBy
<1>8. PerformedRows'
  <2> SUFFICES ASSUME NEW q \in Pushes, push'[q].pc \in AtWork
               PROVE  /\ push'[q].job \in Jobs
                      /\ rows[push'[q].job].state \in {"executing", "none"}
                      /\ rows[push'[q].job].state = "executing" =>
                           rows[push'[q].job].attempts = push'[q].attempts
                      /\ push'[q].attempts <= MaxAttempts
                      /\ push'[q].attempts
                           = performs'[push'[q].job] + (IF push'[q].pc = "claimed" THEN 1 ELSE 0)
    BY <1>4 DEF PerformedRows
  <2>1. CASE q = p
    <3>1. performs[j] \in Nat
      BY <1>1 DEF IInv, TypeOK
    <3>2. QED BY <1>1, <1>2, <1>3, <2>1, <3>1
  <2>2. CASE q # p
    BY <1>2, <1>3, <1>5, <2>2 DEF IInv, PerformedRows
  <2>3. QED BY <2>1, <2>2
<1>9. UnknownBefore'
  <2>1. \A q \in Pushes : push'[q].job = push[q].job
    BY <1>2
  <2>2. enq[j] # "no"
    BY <1>1 DEF IInv, UnknownBefore
  <2>3. QED BY <1>3, <1>4, <2>1, <2>2 DEF IInv, UnknownBefore
<1>10. DoomedRows' /\ SlotLock'
  BY <1>2, <1>4 DEF IInv, DoomedRows, SlotLock
<1>11. NoConcurrentPerform'
  BY <1>1, <1>2, <1>5 DEF IInv, NoConcurrentPerform
<1>12. AttemptsExact'
  <2> SUFFICES ASSUME NEW k \in Jobs PROVE CountedRow(k)'
    BY DEF AttemptsExact, CountedRow
  <2>1. CountedRow(k) /\ performs[k] \in Nat
    BY DEF IInv, TypeOK, AttemptsExact, CountedRow
  <2>2. CASE k = j
    BY <1>1, <1>3, <1>4, <2>1, <2>2 DEF CountedRow
  <2>3. CASE k # j
    <3>1. \A q \in Pushes : push'[q].job = k => push'[q] = push[q]
      BY <1>2, <2>3
    <3>2. QED BY <1>3, <1>4, <2>1, <2>3, <3>1 DEF CountedRow
  <2>4. QED BY <2>2, <2>3
<1>13. QED BY <1>7, <1>8, <1>9, <1>10, <1>11, <1>12 DEF IInv

LEMMA NextInv == IInv /\ [Next]_vars => IInv'
<1> SUFFICES ASSUME IInv, [Next]_vars PROVE IInv'
  OBVIOUS
<1>0. TypeOK /\ TypeOK'
  BY NextTypeOK DEF IInv
<1>1. ASSUME NEW j \in Jobs, EnqueueStep(j) PROVE IInv'
  <2>0. \A k \in Jobs : enq'[k] = "no" => enq[k] = "no" /\ task'[k] = task[k]
    BY <1>0, <1>1 DEF EnqueueStep, EnqueueInsert, EnqueueCreated, EnqueueCreateFails,
                      EnqueueUndo, TypeOK
  <2>1. \A k \in Jobs : SameRow(k) \/ InsertedRow(k) \/ DeletedRow(k)
    <3>1. CASE EnqueueInsert(j)
      BY <1>0, <3>1 DEF EnqueueInsert, SameRow, InsertedRow, TypeOK
    <3>2. CASE EnqueueUndo(j)
      BY <1>0, <3>2 DEF EnqueueUndo, SameRow, DeletedRow, NoRow, TypeOK
    <3>3. CASE EnqueueCreated(j) \/ EnqueueCreateFails(j)
      BY <3>3 DEF EnqueueCreated, EnqueueCreateFails, SameRow
    <3>4. QED BY <1>1, <3>1, <3>2, <3>3 DEF EnqueueStep
  <2>2. now' >= now /\ UNCHANGED <<keyed, push, slotHeld, performs, sweep>>
    BY <1>0, <1>1 DEF EnqueueStep, EnqueueInsert, EnqueueCreated, EnqueueCreateFails,
                      EnqueueUndo, TypeOK
  <2>3. QED BY <1>0, <2>0, <2>1, <2>2, RowsMove
<1>2. ASSUME NEW j \in Jobs, NEW p \in Pushes, DeliverSkip(p, j) PROVE IInv'
  <2>1. enq[j] # "no"
    BY <1>2 DEF DeliverSkip, IInv, UnknownBefore
  <2>2. \A k \in Jobs : SameRow(k) /\ (enq'[k] = "no" => enq[k] = "no" /\ task'[k] = task[k])
    BY <1>0, <1>2, <2>1 DEF DeliverSkip, SameRow, TypeOK
  <2>3. QED BY <1>0, <1>2, <2>2, RowsMove DEF DeliverSkip, TypeOK
<1>3. ASSUME NEW j \in Jobs, NEW p \in Pushes, DeliverClaim(p, j) PROVE IInv'
  BY <1>0, <1>3, ClaimStarts
<1>4. ASSUME NEW p \in Pushes, UpsertSlot(p) \/ LockSlot(p) \/ CountActive(p) \/ Timeout(p)
      PROVE  IInv'
  <2>1. /\ \A q \in Pushes : q # p => push'[q] = push[q]
        /\ push'[p].job = push[p].job /\ push'[p].attempts = push[p].attempts
        /\ push'[p].at = push[p].at
        /\ \/ push'[p].pc = push[p].pc
           \/ {push[p].pc, push'[p].pc} \subseteq ClaimPcs \ {"marked"}
    BY <1>0, <1>4 DEF UpsertSlot, LockSlot, CountActive, Timeout, TypeOK, ClaimPcs
  <2>2. SlotLock'
    <3>1. CASE UpsertSlot(p)
      BY <1>0, <2>1, <3>1 DEF UpsertSlot, IInv, SlotLock, TypeOK
    <3>2. CASE LockSlot(p)
      BY <1>0, <2>1, <3>2 DEF LockSlot, IInv, SlotLock, TypeOK
    <3>3. CASE CountActive(p)
      BY <1>0, <2>1, <3>3 DEF CountActive, IInv, SlotLock, TypeOK
    <3>4. CASE Timeout(p)
      BY <1>0, <2>1, <3>4 DEF Timeout, IInv, SlotLock, TypeOK
    <3>5. QED BY <1>4, <3>1, <3>2, <3>3, <3>4
  <2>3. UNCHANGED <<now, keyed, rows, enq, task, sweep, performs>>
    BY <1>4 DEF UpsertSlot, LockSlot, CountActive, Timeout
  <2>4. QED BY <1>0, <2>1, <2>2, <2>3, PushMoves
<1>5. ASSUME NEW p \in Pushes, ClaimExecute(p) \/ Dispatch(p) PROVE IInv'
  BY <1>0, <1>5, ClaimCommits, JobDispatched
<1>6. ASSUME NEW p \in Pushes,
             ClaimDeferred(p) \/ ClaimError(p) \/ Crash(p) \/ ClaimAnswerLost(p)
      PROVE  IInv'
  <2>1. \A j \in Jobs : SameRow(j) \/ ClaimedBy(p, j)
    <3>0. CASE ClaimAnswerLost(p)
      BY <1>0, <3>0 DEF ClaimAnswerLost, CommitClaim, SameRow, ClaimedBy, ClaimPcs, TypeOK
    <3>1. CASE ClaimDeferred(p)
      BY <1>0, <3>1 DEF ClaimDeferred, SameRow, TypeOK
    <3>2. CASE ClaimError(p) \/ Crash(p)
      BY <3>2 DEF ClaimError, Crash, SameRow
    <3>3. QED BY <1>6, <3>0, <3>1, <3>2
  <2>2. task' = task
    BY <1>6 DEF ClaimDeferred, ClaimError, Crash, ClaimAnswerLost, Answer
  <2>3. /\ push' = [push EXCEPT ![p] = Free] /\ slotHeld' = slotHeld \ {p}
        /\ UNCHANGED <<now, keyed, enq, sweep, performs>>
    BY <1>6 DEF ClaimDeferred, ClaimError, Crash, ClaimAnswerLost, CommitClaim, Answer
  <2>4. QED BY <1>0, <2>1, <2>2, <2>3, PushEnds DEF IInv, UnknownBefore
<1>7. ASSUME NEW p \in Pushes, Succeed(p) \/ Fail(p) PROVE IInv'
  <2> DEFINE j == push[p].job
  <2>1. push[p].pc = "performing" /\ j \in Jobs /\ rows[j].state \in {"executing", "none"}
    BY <1>7 DEF Succeed, Fail, IInv, PerformedRows, AtWork
  <2>2. enq[j] # "no"
    BY <2>1 DEF IInv, UnknownBefore
  <2>3. \A k \in Jobs : SameRow(k) \/ RecordedBy(p, k)
    <3>1. ASSUME NEW st \in {"finished", "failed", "pending"},
                 st = "failed" => push[p].attempts >= MaxAttempts,
                 Write(p, [rows[j] EXCEPT !.state = st])
          PROVE  \A k \in Jobs : SameRow(k) \/ RecordedBy(p, k)
      <4>1. CASE rows' = rows
        BY <4>1 DEF SameRow
      <4>2. CASE rows' = [rows EXCEPT ![j] =
                            IF @.state = "none" THEN NoRow ELSE [rows[j] EXCEPT !.state = st]]
        <5>1. \A k \in Jobs : k # j => rows'[k] = rows[k]
          BY <1>0, <4>2 DEF TypeOK
        <5>2. CASE rows[j].state = "none"
          BY <1>0, <2>1, <4>2, <5>1, <5>2 DEF SameRow, NoRow, TypeOK
        <5>3. CASE rows[j].state = "executing"
          <6>1. rows'[j].state = st /\ rows'[j].attempts = rows[j].attempts
            BY <1>0, <2>1, <4>2, <5>3 DEF TypeOK
          <6>2. QED BY <2>1, <3>1, <5>1, <5>3, <6>1 DEF SameRow, RecordedBy
        <5>4. QED BY <2>1, <5>2, <5>3
      <4>3. QED BY <3>1, <4>1, <4>2 DEF Write
    <3>2. CASE Succeed(p)
      BY <3>1, <3>2 DEF Succeed
    <3>3. CASE Fail(p)
      BY <3>1, <3>3 DEF Fail
    <3>4. QED BY <1>7, <3>2, <3>3
  <2>4. \A k \in Jobs : enq[k] = "no" => task'[k] = "none"
    <3>1. \A k \in Jobs : k # j => task'[k] = task[k]
      BY <1>0, <1>7 DEF Succeed, Fail, Answer, TypeOK
    <3>2. QED BY <2>2, <3>1 DEF IInv, UnknownBefore
  <2>5. /\ push' = [push EXCEPT ![p] = Free]
        /\ UNCHANGED <<now, keyed, enq, slotHeld, sweep, performs>>
    BY <1>7 DEF Succeed, Fail, Answer
  <2>6. QED BY <1>0, <2>3, <2>4, <2>5, PushEnds
<1>8. CASE Cleanup \/ Tick \/ UNCHANGED vars
  <2>1. \A j \in Jobs : SameRow(j) \/ DeletedRow(j)
    <3>1. CASE CleanupDelete
      <4>1. ASSUME NEW j \in sweep.ids PROVE enq[j] # "no" /\ ~RowLocked(j)
        <5>1. j \in Jobs /\ rows[j].state # "pending"
          BY DEF IInv, TypeOK, DoomedRows
        <5>2. enq[j] # "no"
          BY <5>1 DEF IInv, UnknownBefore
        <5>3. ~RowLocked(j)
          BY <5>1 DEF IInv, ClaimRows, RowLocked, LockedBy
        <5>4. QED BY <5>2, <5>3
      <4>2. QED BY <1>0, <3>1, <4>1 DEF CleanupDelete, SameRow, DeletedRow, NoRow, TypeOK
    <3>2. CASE rows' = rows
      BY <3>2 DEF SameRow
    <3>3. QED
      BY <1>8, <3>1, <3>2 DEF Cleanup, CleanupSelect, CleanupCheckSlot, CleanupDeleteSlot,
                              Tick, vars
  <2>2. \A j \in sweep'.ids : j \in sweep.ids \/ (j \in Settled /\ SameRow(j))
    <3>1. CASE CleanupSelect
      BY <3>1 DEF CleanupSelect, SameRow, Settled
    <3>2. CASE CleanupDelete \/ CleanupCheckSlot \/ CleanupDeleteSlot \/ Tick \/ UNCHANGED vars
      BY <1>0, <3>2 DEF CleanupDelete, CleanupCheckSlot, CleanupDeleteSlot, Tick, vars, TypeOK
    <3>3. QED BY <1>8, <3>1, <3>2 DEF Cleanup
  <2>3. now' >= now /\ UNCHANGED <<keyed, enq, task, push, slotHeld, performs>>
    BY <1>0, <1>8 DEF Cleanup, CleanupSelect, CleanupDelete, CleanupCheckSlot,
                      CleanupDeleteSlot, Tick, vars, TypeOK
  <2>4. QED BY <1>0, <2>1, <2>2, <2>3, RowsMove
<1>9. QED
  BY <1>1, <1>2, <1>3, <1>4, <1>5, <1>6, <1>7, <1>8 DEF Next, Deliver, HandlerStep

LEMMA Inductive == Spec => []IInv
BY InitInv, NextInv, PTL DEF Spec

\* Two pushes never perform the same job at the same time: the claim of a row
\* by its state holds off every duplicate and every retry, for any number of
\* them, and through crashes, timeouts and Enqueue's undo.
THEOREM NoConcurrentPerformAlways == Spec => []NoConcurrentPerform
<1>1. IInv => NoConcurrentPerform
  BY DEF IInv
<1>2. QED BY <1>1, Inductive, PTL

\* The attempts column counts the dispatches, one ahead at most and only where
\* the claim was committed and the job not dispatched, and there are never more
\* than MaxAttempts of them.
THEOREM AttemptsExactAlways == Spec => []AttemptsExact
<1>1. IInv => AttemptsExact
  BY DEF IInv
<1>2. QED BY <1>1, Inductive, PTL

-----------------------------------------------------------------------------
(* The limit of the key.                                                   *)

Window == {j \in keyed : rows[j].state = "executing" /\ rows[j].lockedAt > now - Duration}
Counted(p) ==
  {j \in keyed : \/ j = push[p].job
                 \/ rows[j].state = "executing" /\ rows[j].lockedAt > push[p].at - Duration}

LimitInv == CountHolds /\ WindowLimit

\* A set of jobs of the key that shrinks stays within the limit.
LEMMA WithinLimit ==
  ASSUME NEW K \in KeyedSets, NEW T \in SUBSET K, NEW S \in SUBSET T, Cardinality(T) <= Limit
  PROVE  Cardinality(S) <= Limit
<1>1. IsFiniteSet(T)
  BY CloudTaskAssumption, FS_Subset
<1>2. /\ IsFiniteSet(S) /\ Cardinality(S) <= Cardinality(T)
      /\ Cardinality(S) \in Nat /\ Cardinality(T) \in Nat
  BY <1>1, FS_Subset, FS_CardinalityType
<1>3. QED BY <1>2, CloudTaskAssumption

\* No step but the commit of a claim adds an executing row of the key.
NoneAdded ==
  \A j \in keyed : rows'[j].state = "executing" =>
    rows[j].state = "executing" /\ rows'[j].lockedAt = rows[j].lockedAt

\* A count that was within the limit still is after such a step.
LEMMA LimitKept ==
  ASSUME IInv, LimitInv, NoneAdded, keyed' = keyed, now' \in Nat, now' >= now,
         \A p \in Pushes : push'[p].pc = "within" =>
           /\ push'[p].job = push[p].job /\ push'[p].at = push[p].at
           /\ ActiveCount(p) <= Limit
  PROVE  LimitInv'
<1>1. keyed \in KeyedSets /\ keyed \subseteq Jobs /\ now \in Nat
  BY CloudTaskAssumption DEF IInv, TypeOK
<1>2. WindowLimit'
  <2>1. \A j \in keyed : rows[j].lockedAt \in Int
    BY <1>1 DEF IInv, TypeOK
  <2>2. Window' \subseteq Window
    BY <1>1, <2>1, CloudTaskAssumption DEF Window, NoneAdded
  <2>3. Cardinality(Window) <= Limit
    BY DEF LimitInv, WindowLimit, Window
  <2>4. Window \subseteq keyed
    BY DEF Window
  <2>5. Cardinality(Window') <= Limit
    BY <1>1, <2>2, <2>3, <2>4, WithinLimit
  <2>6. QED BY <2>5 DEF WindowLimit, Window
<1>3. ASSUME NEW p \in Pushes, push'[p].pc = "within" PROVE ActiveCount(p)' <= Limit
  <2>1. Counted(p)' \subseteq Counted(p)
    BY <1>3 DEF Counted, NoneAdded
  <2>2. Cardinality(Counted(p)) <= Limit
    BY <1>3 DEF ActiveCount, Counted
  <2>3. Counted(p) \subseteq keyed
    BY DEF Counted
  <2>4. Cardinality(Counted(p)') <= Limit
    BY <1>1, <2>1, <2>2, <2>3, WithinLimit
  <2>5. QED BY <2>4 DEF ActiveCount, Counted
<1>4. QED BY <1>2, <1>3 DEF LimitInv, CountHolds

LEMMA InitLimit == Init => LimitInv
<1> SUFFICES ASSUME Init PROVE LimitInv
  OBVIOUS
<1>1. CountHolds
  BY DEF Init, Free, CountHolds
<1>2. Window = {} /\ Cardinality({}) = 0
  BY CloudTaskAssumption, FS_EmptySet DEF Init, NoRow, Window
<1>3. Cardinality(Window) <= Limit
  BY <1>2, CloudTaskAssumption
<1>4. QED BY <1>1, <1>3 DEF LimitInv, WindowLimit, Window

LEMMA NextLimit == IInv /\ IInv' /\ LimitInv /\ [Next]_vars => LimitInv'
<1> SUFFICES ASSUME IInv, IInv', LimitInv, [Next]_vars PROVE LimitInv'
  OBVIOUS
<1>0. /\ TypeOK /\ keyed \subseteq Jobs /\ now \in Nat /\ now' \in Nat
      /\ \A p \in Pushes : push[p].pc = "within" => ActiveCount(p) <= Limit
  BY CloudTaskAssumption DEF IInv, TypeOK, LimitInv, CountHolds
<1>1. ASSUME NEW j \in Jobs, EnqueueStep(j) PROVE LimitInv'
  <2>1. NoneAdded
    <3>1. rows' = rows \/ (\E row : row.state # "executing" /\ rows' = [rows EXCEPT ![j] = row])
      BY <1>1 DEF EnqueueStep, EnqueueInsert, EnqueueCreated, EnqueueCreateFails, EnqueueUndo, NoRow
    <3>2. QED BY <1>0, <3>1 DEF NoneAdded, TypeOK
  <2>2. UNCHANGED <<now, keyed, push>>
    BY <1>1 DEF EnqueueStep, EnqueueInsert, EnqueueCreated, EnqueueCreateFails, EnqueueUndo
  <2>3. QED BY <1>0, <2>1, <2>2, LimitKept
<1>2. ASSUME NEW j \in Jobs, NEW p \in Pushes, DeliverSkip(p, j) \/ DeliverClaim(p, j)
      PROVE  LimitInv'
  <2>1. NoneAdded
    BY <1>0, <1>2 DEF NoneAdded, DeliverSkip, DeliverClaim, TypeOK
  <2>2. \A q \in Pushes : push'[q].pc = "within" => push'[q] = push[q]
    BY <1>0, <1>2 DEF DeliverSkip, DeliverClaim, TypeOK
  <2>3. UNCHANGED <<now, keyed>>
    BY <1>2 DEF DeliverSkip, DeliverClaim
  <2>4. QED BY <1>0, <2>1, <2>2, <2>3, LimitKept
<1>3. ASSUME NEW p \in Pushes,
             UpsertSlot(p) \/ LockSlot(p) \/ CountActive(p) \/ Timeout(p) \/ Dispatch(p)
      PROVE  LimitInv'
  <2>1. NoneAdded /\ UNCHANGED <<now, keyed>>
    BY <1>3 DEF NoneAdded, UpsertSlot, LockSlot, CountActive, Timeout, Dispatch
  <2>2. ASSUME NEW q \in Pushes, push'[q].pc = "within"
        PROVE  /\ push'[q].job = push[q].job /\ push'[q].at = push[q].at
               /\ ActiveCount(q) <= Limit
    <3>1. CASE UpsertSlot(p) \/ LockSlot(p) \/ Timeout(p) \/ Dispatch(p)
      <4>1. /\ push[q].pc = "within"
            /\ push'[q].job = push[q].job /\ push'[q].at = push[q].at
        <5>1. CASE UpsertSlot(p) \/ LockSlot(p)
          BY <1>0, <2>2, <5>1 DEF UpsertSlot, LockSlot, TypeOK
        <5>2. CASE Timeout(p)
          BY <1>0, <2>2, <5>2 DEF Timeout, TypeOK
        <5>3. CASE Dispatch(p)
          BY <1>0, <2>2, <5>3 DEF Dispatch, TypeOK
        <5>4. QED BY <3>1, <5>1, <5>2, <5>3
      <4>2. QED BY <1>0, <4>1
    <3>2. CASE CountActive(p)
      <4>1. CASE q = p
        <5>1. ~(ActiveCount(p) > Limit)
          <6>1. push'[p].pc = IF ActiveCount(p) > Limit THEN "over" ELSE "within"
            BY <1>0, <3>2 DEF CountActive, TypeOK
          <6>2. QED BY <2>2, <4>1, <6>1
        <5>2. ActiveCount(p) \in Nat
          <6>1. IsFiniteSet(Counted(p))
            BY <1>0, CloudTaskAssumption, FS_Subset DEF Counted
          <6>2. QED BY <6>1, FS_CardinalityType DEF ActiveCount, Counted
        <5>3. QED
          BY <1>0, <3>2, <4>1, <5>1, <5>2, CloudTaskAssumption DEF CountActive, TypeOK
      <4>2. CASE q # p
        BY <1>0, <2>2, <3>2, <4>2 DEF CountActive, TypeOK
      <4>3. QED BY <4>1, <4>2
    <3>3. QED BY <1>3, <3>1, <3>2
  <2>3. QED BY <1>0, <2>1, <2>2, LimitKept
<1>4. ASSUME NEW p \in Pushes, ClaimExecute(p) \/ ClaimAnswerLost(p) PROVE LimitInv'
  <2>0. /\ CommitClaim(p) /\ UNCHANGED <<now, keyed>>
        /\ push[p].job \in keyed <=> push[p].pc # "marked"
        /\ push[p].at \in Nat /\ push[p].at <= now
    BY <1>4
    DEF ClaimExecute, ClaimAnswerLost, CommitClaim, IInv, TypeOK, ClaimRows, ClaimPcs
  <2>1. \A j \in keyed : j # push[p].job => rows'[j] = rows[j]
    BY <1>0, <2>0 DEF CommitClaim, TypeOK
  <2>2. push'[p].pc # "within" /\ \A q \in Pushes : q # p => push'[q] = push[q]
    BY <1>0, <1>4 DEF ClaimExecute, ClaimAnswerLost, Answer, Free, TypeOK
  <2>3. CASE push[p].pc = "marked"
    <3>1. NoneAdded
      BY <2>0, <2>1, <2>3 DEF NoneAdded
    <3>2. \A q \in Pushes : push'[q].pc = "within" => push'[q] = push[q]
      BY <2>2
    <3>3. QED BY <1>0, <2>0, <3>1, <3>2, LimitKept
  <2>4. CASE push[p].pc = "within"
    <3>1. push[p].job \in keyed
      BY <2>0, <2>4
    <3>2. \A j \in keyed : rows[j].lockedAt \in Int
      BY <1>0 DEF TypeOK
    <3>3. Window' \subseteq Counted(p)
      BY <1>0, <2>0, <2>1, <3>1, <3>2, CloudTaskAssumption DEF Window, Counted
    <3>4. Cardinality(Window') <= Limit
      <4>1. Cardinality(Counted(p)) <= Limit
        BY <1>0, <2>4 DEF ActiveCount, Counted
      <4>2. Counted(p) \subseteq keyed /\ keyed \in KeyedSets
        BY <1>0 DEF Counted, TypeOK
      <4>3. QED BY <3>3, <4>1, <4>2, WithinLimit
    <3>5. ASSUME NEW q \in Pushes PROVE push'[q].pc # "within"
      <4>1. CASE q = p
        BY <2>2, <4>1
      <4>2. CASE q # p
        <5>1. slotHeld = {p}
          BY <2>4 DEF IInv, SlotLock
        <5>2. QED BY <2>2, <4>2, <5>1 DEF IInv, SlotLock
      <4>3. QED BY <4>1, <4>2
    <3>6. QED BY <3>4, <3>5 DEF LimitInv, CountHolds, WindowLimit, Window
  <2>5. QED BY <2>0, <2>3, <2>4 DEF CommitClaim
<1>5. ASSUME NEW p \in Pushes,
             ClaimDeferred(p) \/ ClaimError(p) \/ Crash(p) \/ Succeed(p) \/ Fail(p)
      PROVE  LimitInv'
  <2>1. NoneAdded
    <3>1. CASE ClaimDeferred(p)
      <4>1. rows[push[p].job].state = "pending"
        BY <3>1 DEF ClaimDeferred, IInv, ClaimRows, ClaimPcs
      <4>2. QED BY <1>0, <3>1, <4>1 DEF NoneAdded, ClaimDeferred, TypeOK
    <3>2. CASE ClaimError(p) \/ Crash(p)
      BY <3>2 DEF NoneAdded, ClaimError, Crash
    <3>3. CASE Succeed(p)
      BY <1>0, <3>3 DEF NoneAdded, Succeed, Write, NoRow, TypeOK
    <3>4. CASE Fail(p)
      BY <1>0, <3>4 DEF NoneAdded, Fail, Write, NoRow, TypeOK
    <3>5. QED BY <1>5, <3>1, <3>2, <3>3, <3>4
  <2>2. push' = [push EXCEPT ![p] = Free] /\ UNCHANGED <<now, keyed>>
    BY <1>5 DEF ClaimDeferred, ClaimError, Crash, Succeed, Fail, Answer
  <2>3. \A q \in Pushes : push'[q].pc = "within" => push'[q] = push[q]
    BY <1>0, <2>2 DEF Free, TypeOK
  <2>4. QED BY <1>0, <2>1, <2>2, <2>3, LimitKept
<1>6. CASE Cleanup \/ Tick \/ UNCHANGED vars
  <2>1. NoneAdded
    BY <1>0, <1>6 DEF NoneAdded, Cleanup, CleanupSelect, CleanupDelete, CleanupCheckSlot,
                      CleanupDeleteSlot, Tick, vars, NoRow
  <2>2. now' >= now /\ UNCHANGED <<keyed, push>>
    BY <1>0, <1>6 DEF Cleanup, CleanupSelect, CleanupDelete, CleanupCheckSlot,
                      CleanupDeleteSlot, Tick, vars
  <2>3. QED BY <1>0, <2>1, <2>2, LimitKept
<1>7. QED BY <1>1, <1>2, <1>3, <1>4, <1>5, <1>6 DEF Next, Deliver, HandlerStep

\* Never more jobs of a key than its limit execute within the window, for any
\* limit, duration and number of concurrent claims: the lock on the slot row,
\* which cleanup may delete, makes the count and the commit one step.
THEOREM WindowLimitAlways == Spec => []WindowLimit
<1>1. LimitInv => WindowLimit
  BY DEF LimitInv
<1>2. QED BY <1>1, Inductive, InitLimit, NextLimit, PTL DEF Spec

-----------------------------------------------------------------------------
(* CleanupChain: while nothing has failed, the sentinel stands in the      *)
(* schedule row exactly as long as one push is at work.                    *)

\* scheduleClaimedSentinel is the largest integer, no time stamp and not 0.
SentinelDistinct == Sentinel \notin Stamps /\ Sentinel # Zero

ChainTypes ==
  /\ nextRunAt \in Stamps \cup {Zero, Sentinel}
  /\ past \subseteq Stamps /\ tasks \subseteq Stamps
  /\ enqs \in [Enqueues -> [pc: {"idle", "claimed", "resetting"}, at: Stamps \cup {Zero}]]
  /\ passes \in [Pushes -> [pc: {"idle", "cleaning", "recording", "resetting"},
                          task: Stamps \cup {Zero}, at: Stamps \cup {Zero}]]
  /\ chainFaults \in Nat

\* What a request is about to write to the database or to Cloud Tasks.
Computed ==
  /\ \A e \in Enqueues : enqs[e].pc = "claimed" => enqs[e].at \in Stamps
  /\ \A p \in Pushes : passes[p].pc = "recording" => passes[p].at \in Stamps

\* While nothing has failed nobody takes a claim back, the push at work owns the
\* sentinel, and there is one at most.
Owned ==
  chainFaults = 0 =>
    /\ \A e \in Enqueues : enqs[e].pc # "resetting"
    /\ \A p \in Pushes : passes[p].pc # "resetting"
    /\ nextRunAt = Sentinel <=> \E p \in Pushes : passes[p].pc # "idle"
    /\ \A p, q \in Pushes : passes[p].pc # "idle" /\ passes[q].pc # "idle" => p = q

ChainInv == ChainTypes /\ Computed /\ Owned

LEMMA ChainInitInv == ASSUME SentinelDistinct PROVE Chain!Init => ChainInv
<1> SUFFICES ASSUME Chain!Init PROVE ChainInv
  OBVIOUS
<1>1. ChainTypes
  <2>1. Chain!IdleEnq \in [pc: {"idle", "claimed", "resetting"}, at: Stamps \cup {Zero}]
    BY DEF Chain!IdleEnq
  <2>2. Chain!IdlePush \in [pc: {"idle", "cleaning", "recording", "resetting"},
                      task: Stamps \cup {Zero}, at: Stamps \cup {Zero}]
    BY DEF Chain!IdlePush
  <2>3. QED BY <2>1, <2>2 DEF Chain!Init, ChainTypes
<1>2. Computed /\ Owned
  BY DEF Chain!Init, Computed, Owned, Chain!IdleEnq, Chain!IdlePush, SentinelDistinct
<1>3. QED BY <1>1, <1>2 DEF ChainInv

\* A fault puts an end to the claim.
LEMMA FaultEnds == ChainTypes /\ Chain!Fault => chainFaults' \in Nat /\ chainFaults' # 0
BY DEF ChainTypes, Chain!Fault

\* A step of an Enqueue call: no push changes.
LEMMA EnqueueInv ==
  ASSUME SentinelDistinct, ChainInv, NEW e \in Enqueues,
         Chain!ClaimBootstrap(e) \/ Chain!EnqueueStep(e) \/ Chain!CrashEnqueue(e)
  PROVE  ChainInv'
<1>0. ChainTypes
  BY DEF ChainInv
<1>1. CASE Chain!ClaimBootstrap(e)
  <2>1. PICK s \in Chain!Fresh : /\ nextRunAt' = s /\ past' = past \ {s}
                           /\ enqs' = [enqs EXCEPT ![e] = [pc |-> "claimed", at |-> s]]
    BY <1>1 DEF Chain!ClaimBootstrap
  <2>2. s \in Stamps /\ s # Sentinel /\ nextRunAt # Sentinel
    BY <1>1, SentinelDistinct DEF Chain!ClaimBootstrap, Chain!Ahead, Chain!Fresh, SentinelDistinct
  <2>3. UNCHANGED <<tasks, passes, chainFaults>>
    BY <1>1 DEF Chain!ClaimBootstrap
  <2>4. ChainTypes'
    BY <1>0, <2>1, <2>2, <2>3 DEF ChainTypes
  <2>5. \A d \in Enqueues : enqs'[d] = IF d = e THEN [pc |-> "claimed", at |-> s] ELSE enqs[d]
    BY <1>0, <2>1 DEF ChainTypes
  <2>6. Computed'
    BY <2>2, <2>3, <2>5 DEF ChainInv, Computed
  <2>7. Owned'
    BY <2>1, <2>2, <2>3, <2>5 DEF ChainInv, Owned
  <2>8. QED BY <2>4, <2>6, <2>7 DEF ChainInv
<1>2. CASE Chain!CreateBootstrap(e)
  <2>1. enqs[e].at \in Stamps /\ tasks' = tasks \cup {enqs[e].at}
    BY <1>2 DEF Chain!CreateBootstrap, ChainInv, Computed
  <2>2. enqs' = [enqs EXCEPT ![e] = Chain!IdleEnq] /\ UNCHANGED <<nextRunAt, past, passes, chainFaults>>
    BY <1>2 DEF Chain!CreateBootstrap
  <2>3. Chain!IdleEnq \in [pc: {"idle", "claimed", "resetting"}, at: Stamps \cup {Zero}]
    BY DEF Chain!IdleEnq
  <2>4. ChainTypes'
    BY <1>0, <2>1, <2>2, <2>3 DEF ChainTypes
  <2>5. \A d \in Enqueues : enqs'[d].pc # "idle" => enqs'[d] = enqs[d]
    BY <1>0, <2>2 DEF ChainTypes, Chain!IdleEnq
  <2>6. Computed' /\ Owned'
    BY <2>2, <2>5 DEF ChainInv, Computed, Owned
  <2>7. QED BY <2>4, <2>6 DEF ChainInv
<1>3. CASE Chain!BootstrapFails(e)
  <2>1. enqs[e].at \in Stamps /\ chainFaults' \in Nat /\ chainFaults' # 0
    BY <1>0, <1>3, FaultEnds DEF Chain!BootstrapFails, ChainInv, Computed
  <2>2. /\ enqs' = [enqs EXCEPT ![e].pc = "resetting"] /\ UNCHANGED <<nextRunAt, past, passes>>
        /\ tasks' \subseteq tasks \cup {enqs[e].at}
    BY <1>3 DEF Chain!BootstrapFails
  <2>3. ChainTypes'
    BY <1>0, <2>1, <2>2 DEF ChainTypes
  <2>4. Computed' /\ Owned'
    BY <1>0, <2>1, <2>2 DEF ChainInv, ChainTypes, Computed, Owned
  <2>5. QED BY <2>3, <2>4 DEF ChainInv
<1>4. CASE Chain!ResetBootstrap(e)
  <2>1. chainFaults # 0 /\ chainFaults' \in Nat /\ chainFaults' # 0
    <3>1. chainFaults # 0
      BY <1>4 DEF Chain!ResetBootstrap, ChainInv, Owned
    <3>2. QED BY <1>0, <1>4, <3>1, FaultEnds DEF Chain!ResetBootstrap, ChainTypes
  <2>2. /\ enqs' = [enqs EXCEPT ![e] = Chain!IdleEnq] /\ UNCHANGED <<past, tasks, passes>>
        /\ nextRunAt' \in {nextRunAt, Zero}
    BY <1>4 DEF Chain!ResetBootstrap
  <2>3. Chain!IdleEnq \in [pc: {"idle", "claimed", "resetting"}, at: Stamps \cup {Zero}]
    BY DEF Chain!IdleEnq
  <2>4. ChainTypes'
    BY <1>0, <2>1, <2>2, <2>3 DEF ChainTypes
  <2>5. Computed' /\ Owned'
    BY <1>0, <2>1, <2>2 DEF ChainInv, ChainTypes, Computed, Owned, Chain!IdleEnq
  <2>6. QED BY <2>4, <2>5 DEF ChainInv
<1>5. CASE Chain!CrashEnqueue(e)
  <2>1. chainFaults' \in Nat /\ chainFaults' # 0
    BY <1>0, <1>5, FaultEnds DEF Chain!CrashEnqueue
  <2>2. enqs' = [enqs EXCEPT ![e] = Chain!IdleEnq] /\ UNCHANGED <<nextRunAt, past, tasks, passes>>
    BY <1>5 DEF Chain!CrashEnqueue
  <2>3. Chain!IdleEnq \in [pc: {"idle", "claimed", "resetting"}, at: Stamps \cup {Zero}]
    BY DEF Chain!IdleEnq
  <2>4. ChainTypes'
    BY <1>0, <2>1, <2>2, <2>3 DEF ChainTypes
  <2>5. Computed' /\ Owned'
    BY <1>0, <2>1, <2>2 DEF ChainInv, ChainTypes, Computed, Owned, Chain!IdleEnq
  <2>6. QED BY <2>4, <2>5 DEF ChainInv
<1>6. QED BY <1>1, <1>2, <1>3, <1>4, <1>5 DEF Chain!EnqueueStep

\* A push that moves while something has failed leaves only its types to check.
LEMMA PushAfterFault ==
  ASSUME ChainInv, NEW p \in Pushes, ChainTypes', chainFaults' # 0, enqs' = enqs,
         \A q \in Pushes : q # p => passes'[q] = passes[q],
         passes'[p].pc # "recording"
  PROVE  ChainInv'
<1>1. Computed' /\ Owned'
  BY DEF ChainInv, Computed, Owned
<1>2. QED BY <1>1 DEF ChainInv

LEMMA IdlePushType ==
  Chain!IdlePush \in [pc: {"idle", "cleaning", "recording", "resetting"},
                task: Stamps \cup {Zero}, at: Stamps \cup {Zero}]
BY DEF Chain!IdlePush

\* A step of a cleanup push.
LEMMA PushInv ==
  ASSUME SentinelDistinct, ChainInv, NEW p \in Pushes, Chain!PushStep(p) \/ Chain!CrashPush(p)
  PROVE  ChainInv'
<1>0. ChainTypes
  BY DEF ChainInv
<1>1. CASE Chain!Reschedule(p)
  <2>1. PICK s \in Chain!Fresh : /\ tasks' = tasks \cup {s} /\ past' = past \ {s}
                           /\ passes' = [passes EXCEPT ![p].pc = "recording", ![p].at = s]
    BY <1>1 DEF Chain!Reschedule
  <2>2. s \in Stamps /\ passes[p].pc = "cleaning" /\ UNCHANGED <<nextRunAt, enqs, chainFaults>>
    BY <1>1 DEF Chain!Reschedule, Chain!Fresh
  <2>3. /\ \A q \in Pushes : q # p => passes'[q] = passes[q]
        /\ passes'[p].pc = "recording" /\ passes'[p].at = s
    BY <1>0, <2>1 DEF ChainTypes
  <2>4. ChainTypes'
    <3>1. passes' \in [Pushes -> [pc: {"idle", "cleaning", "recording", "resetting"},
                                task: Stamps \cup {Zero}, at: Stamps \cup {Zero}]]
      <4>1. [passes[p] EXCEPT !.pc = "recording", !.at = s]
              \in [pc: {"idle", "cleaning", "recording", "resetting"},
                  task: Stamps \cup {Zero}, at: Stamps \cup {Zero}]
        BY <1>0, <2>2 DEF ChainTypes
      <4>2. passes' = [passes EXCEPT ![p] = [passes[p] EXCEPT !.pc = "recording", !.at = s]]
        BY <1>0, <2>1 DEF ChainTypes
      <4>3. QED BY <1>0, <4>1, <4>2 DEF ChainTypes
    <3>2. tasks' \subseteq Stamps /\ past' \subseteq Stamps
      BY <1>0, <2>1, <2>2 DEF ChainTypes
    <3>3. QED BY <1>0, <2>2, <3>1, <3>2 DEF ChainTypes
  <2>5. Computed'
    BY <2>2, <2>3 DEF ChainInv, Computed
  <2>6. Owned'
    BY <2>2, <2>3 DEF ChainInv, Owned
  <2>7. QED BY <2>4, <2>5, <2>6 DEF ChainInv
<1>2. CASE Chain!RescheduleFails(p)
  <2>1. /\ passes' = [passes EXCEPT ![p].pc = "resetting"] /\ UNCHANGED <<nextRunAt, enqs>>
        /\ chainFaults' \in Nat /\ chainFaults' # 0 /\ past' \subseteq Stamps /\ tasks' \subseteq Stamps
    BY <1>0, <1>2, FaultEnds DEF Chain!RescheduleFails, Chain!Fresh, ChainTypes
  <2>2. ChainTypes'
    BY <1>0, <2>1 DEF ChainTypes
  <2>3. (\A q \in Pushes : q # p => passes'[q] = passes[q]) /\ passes'[p].pc # "recording"
    BY <1>0, <2>1 DEF ChainTypes
  <2>4. QED BY <2>1, <2>2, <2>3, PushAfterFault
<1>3. CASE Chain!Record(p)
  <2>1. /\ passes[p].pc = "recording" /\ passes[p].at \in Stamps
        /\ passes' = [passes EXCEPT ![p] = Chain!IdlePush] /\ tasks' = tasks \ {passes[p].task}
        /\ UNCHANGED <<past, enqs>>
    BY <1>3 DEF Chain!Record, Chain!Answer, ChainInv, Computed
  <2>2. /\ \A q \in Pushes : q # p => passes'[q] = passes[q]
        /\ passes'[p].pc = "idle"
    BY <1>0, <2>1 DEF ChainTypes, Chain!IdlePush
  <2>3. \/ nextRunAt' = passes[p].at /\ chainFaults' = chainFaults
        \/ nextRunAt' = nextRunAt /\ chainFaults' \in Nat /\ chainFaults' # 0
    BY <1>0, <1>3, FaultEnds DEF Chain!Record
  <2>4. ChainTypes'
    BY <1>0, <2>1, <2>3, IdlePushType DEF ChainTypes
  <2>5. CASE chainFaults' # 0
    BY <2>1, <2>2, <2>4, <2>5, PushAfterFault
  <2>6. CASE chainFaults' = 0
    <3>1. chainFaults = 0 /\ nextRunAt' # Sentinel
      BY <2>1, <2>3, <2>6 DEF SentinelDistinct
    <3>2. \A q \in Pushes : passes'[q].pc = "idle"
      BY <2>1, <2>2, <3>1 DEF ChainInv, Owned
    <3>3. Owned'
      BY <2>1, <3>1, <3>2 DEF ChainInv, Owned
    <3>4. Computed'
      BY <2>1, <3>2 DEF ChainInv, Computed
    <3>5. QED BY <2>4, <3>3, <3>4 DEF ChainInv
  <2>7. QED BY <2>5, <2>6
<1>4. CASE Chain!ResetChain(p)
  <2>1. /\ passes' = [passes EXCEPT ![p] = Chain!IdlePush] /\ tasks' = tasks \ {passes[p].task}
        /\ UNCHANGED <<past, enqs>> /\ nextRunAt' \in {nextRunAt, Zero}
    BY <1>4 DEF Chain!ResetChain, Chain!Answer
  <2>2. chainFaults' \in Nat /\ chainFaults' # 0
    <3>1. chainFaults # 0
      BY <1>4 DEF Chain!ResetChain, ChainInv, Owned
    <3>2. QED BY <1>0, <1>4, <3>1, FaultEnds DEF Chain!ResetChain, ChainTypes
  <2>3. ChainTypes'
    BY <1>0, <2>1, <2>2, IdlePushType DEF ChainTypes
  <2>4. (\A q \in Pushes : q # p => passes'[q] = passes[q]) /\ passes'[p].pc # "recording"
    BY <1>0, <2>1 DEF ChainTypes, Chain!IdlePush
  <2>5. QED BY <2>1, <2>2, <2>3, <2>4, PushAfterFault
<1>5. CASE Chain!CrashPush(p)
  <2>1. /\ passes' = [passes EXCEPT ![p] = Chain!IdlePush] /\ UNCHANGED <<nextRunAt, past, tasks, enqs>>
        /\ chainFaults' \in Nat /\ chainFaults' # 0
    BY <1>0, <1>5, FaultEnds DEF Chain!CrashPush
  <2>2. ChainTypes'
    BY <1>0, <2>1, IdlePushType DEF ChainTypes
  <2>3. (\A q \in Pushes : q # p => passes'[q] = passes[q]) /\ passes'[p].pc # "recording"
    BY <1>0, <2>1 DEF ChainTypes, Chain!IdlePush
  <2>4. QED BY <2>1, <2>2, <2>3, PushAfterFault
<1>6. QED BY <1>1, <1>2, <1>3, <1>4, <1>5 DEF Chain!PushStep

\* A delivery, and the passing of time.
LEMMA DeliverInv ==
  ASSUME SentinelDistinct, ChainInv, NEW s \in Stamps, Chain!Deliver(s) \/ Chain!Pass(s)
  PROVE  ChainInv'
<1>0. ChainTypes
  BY DEF ChainInv
<1>1. ASSUME NEW p \in Pushes, Chain!DeliverNoMatch(p, s) PROVE ChainInv'
  <2>1. ChainTypes'
    BY <1>0, <1>1 DEF Chain!DeliverNoMatch, ChainTypes
  <2>2. QED BY <1>1, <2>1 DEF Chain!DeliverNoMatch, ChainInv, Computed, Owned
<1>2. ASSUME NEW p \in Pushes, Chain!DeliverMatch(p, s) PROVE ChainInv'
  <2>1. /\ nextRunAt # Sentinel /\ nextRunAt' = Sentinel
        /\ passes' = [passes EXCEPT ![p] = [pc |-> "cleaning", task |-> s, at |-> Zero]]
        /\ UNCHANGED <<past, tasks, enqs, chainFaults>>
    BY <1>2 DEF Chain!DeliverMatch, SentinelDistinct
  <2>2. /\ \A q \in Pushes : q # p => passes'[q] = passes[q]
        /\ passes'[p].pc = "cleaning"
    BY <1>0, <2>1 DEF ChainTypes
  <2>3. ChainTypes'
    BY <1>0, <2>1 DEF ChainTypes
  <2>4. Computed'
    BY <2>1, <2>2 DEF ChainInv, Computed
  <2>5. Owned'
    BY <2>1, <2>2 DEF ChainInv, Owned
  <2>6. QED BY <2>3, <2>4, <2>5 DEF ChainInv
<1>3. CASE Chain!Pass(s)
  <2>1. /\ chainFaults' = chainFaults \/ (chainFaults' \in Nat /\ chainFaults' # 0)
        /\ past' = past \cup {s} /\ UNCHANGED <<nextRunAt, tasks, enqs, passes>>
    BY <1>0, <1>3, FaultEnds DEF Chain!Pass
  <2>2. ChainTypes'
    BY <1>0, <2>1 DEF ChainTypes
  <2>3. QED BY <2>1, <2>2 DEF ChainInv, Computed, Owned
<1>4. QED BY <1>1, <1>2, <1>3 DEF Chain!Deliver

\* As long as nothing fails, the sentinel is in the row only while a pass is under
\* way, and one pass at most runs: for any number of duplicate deliveries, late
\* tasks and Enqueue calls that start a chain anew.
THEOREM OnePass == ASSUME SentinelDistinct PROVE Chain!Spec => []OnePassOwnsTheChain
<1>1. Chain!Init => ChainInv
  BY ChainInitInv
<1>2. ChainInv /\ [Chain!Next]_(Chain!vars) => ChainInv'
  <2> SUFFICES ASSUME ChainInv, [Chain!Next]_(Chain!vars) PROVE ChainInv'
    OBVIOUS
  <2>1. CASE UNCHANGED Chain!vars
    BY <2>1 DEF Chain!vars, ChainInv, ChainTypes, Computed, Owned
  <2>2. QED BY <2>1, EnqueueInv, PushInv, DeliverInv DEF Chain!Next
<1>3. ChainInv => Chain!OnePassOwnsTheChain
  <2> SUFFICES ASSUME ChainInv, chainFaults = 0
               PROVE  /\ Chain!SentinelOwned
                      /\ Cardinality({p \in Pushes : passes[p].pc # "idle"}) <= 1
    BY DEF Chain!OnePassOwnsTheChain, Chain!Cardinality, Cardinality
  <2> DEFINE Active == {p \in Pushes : passes[p].pc # "idle"}
  <2>1. Chain!SentinelOwned
    BY DEF ChainInv, Owned, Chain!SentinelOwned
  <2>2. CASE Active = {}
    BY <2>1, <2>2, FS_EmptySet
  <2>3. CASE Active # {}
    <3>1. PICK p \in Active : Active = {p}
      BY <2>3 DEF ChainInv, Owned
    <3>2. Cardinality(Active) = 1
      BY <3>1, FS_Singleton
    <3>3. QED BY <2>1, <3>2
  <2>4. QED BY <2>2, <2>3
<1>4. QED BY <1>1, <1>2, <1>3, PTL DEF Chain!Spec, OnePassOwnsTheChain
=============================================================================
