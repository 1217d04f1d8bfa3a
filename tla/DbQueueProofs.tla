--------------------------- MODULE DbQueueProofs ---------------------------
(***************************************************************************)
(* Proofs about DbQueue, for any number of jobs, processes and faults.     *)
(* The inductive invariant relates a process's copies of rows and its      *)
(* locked candidate to the table, and the history of performances to the   *)
(* attempts column.                                                        *)
(***************************************************************************)
EXTENDS DbQueue, FiniteSetTheorems, TLAPS

\* A row somebody holds is executing, has not changed since it was copied, and
\* its job has been performed once more than it failed when it runs.
HeldRows ==
  \A w \in Workers :
    /\ \A row \in claimed[w] :
         /\ rows[row.id].state = "executing"
         /\ rows[row.id].attempts = row.attempts
         /\ performs[row.id] = row.attempts
    /\ \A row \in running[w] :
         /\ rows[row.id].state = "executing"
         /\ rows[row.id].attempts = row.attempts
         /\ performs[row.id] = row.attempts + 1

\* A locked candidate stays available and is locked by one transaction only.
LockedRows ==
  /\ \A w \in Workers : \A j \in cand[w] : rowLocking /\ rows[j].state = "available"
  /\ \A v, w \in Workers : v # w => cand[v] \cap cand[w] = {}

\* What a cleanup pass is about to delete is finished, or was deleted by
\* another pass; either way the id will not be used again.
DoomedRows ==
  \A w \in Workers : \A j \in doomed[w] :
    /\ rows[j].state \in {"finished", "none"}
    /\ performs[j] # 0
    /\ rows[j].state = "finished" => rows[j].finishedAt + Retention <= now

IInv == TypeOK /\ HeldRows /\ LockedRows /\ DoomedRows /\ OneHolder /\ AttemptsAccount

-----------------------------------------------------------------------------
(* Facts about the operators.                                              *)

\* A fresh row has at least one attempt (jobs.Enqueue's default).
LEMMA MaxAttemptsPositive ==
  ASSUME NEW opt \in MaxAttemptsOpts
  PROVE  EnqueuedMaxAttempts(opt) \in Nat /\ EnqueuedMaxAttempts(opt) > 0
BY DbQueueAssumption DEF EnqueuedMaxAttempts

\* The backoff is an integer, so a retry's scheduled_at is one.
LEMMA BackoffInt ==
  ASSUME NEW a, NEW d \in computeBackoff(a)
  PROVE  d \in Int
BY DEF computeBackoff

\* A claim takes an available row, one that no open transaction has locked.
LEMMA CandidateFacts ==
  ASSUME NEW w \in Workers, NEW j \in Candidates(w)
  PROVE  /\ j \in Jobs
         /\ rows[j].state = "available"
         /\ rowLocking => \A v \in Workers : j \notin cand[v]
BY DEF Candidates, FirstOf, Claimable, RowLocks

-----------------------------------------------------------------------------
(* Type correctness.                                                       *)

LEMMA InitTypeOK == Init => TypeOK
BY DEF Init, TypeOK, Row, States, NoRow, Pcs, Copy

LEMMA MarkTypeOK ==
  ASSUME TypeOK, NEW w \in Workers, NEW j \in Jobs, MarkExecuting(w, j)
  PROVE  rows' \in [Jobs -> Row] /\ claimed' \in [Workers -> SUBSET Copy]
<1>1. rows' \in [Jobs -> Row]
  <2>1. rows[j] \in Row /\ pollNow[w] \in Int
    BY DEF TypeOK
  <2>2. [rows[j] EXCEPT !.state = "executing", !.lockedAt = pollNow[w]] \in Row
    BY <2>1 DEF Row, States
  <2>3. QED BY <2>2 DEF TypeOK, MarkExecuting
<1>2. [id |-> j, attempts |-> rows[j].attempts] \in Copy
  BY DEF TypeOK, Row, Copy
<1>3. claimed' \in [Workers -> SUBSET Copy]
  BY <1>2 DEF TypeOK, MarkExecuting
<1>4. QED BY <1>1, <1>3

LEMMA NextTypeOK == TypeOK /\ [Next]_vars => TypeOK'
<1> SUFFICES ASSUME TypeOK, [Next]_vars PROVE TypeOK'
  OBVIOUS
<1>1. CASE Tick
  BY <1>1 DEF Tick, TypeOK, procVars
<1>2. ASSUME NEW j \in Jobs, NEW opt \in MaxAttemptsOpts, NEW delay \in Delays,
             Enqueue(j, opt, delay)
      PROVE  TypeOK'
  <2>1. [NoRow EXCEPT !.state = "available", !.scheduledAt = now + delay,
                      !.maxAttempts = EnqueuedMaxAttempts(opt)] \in Row
    <3>1. now + delay \in Int /\ EnqueuedMaxAttempts(opt) \in Nat
      BY MaxAttemptsPositive, DbQueueAssumption DEF TypeOK
    <3>2. NoRow \in Row
      BY DEF NoRow, Row, States
    <3>3. QED BY <3>1, <3>2 DEF Row, States
  <2>2. rows' \in [Jobs -> Row]
    BY <1>2, <2>1 DEF Enqueue, TypeOK
  <2>3. QED BY <1>2, <2>2 DEF Enqueue, TypeOK, procVars
<1>3. ASSUME NEW w \in Workers, RunStep(w) PROVE TypeOK'
  <2>1. CASE StartPoll(w)
    BY <2>1 DEF StartPoll, TypeOK, Pcs
  <2>2. CASE claimOneSQLite(w)
    <3>1. PICK j \in Candidates(w) : MarkExecuting(w, j)
      BY <2>2 DEF claimOneSQLite
    <3>2. QED BY <2>2, <3>1, CandidateFacts, MarkTypeOK DEF claimOneSQLite, TypeOK
  <2>3. CASE claimOneLocking(w)
    BY <2>3, CandidateFacts DEF claimOneLocking, TypeOK, Pcs
  <2>4. CASE CommitClaim(w)
    <3>1. PICK j \in cand[w] : MarkExecuting(w, j)
      BY <2>4 DEF CommitClaim
    <3>2. j \in Jobs
      BY <3>1 DEF TypeOK
    <3>3. QED BY <2>4, <3>1, <3>2, MarkTypeOK DEF CommitClaim, TypeOK, Pcs
  <2>5. CASE EndClaim(w)
    BY <2>5 DEF EndClaim, TypeOK, Pcs
  <2>6. CASE ClaimError(w)
    BY <2>6 DEF ClaimError, StatementFails, TypeOK, Pcs
  <2>7. CASE HandOff(w)
    <3>1. PICK row \in claimed[w] :
            /\ claimed' = [claimed EXCEPT ![w] = @ \ {row}]
            /\ running' = [running EXCEPT ![w] = @ \cup {row}]
            /\ performs' = [performs EXCEPT ![row.id] = @ + 1]
            /\ pc' = [pc EXCEPT ![w] = IF claimed[w] = {row} THEN "idle" ELSE "handing"]
      BY <2>7 DEF HandOff
    <3>2. row \in Copy /\ row.id \in Jobs
      BY <3>1 DEF TypeOK, Copy
    <3>3. QED BY <2>7, <3>1, <3>2 DEF HandOff, TypeOK, Pcs
  <2>8. CASE StartCleanup(w)
    BY <2>8 DEF StartCleanup, Stale, TypeOK, Pcs
  <2>9. CASE EndCleanup(w)
    <3>1. rows' \in [Jobs -> Row]
      BY <2>9 DEF EndCleanup, TypeOK, Row, NoRow, States
    <3>2. QED BY <2>9, <3>1 DEF EndCleanup, StatementFails, TypeOK, Pcs
  <2>10. CASE StopPolling(w)
    BY <2>10 DEF StopPolling, TypeOK, Pcs
  <2>11. CASE ReturnFromRun(w)
    BY <2>11 DEF ReturnFromRun, TypeOK, Pcs
  <2>12. QED
    BY <1>3, <2>1, <2>2, <2>3, <2>4, <2>5, <2>6, <2>7, <2>8, <2>9, <2>10, <2>11 DEF RunStep
<1>4. ASSUME NEW w \in Workers, DispatchStep(w) PROVE TypeOK'
  <2>1. PICK row \in running[w] : Finish(w, row) \/ Fail(w, row) \/ RecordError(w, row)
    BY <1>4 DEF DispatchStep
  <2>2. row.id \in Jobs /\ row.attempts \in Nat
    BY <2>1 DEF TypeOK, Copy
  <2>3. CASE Finish(w, row)
    <3>0. rows[row.id] \in Row /\ now \in Int
      BY <2>2 DEF TypeOK
    <3>1. [rows[row.id] EXCEPT !.state = "finished", !.finishedAt = now] \in Row
      BY <3>0 DEF Row, States
    <3>2. QED BY <2>2, <2>3, <3>1 DEF Finish, TypeOK
  <2>4. CASE Fail(w, row)
    <3>1. rows' \in [Jobs -> Row]
      <4> DEFINE attempts == row.attempts + 1
      <4>1. rows[row.id] \in Row /\ attempts \in Nat /\ now \in Nat
        BY <2>2 DEF TypeOK
      <4>2. [rows[row.id] EXCEPT !.attempts = attempts, !.state = "failed"] \in Row
        BY <4>1 DEF Row, States
      <4>3. ASSUME NEW d \in computeBackoff(attempts)
            PROVE  [rows[row.id] EXCEPT !.attempts = attempts, !.state = "available",
                                        !.scheduledAt = now + d] \in Row
        <5>1. now + d \in Int
          BY <4>1, <4>3, BackoffInt
        <5>2. QED BY <4>1, <5>1 DEF Row, States
      <4>4. QED BY <2>2, <2>4, <4>2, <4>3 DEF Fail, TypeOK
    <3>2. QED BY <2>4, <3>1 DEF Fail, TypeOK
  <2>5. CASE RecordError(w, row)
    BY <2>5 DEF RecordError, TypeOK
  <2>6. QED BY <2>1, <2>3, <2>4, <2>5
<1>5. ASSUME NEW w \in Workers, Cancel(w) PROVE TypeOK'
  BY <1>5 DEF Cancel, TypeOK
<1>6. ASSUME NEW w \in Workers, Crash(w) PROVE TypeOK'
  BY <1>6 DEF Crash, TypeOK, Pcs
<1>7. ASSUME NEW w \in Workers, Restart(w) PROVE TypeOK'
  BY <1>7 DEF Restart, TypeOK, Pcs
<1>8. CASE UNCHANGED vars
  BY <1>8 DEF vars, TypeOK
<1>9. QED
  BY <1>1, <1>2, <1>3, <1>4, <1>5, <1>6, <1>7, <1>8 DEF Next

\* Every variable keeps its type, whatever the jobs, processes and options.
THEOREM TypeCorrect == Spec => []TypeOK
BY InitTypeOK, NextTypeOK, PTL DEF Spec
-----------------------------------------------------------------------------
(* The inductive invariant.                                                *)

LEMMA InitIInv == Init => IInv
<1> SUFFICES ASSUME Init PROVE IInv
  OBVIOUS
<1>1. HeldRows /\ LockedRows /\ DoomedRows
  BY DEF Init, HeldRows, LockedRows, DoomedRows
<1>2. OneHolder
  BY DEF Init, OneHolder, Held
<1>3. AttemptsAccount
  BY DEF Init, AttemptsAccount, NoRow
<1>4. QED BY <1>1, <1>2, <1>3, InitTypeOK DEF IInv

\* Steps that leave the table alone and at most let go of rows.
LEMMA LetGoStep ==
  ASSUME IInv, TypeOK', UNCHANGED <<setup, rows, performs>>, now' >= now,
         \A w \in Workers : /\ claimed'[w] \subseteq claimed[w]
                            /\ running'[w] \subseteq running[w]
                            /\ cand'[w] \subseteq cand[w]
                            /\ doomed'[w] \subseteq doomed[w]
  PROVE  IInv'
<1>1. HeldRows'
  BY DEF IInv, HeldRows
<1>2. LockedRows'
  BY DEF IInv, LockedRows, rowLocking
<1>3. DoomedRows'
  <2> SUFFICES ASSUME NEW w \in Workers, NEW j \in doomed'[w], rows[j].state = "finished"
               PROVE  rows[j].finishedAt + Retention <= now'
    BY DEF IInv, DoomedRows
  <2>1. rows[j].finishedAt + Retention <= now
    BY DEF IInv, DoomedRows
  <2>2. rows[j].finishedAt \in Int /\ Retention \in Nat /\ now \in Nat /\ now' \in Nat
    <3>1. j \in Jobs
      BY DEF IInv, TypeOK
    <3>2. QED BY <3>1, DbQueueAssumption DEF IInv, TypeOK, Row
  <2>3. QED BY <2>1, <2>2
<1>4. OneHolder'
  BY DEF IInv, OneHolder, Held
<1>5. AttemptsAccount'
  BY DEF IInv, AttemptsAccount
<1>6. QED BY <1>1, <1>2, <1>3, <1>4, <1>5 DEF IInv

\* Marking an available row that nobody else has locked.
LEMMA MarkStep ==
  ASSUME IInv, TypeOK', NEW w \in Workers, NEW j \in Jobs,
         rows[j].state = "available", MarkExecuting(w, j),
         UNCHANGED <<now, setup, running, doomed, performs>>,
         \A v \in Workers : cand'[v] \subseteq cand[v] /\ j \notin cand'[v]
  PROVE  IInv'
<1> DEFINE mine == [id |-> j, attempts |-> rows[j].attempts]
<1>1. \A k \in Jobs : k # j => rows'[k] = rows[k]
  BY DEF MarkExecuting, IInv, TypeOK
<1>2. /\ rows'[j].state = "executing"
      /\ rows'[j].attempts = rows[j].attempts
      /\ rows'[j].maxAttempts = rows[j].maxAttempts
  BY DEF MarkExecuting, IInv, TypeOK, Row
<1>3. claimed'[w] = claimed[w] \cup {mine}
  BY DEF MarkExecuting, IInv, TypeOK
<1>4. \A v \in Workers : v # w => claimed'[v] = claimed[v]
  BY DEF MarkExecuting, IInv, TypeOK
<1>5. \A v \in Workers : \A r \in Held(v) : r.id \in Jobs /\ r.id # j
  BY DEF IInv, HeldRows, Held, TypeOK, Copy
<1>6. performs[j] = rows[j].attempts /\ rows[j].attempts < rows[j].maxAttempts
  BY DEF IInv, AttemptsAccount
<1>7. HeldRows'
  <2> SUFFICES ASSUME NEW v \in Workers
               PROVE  /\ \A row \in claimed'[v] : /\ rows'[row.id].state = "executing"
                                                  /\ rows'[row.id].attempts = row.attempts
                                                  /\ performs[row.id] = row.attempts
                      /\ \A row \in running[v] : /\ rows'[row.id].state = "executing"
                                                 /\ rows'[row.id].attempts = row.attempts
                                                 /\ performs[row.id] = row.attempts + 1
    BY DEF HeldRows
  <2>1. \A row \in Held(v) : rows'[row.id] = rows[row.id]
    BY <1>1, <1>5
  <2>2. \A row \in claimed'[v] : row \in Held(v) \/ row = mine
    BY <1>3, <1>4 DEF Held
  <2>3. QED BY <2>1, <2>2, <1>2, <1>3, <1>4, <1>6 DEF IInv, HeldRows, Held
<1>8. LockedRows'
  <2>1. \A v \in Workers : \A k \in cand'[v] : k \in Jobs /\ k # j
    BY DEF IInv, TypeOK
  <2>2. QED BY <1>1, <2>1 DEF IInv, LockedRows, rowLocking
<1>9. DoomedRows'
  BY <1>1 DEF IInv, DoomedRows, TypeOK
<1>10. OneHolder'
  <2>1. \A v \in Workers : \A r \in Held(v)' : r \in Held(v) \/ (v = w /\ r = mine)
    BY <1>3, <1>4 DEF Held
  <2>2. \A v, u \in Workers : \A r \in Held(v)', s \in Held(u)' : r.id = s.id => v = u /\ r = s
    BY <1>5, <2>1 DEF IInv, OneHolder
  <2>3. \A v \in Workers : claimed'[v] \cap running'[v] = {}
    BY <1>3, <1>4, <1>5 DEF IInv, OneHolder, Held
  <2>4. QED BY <2>2, <2>3 DEF OneHolder
<1>11. AttemptsAccount'
  BY <1>1, <1>2, <1>6 DEF IInv, AttemptsAccount
<1>12. QED BY <1>7, <1>8, <1>9, <1>10, <1>11 DEF IInv
\* The job of a running row ends and its outcome is written: the row leaves
\* executing with an accounted number of attempts, and only that row changes.
LEMMA OutcomeStep ==
  ASSUME IInv, TypeOK', NEW w \in Workers, NEW row \in running[w],
         running' = [running EXCEPT ![w] = @ \ {row}],
         UNCHANGED <<now, setup, cand, claimed, doomed, performs>>,
         \A k \in Jobs : k # row.id => rows'[k] = rows[k],
         rows'[row.id].state \in {"available", "finished", "failed"},
         rows'[row.id].maxAttempts = rows[row.id].maxAttempts,
         rows'[row.id].state = "finished" => rows'[row.id].attempts = rows[row.id].attempts,
         rows'[row.id].state = "available" =>
           /\ rows'[row.id].attempts = row.attempts + 1
           /\ row.attempts + 1 < rows[row.id].maxAttempts,
         rows'[row.id].state = "failed" =>
           /\ rows'[row.id].attempts = row.attempts + 1
           /\ row.attempts + 1 >= rows[row.id].maxAttempts
  PROVE  IInv'
<1>1. row.id \in Jobs /\ row.attempts \in Nat
  BY DEF IInv, TypeOK, Copy
<1>2. /\ rows[row.id].state = "executing"
      /\ rows[row.id].attempts = row.attempts
      /\ performs[row.id] = row.attempts + 1
      /\ row.attempts < rows[row.id].maxAttempts
      /\ rows[row.id].maxAttempts \in Nat
  <2>1. /\ rows[row.id].state = "executing" /\ rows[row.id].attempts = row.attempts
        /\ performs[row.id] = row.attempts + 1
    BY DEF IInv, HeldRows
  <2>2. QED BY <1>1, <2>1 DEF IInv, AttemptsAccount, TypeOK, Row
<1>3. /\ running'[w] = running[w] \ {row}
      /\ \A v \in Workers : v # w => running'[v] = running[v]
  BY DEF IInv, TypeOK
<1>4. \A v \in Workers : \A r \in Held(v)' : r \in Held(v) /\ r # row /\ r.id # row.id /\ r.id \in Jobs
  BY <1>3 DEF IInv, OneHolder, Held, TypeOK, Copy
<1>5. HeldRows'
  <2>1. \A v \in Workers : \A r \in Held(v)' : rows'[r.id] = rows[r.id]
    BY <1>4
  <2>2. \A v \in Workers : claimed'[v] = claimed[v] /\ running'[v] \subseteq running[v]
    BY <1>3
  <2>3. QED BY <2>1, <2>2 DEF IInv, HeldRows, Held
<1>6. LockedRows'
  <2>1. \A v \in Workers : \A k \in cand[v] : k \in Jobs /\ k # row.id
    BY <1>2 DEF IInv, LockedRows, TypeOK
  <2>2. QED BY <2>1 DEF IInv, LockedRows, rowLocking
<1>7. DoomedRows'
  <2>1. \A v \in Workers : \A k \in doomed[v] : k \in Jobs /\ k # row.id
    BY <1>2 DEF IInv, DoomedRows, TypeOK
  <2>2. QED BY <2>1 DEF IInv, DoomedRows
<1>8. OneHolder'
  <2>1. \A v, u \in Workers : \A r \in Held(v)', s \in Held(u)' : r.id = s.id => v = u /\ r = s
    BY <1>4 DEF IInv, OneHolder
  <2>2. \A v \in Workers : claimed'[v] \cap running'[v] = {}
    BY <1>3 DEF IInv, OneHolder
  <2>3. QED BY <2>1, <2>2 DEF OneHolder
<1>9. AttemptsAccount'
  <2>1. \A k \in Jobs : k # row.id => rows'[k] = rows[k] /\ performs'[k] = performs[k]
    OBVIOUS
  <2>2. QED BY <1>1, <1>2, <2>1 DEF IInv, AttemptsAccount
<1>10. QED BY <1>5, <1>6, <1>7, <1>8, <1>9 DEF IInv

LEMMA EnqueueStep ==
  ASSUME IInv, TypeOK', NEW j \in Jobs, NEW opt \in MaxAttemptsOpts, NEW delay \in Delays,
         Enqueue(j, opt, delay)
  PROVE  IInv'
<1>1. /\ rows[j].state = "none" /\ performs[j] = 0
      /\ UNCHANGED <<now, setup, procVars, performs>>
      /\ \A k \in Jobs : k # j => rows'[k] = rows[k]
  BY DEF Enqueue, IInv, TypeOK
<1>2. rows'[j] = [NoRow EXCEPT !.state = "available", !.scheduledAt = now + delay,
                               !.maxAttempts = EnqueuedMaxAttempts(opt)]
  BY DEF Enqueue, IInv, TypeOK
<1>3. /\ rows'[j].state = "available" /\ rows'[j].attempts = 0
      /\ rows'[j].maxAttempts = EnqueuedMaxAttempts(opt)
  BY <1>2 DEF NoRow
<1>4. HeldRows'
  <2>1. \A v \in Workers : \A r \in Held(v) : r.id \in Jobs /\ r.id # j
    BY <1>1 DEF IInv, HeldRows, Held, TypeOK, Copy
  <2>2. QED BY <1>1, <2>1 DEF IInv, HeldRows, Held, procVars
<1>5. LockedRows'
  <2>1. \A v \in Workers : \A k \in cand[v] : k \in Jobs /\ k # j
    BY <1>1 DEF IInv, LockedRows, TypeOK
  <2>2. QED BY <1>1, <2>1 DEF IInv, LockedRows, rowLocking, procVars
<1>6. DoomedRows'
  <2>1. \A v \in Workers : \A k \in doomed[v] : k \in Jobs /\ k # j
    BY <1>1 DEF IInv, DoomedRows, TypeOK
  <2>2. QED BY <1>1, <2>1 DEF IInv, DoomedRows, procVars
<1>7. OneHolder'
  BY <1>1 DEF IInv, OneHolder, Held, procVars
<1>8. AttemptsAccount'
  BY <1>1, <1>3, MaxAttemptsPositive DEF IInv, AttemptsAccount
<1>9. QED BY <1>4, <1>5, <1>6, <1>7, <1>8 DEF IInv

LEMMA HandOffStep ==
  ASSUME IInv, TypeOK', NEW w \in Workers, HandOff(w)
  PROVE  IInv'
<1>1. PICK row \in claimed[w] :
        /\ claimed' = [claimed EXCEPT ![w] = @ \ {row}]
        /\ running' = [running EXCEPT ![w] = @ \cup {row}]
        /\ performs' = [performs EXCEPT ![row.id] = @ + 1]
  BY DEF HandOff
<1>2. UNCHANGED <<now, setup, rows, cand, doomed>>
  BY DEF HandOff
<1>3. row.id \in Jobs /\ row.attempts \in Nat
  BY DEF IInv, TypeOK, Copy
<1>4. /\ rows[row.id].state = "executing"
      /\ rows[row.id].attempts = row.attempts
      /\ performs[row.id] = row.attempts
  BY DEF IInv, HeldRows
<1>5. /\ performs'[row.id] = row.attempts + 1
      /\ \A k \in Jobs : k # row.id => performs'[k] = performs[k]
  BY <1>1, <1>3, <1>4 DEF IInv, TypeOK
<1>6. /\ claimed'[w] = claimed[w] \ {row} /\ running'[w] = running[w] \cup {row}
      /\ \A v \in Workers : v # w => claimed'[v] = claimed[v] /\ running'[v] = running[v]
  BY <1>1 DEF IInv, TypeOK
<1>7. \A v \in Workers : \A r \in Held(v) : r.id \in Jobs /\ (r.id = row.id => v = w /\ r = row)
  BY DEF IInv, OneHolder, Held, TypeOK, Copy
<1>8. \A v \in Workers : Held(v)' = Held(v)
  BY <1>6 DEF Held
<1>9. HeldRows'
  <2> SUFFICES ASSUME NEW v \in Workers
               PROVE  /\ \A r \in claimed'[v] : /\ rows[r.id].state = "executing"
                                                /\ rows[r.id].attempts = r.attempts
                                                /\ performs'[r.id] = r.attempts
                      /\ \A r \in running'[v] : /\ rows[r.id].state = "executing"
                                                /\ rows[r.id].attempts = r.attempts
                                                /\ performs'[r.id] = r.attempts + 1
    BY <1>2 DEF HeldRows
  <2>1. \A r \in claimed'[v] : r \in claimed[v] /\ r.id # row.id /\ r.id \in Jobs
    BY <1>6, <1>7 DEF Held
  <2>2. \A r \in running'[v] : r = row \/ (r \in running[v] /\ r.id \in Jobs)
    BY <1>6, <1>7 DEF Held
  <2>3. \A r \in running[v] : r.id # row.id
    BY <1>7 DEF Held, IInv, OneHolder
  <2>4. QED BY <1>4, <1>5, <2>1, <2>2, <2>3 DEF IInv, HeldRows
<1>10. LockedRows'
  BY <1>2 DEF IInv, LockedRows, rowLocking
<1>11. DoomedRows'
  <2>1. \A v \in Workers : \A k \in doomed[v] : k \in Jobs /\ k # row.id
    BY <1>4 DEF IInv, DoomedRows, TypeOK
  <2>2. QED BY <1>2, <1>5, <2>1 DEF IInv, DoomedRows
<1>12. OneHolder'
  <2>1. \A v \in Workers : claimed'[v] \cap running'[v] = {}
    BY <1>6 DEF IInv, OneHolder
  <2>2. QED BY <1>8, <2>1 DEF IInv, OneHolder
<1>13. AttemptsAccount'
  BY <1>2, <1>3, <1>4, <1>5 DEF IInv, AttemptsAccount
<1>14. QED BY <1>9, <1>10, <1>11, <1>12, <1>13 DEF IInv
LEMMA CleanupStep ==
  ASSUME IInv, TypeOK', NEW w \in Workers, StartCleanup(w) \/ EndCleanup(w)
  PROVE  IInv'
<1>1. CASE StartCleanup(w)
  <2>1. PICK ids \in SUBSET Stale(now - Retention) : doomed' = [doomed EXCEPT ![w] = ids]
    BY <1>1 DEF StartCleanup
  <2>2. UNCHANGED <<now, setup, rows, cand, claimed, running, performs>>
    BY <1>1 DEF StartCleanup
  <2>3. DoomedRows'
    <3> SUFFICES ASSUME NEW v \in Workers, NEW j \in doomed'[v]
                 PROVE  /\ rows[j].state \in {"finished", "none"}
                        /\ performs[j] # 0
                        /\ rows[j].state = "finished" => rows[j].finishedAt + Retention <= now
      BY <2>2 DEF DoomedRows
    <3>1. CASE j \in doomed[v]
      BY <3>1 DEF IInv, DoomedRows
    <3>2. CASE j \notin doomed[v]
      <4>1. j \in ids
        BY <2>1, <3>2 DEF IInv, TypeOK
      <4>2. j \in Jobs /\ rows[j].state = "finished" /\ rows[j].finishedAt <= now - Retention
        BY <4>1 DEF Stale
      <4>3. performs[j] = rows[j].attempts + 1 /\ rows[j].attempts \in Nat
        BY <4>2 DEF IInv, AttemptsAccount, TypeOK, Row
      <4>4. rows[j].finishedAt \in Int /\ now \in Nat /\ Retention \in Nat
        BY <4>2, DbQueueAssumption DEF IInv, TypeOK, Row
      <4>5. QED BY <4>2, <4>3, <4>4
    <3>3. QED BY <3>1, <3>2
  <2>4. HeldRows' /\ LockedRows' /\ OneHolder' /\ AttemptsAccount'
    BY <2>2 DEF IInv, HeldRows, LockedRows, OneHolder, AttemptsAccount, Held, rowLocking
  <2>5. QED BY <2>3, <2>4 DEF IInv
<1>2. CASE EndCleanup(w)
  <2>1. UNCHANGED <<now, setup, cand, claimed, running, performs>>
    BY <1>2 DEF EndCleanup
  <2>2. \A v \in Workers : doomed'[v] \subseteq doomed[v]
    BY <1>2 DEF EndCleanup, IInv, TypeOK
  <2>3. CASE UNCHANGED rows
    BY <2>1, <2>2, <2>3, LetGoStep DEF IInv, TypeOK
  <2>4. CASE rows' = [j \in Jobs |-> IF j \in doomed[w] THEN NoRow ELSE rows[j]]
    <3>1. \A j \in Jobs : rows'[j] = rows[j] \/ (j \in doomed[w] /\ rows'[j].state = "none")
      BY <2>4 DEF NoRow
    <3>2. \A j \in doomed[w] : rows[j].state \notin {"executing", "available"}
      BY DEF IInv, DoomedRows
    <3>3. HeldRows'
      <4>1. \A v \in Workers : \A r \in Held(v) : r.id \in Jobs /\ rows'[r.id] = rows[r.id]
        BY <3>1, <3>2 DEF IInv, HeldRows, Held, TypeOK, Copy
      <4>2. QED BY <2>1, <4>1 DEF IInv, HeldRows, Held
    <3>4. LockedRows'
      <4>1. \A v \in Workers : \A k \in cand[v] : k \in Jobs /\ rows'[k] = rows[k]
        BY <3>1, <3>2 DEF IInv, LockedRows, TypeOK
      <4>2. QED BY <2>1, <4>1 DEF IInv, LockedRows, rowLocking
    <3>5. DoomedRows'
      <4>1. \A v \in Workers : \A k \in doomed'[v] :
              k \in doomed[v] /\ k \in Jobs /\ (rows'[k] = rows[k] \/ rows'[k].state = "none")
        BY <2>2, <3>1 DEF IInv, TypeOK
      <4>2. QED BY <2>1, <4>1 DEF IInv, DoomedRows
    <3>6. OneHolder'
      BY <2>1 DEF IInv, OneHolder, Held
    <3>7. AttemptsAccount'
      BY <2>1, <3>1 DEF IInv, AttemptsAccount
    <3>8. QED BY <3>3, <3>4, <3>5, <3>6, <3>7 DEF IInv
  <2>5. QED BY <1>2, <2>3, <2>4 DEF EndCleanup
<1>3. QED BY <1>1, <1>2

LEMMA NextIInv == IInv /\ [Next]_vars => IInv'
<1> SUFFICES ASSUME IInv, [Next]_vars PROVE IInv'
  OBVIOUS
<1>0. TypeOK /\ TypeOK'
  BY NextTypeOK DEF IInv
<1>1. CASE Tick
  BY <1>0, <1>1, LetGoStep DEF Tick, procVars, TypeOK
<1>2. ASSUME NEW j \in Jobs, NEW opt \in MaxAttemptsOpts, NEW delay \in Delays,
             Enqueue(j, opt, delay)
      PROVE  IInv'
  BY <1>0, <1>2, EnqueueStep
<1>3. ASSUME NEW w \in Workers, RunStep(w) PROVE IInv'
  <2>1. CASE StartPoll(w)
    BY <1>0, <2>1, LetGoStep DEF StartPoll, TypeOK
  <2>2. CASE claimOneSQLite(w)
    <3>1. PICK j \in Candidates(w) : MarkExecuting(w, j)
      BY <2>2 DEF claimOneSQLite
    <3>2. \A v \in Workers : j \notin cand[v]
      BY <2>2 DEF claimOneSQLite, IInv, LockedRows
    <3>3. QED BY <1>0, <2>2, <3>1, <3>2, CandidateFacts, MarkStep DEF claimOneSQLite
  <2>3. CASE claimOneLocking(w)
    <3>1. PICK j \in Candidates(w) : cand' = [cand EXCEPT ![w] = {j}]
      BY <2>3 DEF claimOneLocking
    <3>2. j \in Jobs /\ rows[j].state = "available" /\ \A v \in Workers : j \notin cand[v]
      BY <2>3, <3>1, CandidateFacts DEF claimOneLocking
    <3>3. UNCHANGED <<now, setup, rows, claimed, running, doomed, performs>>
      BY <2>3 DEF claimOneLocking
    <3>4. LockedRows'
      BY <1>0, <2>3, <3>1, <3>2, <3>3 DEF IInv, LockedRows, rowLocking, TypeOK, claimOneLocking
    <3>5. HeldRows' /\ DoomedRows' /\ OneHolder' /\ AttemptsAccount'
      BY <3>3 DEF IInv, HeldRows, DoomedRows, OneHolder, AttemptsAccount, Held
    <3>6. QED BY <1>0, <3>4, <3>5 DEF IInv
  <2>4. CASE CommitClaim(w)
    <3>1. PICK j \in cand[w] : MarkExecuting(w, j)
      BY <2>4 DEF CommitClaim
    <3>2. j \in Jobs /\ rows[j].state = "available"
      BY <1>0 DEF IInv, LockedRows, TypeOK
    <3>3. \A v \in Workers : cand'[v] \subseteq cand[v] /\ j \notin cand'[v]
      BY <1>0, <2>4 DEF CommitClaim, IInv, LockedRows, TypeOK
    <3>4. QED BY <1>0, <2>4, <3>1, <3>2, <3>3, MarkStep DEF CommitClaim
  <2>5. CASE EndClaim(w)
    BY <1>0, <2>5, LetGoStep DEF EndClaim, TypeOK
  <2>6. CASE ClaimError(w)
    BY <1>0, <2>6, LetGoStep DEF ClaimError, TypeOK
  <2>7. CASE HandOff(w)
    BY <1>0, <2>7, HandOffStep
  <2>8. CASE StartCleanup(w) \/ EndCleanup(w)
    BY <1>0, <2>8, CleanupStep
  <2>9. CASE StopPolling(w)
    BY <1>0, <2>9, LetGoStep DEF StopPolling, TypeOK
  <2>10. CASE ReturnFromRun(w)
    BY <1>0, <2>10, LetGoStep DEF ReturnFromRun, TypeOK
  <2>11. QED
    BY <1>3, <2>1, <2>2, <2>3, <2>4, <2>5, <2>6, <2>7, <2>8, <2>9, <2>10 DEF RunStep
<1>4. ASSUME NEW w \in Workers, DispatchStep(w) PROVE IInv'
  <2>1. PICK row \in running[w] : Finish(w, row) \/ Fail(w, row) \/ RecordError(w, row)
    BY <1>4 DEF DispatchStep
  <2>2. row.id \in Jobs /\ row.attempts \in Nat /\ rows[row.id] \in Row
    BY <1>0, <2>1 DEF TypeOK, Copy
  <2>3. CASE Finish(w, row)
    <3>1. rows' = [rows EXCEPT ![row.id] = [@ EXCEPT !.state = "finished", !.finishedAt = now]]
      BY <2>3 DEF Finish
    <3>2. /\ rows'[row.id].state = "finished"
          /\ rows'[row.id].attempts = rows[row.id].attempts
          /\ rows'[row.id].maxAttempts = rows[row.id].maxAttempts
          /\ \A k \in Jobs : k # row.id => rows'[k] = rows[k]
      BY <1>0, <2>2, <3>1 DEF TypeOK, Row
    <3>3. QED BY <1>0, <2>3, <3>2, OutcomeStep DEF Finish
  <2>4. CASE Fail(w, row)
    <3> DEFINE attempts == row.attempts + 1
    <3>1. CASE /\ Exhausted(row.id, attempts)
               /\ rows' = [rows EXCEPT ![row.id] =
                             [@ EXCEPT !.attempts = attempts, !.state = "failed"]]
      <4>1. /\ rows'[row.id].state = "failed"
            /\ rows'[row.id].attempts = attempts
            /\ rows'[row.id].maxAttempts = rows[row.id].maxAttempts
            /\ \A k \in Jobs : k # row.id => rows'[k] = rows[k]
        BY <1>0, <2>2, <3>1 DEF TypeOK, Row
      <4>2. attempts >= rows[row.id].maxAttempts
        BY <3>1 DEF Exhausted
      <4>3. QED BY <1>0, <2>4, <4>1, <4>2, OutcomeStep DEF Fail
    <3>2. ASSUME NEW d \in computeBackoff(attempts), ~Exhausted(row.id, attempts),
                 rows' = [rows EXCEPT ![row.id] =
                            [@ EXCEPT !.attempts = attempts, !.state = "available",
                                      !.scheduledAt = now + d]]
          PROVE  IInv'
      <4>1. /\ rows'[row.id].state = "available"
            /\ rows'[row.id].attempts = attempts
            /\ rows'[row.id].maxAttempts = rows[row.id].maxAttempts
            /\ \A k \in Jobs : k # row.id => rows'[k] = rows[k]
        BY <1>0, <2>2, <3>2 DEF TypeOK, Row
      <4>2. attempts < rows[row.id].maxAttempts
        BY <2>2, <3>2 DEF Exhausted, Row
      <4>3. QED BY <1>0, <2>4, <4>1, <4>2, OutcomeStep DEF Fail
    <3>3. QED BY <2>4, <3>1, <3>2 DEF Fail
  <2>5. CASE RecordError(w, row)
    BY <1>0, <2>5, LetGoStep DEF RecordError, TypeOK
  <2>6. QED BY <2>1, <2>3, <2>4, <2>5
<1>5. ASSUME NEW w \in Workers, Cancel(w) PROVE IInv'
  BY <1>0, <1>5, LetGoStep DEF Cancel, TypeOK
<1>6. ASSUME NEW w \in Workers, Crash(w) PROVE IInv'
  BY <1>0, <1>6, LetGoStep DEF Crash, TypeOK
<1>7. ASSUME NEW w \in Workers, Restart(w) PROVE IInv'
  BY <1>0, <1>7, LetGoStep DEF Restart, TypeOK
<1>8. CASE UNCHANGED vars
  BY <1>0, <1>8, LetGoStep DEF vars, TypeOK
<1>9. QED
  BY <1>1, <1>2, <1>3, <1>4, <1>5, <1>6, <1>7, <1>8 DEF Next

LEMMA Inductive == Spec => []IInv
BY InitIInv, NextIInv, PTL DEF Spec

\* However many processes poll the table, fail, crash and restart, and with
\* either claim implementation, no row is ever in the hands of two of them.
THEOREM NeverClaimedTwice == Spec => []OneHolder
<1>1. IInv => OneHolder
  BY DEF IInv
<1>2. QED BY <1>1, Inductive, PTL

\* The attempts column counts the failed performances exactly, and a job is
\* given up exactly when they reach MaxAttempts.
THEOREM AttemptsAreExact == Spec => []AttemptsAccount
<1>1. IInv => AttemptsAccount
  BY DEF IInv
<1>2. QED BY <1>1, Inductive, PTL
\* A settled row never changes again, except that cleanup deletes a finished
\* row whose retention is over; a row that is not settled is never deleted.
THEOREM SettledRowsStay == Spec => SettledStays
<1>1. IInv /\ [Next]_vars => [SettledStep]_vars
  <2> SUFFICES ASSUME IInv, Next PROVE SettledStep
    OBVIOUS
  <2>0. TypeOK
    BY DEF IInv
  <2>1. ASSUME UNCHANGED rows PROVE SettledStep
    BY <2>1 DEF SettledStep
  <2>2. CASE Tick
    BY <2>1, <2>2 DEF Tick
  <2>3. ASSUME NEW j \in Jobs, NEW opt \in MaxAttemptsOpts, NEW delay \in Delays,
               Enqueue(j, opt, delay)
        PROVE  SettledStep
    BY <2>0, <2>3 DEF Enqueue, SettledStep, TypeOK, Row
  <2>4. ASSUME NEW w \in Workers, NEW j \in Jobs, rows[j].state = "available",
               MarkExecuting(w, j)
        PROVE  SettledStep
    BY <2>0, <2>4 DEF MarkExecuting, SettledStep, TypeOK, Row
  <2>5. ASSUME NEW w \in Workers, RunStep(w) PROVE SettledStep
    <3>1. CASE claimOneSQLite(w)
      BY <2>4, <3>1, CandidateFacts DEF claimOneSQLite
    <3>2. CASE CommitClaim(w)
      BY <2>0, <2>4, <3>2 DEF CommitClaim, IInv, LockedRows, TypeOK
    <3>3. CASE EndCleanup(w)
      <4>1. CASE rows' = [j \in Jobs |-> IF j \in doomed[w] THEN NoRow ELSE rows[j]]
        <5>1. \A j \in doomed[w] : /\ rows[j].state \in {"finished", "none"}
                                   /\ rows[j].state = "finished" =>
                                        rows[j].finishedAt + Retention <= now
          BY DEF IInv, DoomedRows
        <5>2. QED BY <4>1, <5>1 DEF SettledStep
      <4>2. QED BY <2>1, <3>3, <4>1 DEF EndCleanup
    <3>4. CASE \/ StartPoll(w) \/ claimOneLocking(w) \/ EndClaim(w) \/ ClaimError(w)
               \/ HandOff(w) \/ StartCleanup(w) \/ StopPolling(w) \/ ReturnFromRun(w)
      BY <2>1, <3>4 DEF StartPoll, claimOneLocking, EndClaim, ClaimError, HandOff,
                        StartCleanup, StopPolling, ReturnFromRun
    <3>5. QED BY <2>5, <3>1, <3>2, <3>3, <3>4 DEF RunStep
  <2>6. ASSUME NEW w \in Workers, DispatchStep(w) PROVE SettledStep
    <3>1. PICK row \in running[w] : Finish(w, row) \/ Fail(w, row) \/ RecordError(w, row)
      BY <2>6 DEF DispatchStep
    <3>2. row.id \in Jobs /\ rows[row.id].state = "executing" /\ rows[row.id] \in Row
      BY <2>0 DEF IInv, HeldRows, TypeOK, Copy
    <3>3. CASE Finish(w, row)
      BY <2>0, <3>2, <3>3 DEF Finish, SettledStep, TypeOK, Row
    <3>4. CASE Fail(w, row)
      <4>1. \A k \in Jobs : k # row.id => rows'[k] = rows[k]
        BY <2>0, <3>2, <3>4 DEF Fail, TypeOK
      <4>2. rows'[row.id].state \in {"failed", "available"}
        <5> DEFINE attempts == row.attempts + 1
        <5>1. CASE rows' = [rows EXCEPT ![row.id] =
                              [@ EXCEPT !.attempts = attempts, !.state = "failed"]]
          BY <2>0, <3>2, <5>1 DEF TypeOK, Row
        <5>2. ASSUME NEW d, rows' = [rows EXCEPT ![row.id] =
                              [@ EXCEPT !.attempts = attempts, !.state = "available",
                                        !.scheduledAt = now + d]]
              PROVE  rows'[row.id].state = "available"
          BY <2>0, <3>2, <5>2 DEF TypeOK, Row
        <5>3. QED BY <3>4, <5>1, <5>2 DEF Fail
      <4>3. QED BY <3>2, <4>1, <4>2 DEF SettledStep
    <3>5. CASE RecordError(w, row)
      BY <2>1, <3>5 DEF RecordError
    <3>6. QED BY <3>1, <3>3, <3>4, <3>5
  <2>7. ASSUME NEW w \in Workers, Cancel(w) \/ Crash(w) \/ Restart(w) PROVE SettledStep
    BY <2>1, <2>7 DEF Cancel, Crash, Restart
  <2>8. QED BY <2>2, <2>3, <2>5, <2>6, <2>7 DEF Next
<1>2. QED BY <1>1, Inductive, PTL DEF Spec, SettledStays
-----------------------------------------------------------------------------
(* Rows left behind.                                                       *)

\* A job's outcome takes its row out of executing and touches no other row.
LEMMA OutcomeRows ==
  ASSUME IInv, NEW w \in Workers, NEW row \in running[w], Finish(w, row) \/ Fail(w, row)
  PROVE  /\ row.id \in Jobs
         /\ \A k \in Jobs : k # row.id => rows'[k] = rows[k]
         /\ rows'[row.id].state # "executing"
<1>0. row.id \in Jobs /\ rows[row.id] \in Row /\ rows \in [Jobs -> Row]
  BY DEF IInv, TypeOK, Copy
<1>1. CASE Finish(w, row)
  BY <1>0, <1>1 DEF Finish, Row
<1>2. CASE Fail(w, row)
  <2> DEFINE attempts == row.attempts + 1
  <2>1. CASE rows' = [rows EXCEPT ![row.id] =
                        [@ EXCEPT !.attempts = attempts, !.state = "failed"]]
    BY <1>0, <2>1 DEF Row
  <2>2. ASSUME NEW d, rows' = [rows EXCEPT ![row.id] =
                        [@ EXCEPT !.attempts = attempts, !.state = "available",
                                  !.scheduledAt = now + d]]
        PROVE  /\ \A k \in Jobs : k # row.id => rows'[k] = rows[k]
               /\ rows'[row.id].state # "executing"
    BY <1>0, <2>2 DEF Row
  <2>3. QED BY <1>0, <1>2, <2>1, <2>2 DEF Fail
<1>3. QED BY <1>1, <1>2

\* Before the first fault no ctx is done, and every executing row is held.
NoneCancelled == faults = 0 => \A w \in Workers : ~cancelled[w]

OrphanInv == NoneCancelled /\ NoOrphanWithoutFault

\* Steps that keep every held row held, and mark no other row executing.
LEMMA KeepsHeld ==
  ASSUME NoOrphanWithoutFault, faults' = 0 => faults = 0,
         \A j \in Jobs : rows'[j].state = "executing" => rows[j].state = "executing",
         \A w \in Workers : \A r \in Held(w) : rows'[r.id].state = "executing" => r \in Held(w)'
  PROVE  NoOrphanWithoutFault'
BY DEF NoOrphanWithoutFault

LEMMA NextNoneCancelled == IInv /\ NoneCancelled /\ [Next]_vars => NoneCancelled'
<1> SUFFICES ASSUME IInv, NoneCancelled, [Next]_vars PROVE NoneCancelled'
  OBVIOUS
<1>0. cancelled \in [Workers -> BOOLEAN] /\ faults \in Nat
  BY DEF IInv, TypeOK
<1>1. \/ UNCHANGED <<faults, cancelled>>
      \/ faults' = faults + 1
      \/ UNCHANGED faults /\ \E w \in Workers : cancelled' = [cancelled EXCEPT ![w] = FALSE]
  <2>1. ASSUME NEW w \in Workers, RunStep(w)
        PROVE  UNCHANGED <<faults, cancelled>> \/ faults' = faults + 1
    BY <2>1 DEF RunStep, procVars, StartPoll, claimOneSQLite, claimOneLocking, CommitClaim, EndClaim,
                ClaimError, StatementFails, HandOff, StartCleanup, EndCleanup, StopPolling, ReturnFromRun
  <2>2. ASSUME NEW w \in Workers, DispatchStep(w)
        PROVE  UNCHANGED <<faults, cancelled>> \/ faults' = faults + 1
    BY <2>2 DEF DispatchStep, procVars, Finish, Fail, RecordError
  <2>3. ASSUME NEW w \in Workers, Cancel(w) \/ Crash(w) PROVE faults' = faults + 1
    BY <2>3 DEF Cancel, Crash
  <2>4. ASSUME NEW w \in Workers, Restart(w)
        PROVE  UNCHANGED faults /\ \E v \in Workers : cancelled' = [cancelled EXCEPT ![v] = FALSE]
    BY <2>4 DEF Restart
  <2>5. CASE Tick \/ (\E j \in Jobs, opt \in MaxAttemptsOpts, delay \in Delays : Enqueue(j, opt, delay))
             \/ UNCHANGED vars
    BY <2>5 DEF Tick, Enqueue, procVars, vars
  <2>6. QED BY <2>1, <2>2, <2>3, <2>4, <2>5 DEF Next
<1>2. CASE UNCHANGED <<faults, cancelled>>
  BY <1>2 DEF NoneCancelled
<1>3. CASE faults' = faults + 1
  BY <1>0, <1>3 DEF NoneCancelled
<1>4. CASE UNCHANGED faults /\ \E w \in Workers : cancelled' = [cancelled EXCEPT ![w] = FALSE]
  BY <1>0, <1>4 DEF NoneCancelled
<1>5. QED BY <1>1, <1>2, <1>3, <1>4

LEMMA NextNoOrphan == IInv /\ OrphanInv /\ [Next]_vars => NoOrphanWithoutFault'
<1> SUFFICES ASSUME IInv, NoneCancelled, NoOrphanWithoutFault, [Next]_vars
             PROVE  NoOrphanWithoutFault'
  BY DEF OrphanInv
<1>0. TypeOK /\ faults \in Nat
  BY DEF IInv, TypeOK
<1>1. ASSUME UNCHANGED <<rows, claimed, running>>, faults' = 0 => faults = 0
      PROVE  NoOrphanWithoutFault'
  BY <1>1 DEF NoOrphanWithoutFault, Held
<1>2. ASSUME faults' = faults + 1 PROVE NoOrphanWithoutFault'
  BY <1>0, <1>2 DEF NoOrphanWithoutFault
<1>3. ASSUME NEW w \in Workers, NEW j \in Jobs, MarkExecuting(w, j),
             UNCHANGED <<running, faults>>
      PROVE  NoOrphanWithoutFault'
  <2>1. \A k \in Jobs : k # j => rows'[k] = rows[k]
    BY <1>0, <1>3 DEF MarkExecuting, TypeOK
  <2>2. [id |-> j, attempts |-> rows[j].attempts] \in Held(w)'
    BY <1>0, <1>3 DEF MarkExecuting, TypeOK, Held
  <2>3. \A v \in Workers : Held(v) \subseteq Held(v)'
    BY <1>0, <1>3 DEF MarkExecuting, TypeOK, Held
  <2>4. QED BY <1>3, <2>1, <2>2, <2>3 DEF NoOrphanWithoutFault
<1>4. CASE Tick
  BY <1>1, <1>4 DEF Tick, procVars
<1>5. ASSUME NEW j \in Jobs, NEW opt \in MaxAttemptsOpts, NEW delay \in Delays,
             Enqueue(j, opt, delay)
      PROVE  NoOrphanWithoutFault'
  <2>1. \A k \in Jobs : rows'[k].state = "executing" => rows[k].state = "executing"
    BY <1>0, <1>5 DEF Enqueue, TypeOK, Row, NoRow
  <2>2. QED BY <1>5, <2>1, KeepsHeld DEF Enqueue, procVars, Held
<1>6. ASSUME NEW w \in Workers, RunStep(w) PROVE NoOrphanWithoutFault'
  <2>1. CASE claimOneSQLite(w)
    BY <1>3, <2>1, CandidateFacts DEF claimOneSQLite
  <2>2. CASE CommitClaim(w)
    BY <1>0, <1>3, <2>2 DEF CommitClaim, TypeOK
  <2>3. CASE ClaimError(w)
    <3>1. faults' # 0
      BY <1>0, <2>3 DEF ClaimError, StatementFails, NoneCancelled
    <3>2. QED BY <3>1 DEF NoOrphanWithoutFault
  <2>4. CASE HandOff(w)
    <3>1. \A v \in Workers : Held(v)' = Held(v)
      BY <1>0, <2>4 DEF HandOff, Held, TypeOK
    <3>2. QED BY <2>4, <3>1 DEF HandOff, NoOrphanWithoutFault
  <2>5. CASE EndCleanup(w)
    <3>1. \A k \in Jobs : rows'[k].state = "executing" => rows[k].state = "executing"
      BY <2>5 DEF EndCleanup, NoRow
    <3>2. faults' = 0 => faults = 0
      BY <1>0, <2>5 DEF EndCleanup, StatementFails
    <3>3. QED BY <2>5, <3>1, <3>2, KeepsHeld DEF EndCleanup, Held
  <2>6. CASE \/ StartPoll(w) \/ claimOneLocking(w) \/ EndClaim(w)
             \/ StartCleanup(w) \/ StopPolling(w) \/ ReturnFromRun(w)
    BY <1>1, <2>6 DEF StartPoll, claimOneLocking, EndClaim, StartCleanup,
                      StopPolling, ReturnFromRun
  <2>7. QED BY <1>6, <2>1, <2>2, <2>3, <2>4, <2>5, <2>6 DEF RunStep
<1>7. ASSUME NEW w \in Workers, DispatchStep(w) PROVE NoOrphanWithoutFault'
  <2>1. PICK row \in running[w] : Finish(w, row) \/ Fail(w, row) \/ RecordError(w, row)
    BY <1>7 DEF DispatchStep
  <2>2. CASE RecordError(w, row)
    BY <1>2, <2>2 DEF RecordError
  <2>3. CASE Finish(w, row) \/ Fail(w, row)
    <3>1. /\ row.id \in Jobs
          /\ \A k \in Jobs : k # row.id => rows'[k] = rows[k]
          /\ rows'[row.id].state # "executing"
      BY <2>3, OutcomeRows
    <3>2. /\ claimed' = claimed /\ faults' = faults
          /\ running' = [running EXCEPT ![w] = @ \ {row}]
      BY <2>3 DEF Finish, Fail
    <3>3. \A v \in Workers : \A r \in Held(v) : r # row => r \in Held(v)'
      BY <1>0, <3>2 DEF Held, TypeOK
    <3>4. QED BY <3>1, <3>2, <3>3, KeepsHeld
  <2>4. QED BY <2>1, <2>2, <2>3
<1>8. ASSUME NEW w \in Workers, Cancel(w) \/ Crash(w) \/ Restart(w)
      PROVE  NoOrphanWithoutFault'
  BY <1>1, <1>2, <1>8 DEF Cancel, Crash, Restart
<1>9. CASE UNCHANGED vars
  BY <1>1, <1>9 DEF vars
<1>10. QED BY <1>4, <1>5, <1>6, <1>7, <1>8, <1>9 DEF Next

\* While no statement has failed and no process was cancelled or crashed,
\* every executing row is in the hands of a process: polling, handing over and
\* recording outcomes lose none.
THEOREM NoneLeftBehind == Spec => []NoOrphanWithoutFault
<1>1. Init => OrphanInv
  BY DEF Init, OrphanInv, NoneCancelled, NoOrphanWithoutFault, NoRow
<1>2. IInv /\ OrphanInv /\ [Next]_vars => OrphanInv'
  BY NextNoneCancelled, NextNoOrphan DEF OrphanInv
<1>3. OrphanInv => NoOrphanWithoutFault
  BY DEF OrphanInv
<1>4. QED BY <1>1, <1>2, <1>3, Inductive, PTL DEF Spec
-----------------------------------------------------------------------------
(* The concurrency limit.                                                  *)

\* The rows the guard counts at time t.
Window(t) == {k \in Keyed : rows[k].state = "executing" /\ rows[k].lockedAt > t - Duration}

\* The candidates open transactions are about to mark, which the guard does
\* not count yet.
LockedKeyed == {k \in Keyed : \E w \in Workers : k \in cand[w]}

\* What the limit is about once the open transactions have committed.
Pending == Window(now) \cup LockedKeyed

Bound == Limit + (IF rowLocking THEN Cardinality(Workers) - 1 ELSE 0)

\* A claim's time stamp is not in the future, and its transaction has locked
\* at most one row.
Polls ==
  \A w \in Workers : /\ pollNow[w] <= now
                     /\ \A j, k \in cand[w] : j = k

LimitInv == Polls /\ Cardinality(Pending) <= Bound

LEMMA BoundType == Bound \in Int /\ Cardinality(Workers) \in Nat
<1>1. Cardinality(Workers) \in Nat
  BY DbQueueAssumption, FS_CardinalityType
<1>2. QED BY <1>1, DbQueueAssumption DEF Bound

\* A set of keyed rows is finite.
LEMMA KeyedFinite ==
  ASSUME TypeOK, NEW S, S \subseteq Keyed
  PROVE  S \subseteq Jobs /\ IsFiniteSet(S) /\ Cardinality(S) \in Nat
<1>1. Keyed \subseteq Jobs
  BY DbQueueAssumption DEF TypeOK, Keyed
<1>2. S \subseteq Jobs
  BY <1>1
<1>3. IsFiniteSet(S)
  BY <1>2, DbQueueAssumption, FS_Subset
<1>4. QED BY <1>2, <1>3, FS_CardinalityType

\* A smaller set of keyed rows has no more elements.
LEMMA KeyedSubset ==
  ASSUME TypeOK, NEW S, NEW T, S \subseteq T, T \subseteq Keyed
  PROVE  /\ IsFiniteSet(S) /\ IsFiniteSet(T)
         /\ Cardinality(S) \in Nat /\ Cardinality(T) \in Nat
         /\ Cardinality(S) <= Cardinality(T)
<1>1. IsFiniteSet(T) /\ Cardinality(T) \in Nat /\ IsFiniteSet(S) /\ Cardinality(S) \in Nat
  BY KeyedFinite
<1>2. Cardinality(S) <= Cardinality(T)
  BY <1>1, FS_Subset
<1>3. QED BY <1>1, <1>2

\* Each process has at most one row locked.
LEMMA LocksPerProcess ==
  ASSUME NEW S, NEW c, \A k \in S : \E w \in Workers : k \in c[w],
         \A w \in Workers : \A j, k \in c[w] : j = k
  PROVE  IsFiniteSet(S) /\ Cardinality(S) <= Cardinality(Workers)
<1> DEFINE f == [k \in S |-> CHOOSE w \in Workers : k \in c[w]]
<1>1. \A k \in S : f[k] \in Workers /\ k \in c[f[k]]
  OBVIOUS
<1>2. \A j, k \in S : f[j] = f[k] => j = k
  BY <1>1
<1>3. f \in [S -> Workers]
  BY <1>1
<1>4. f \in Injection(S, Workers)
  <2> HIDE DEF f
  <2>1. DOMAIN f = S
    BY <1>3
  <2>2. QED BY <1>2, <1>3, <2>1 DEF Injection, IsInjective
<1>5. QED BY <1>4, DbQueueAssumption, FS_Injection

\* A step that makes no row executing and locks none leaves the bound intact.
LEMMA LimitShrinks ==
  ASSUME IInv, LimitInv, TypeOK', setup' = setup, now' >= now,
         \A k \in Jobs : rows'[k].state = "executing" =>
                           rows[k].state = "executing" /\ rows'[k].lockedAt = rows[k].lockedAt,
         \A w \in Workers : cand'[w] \subseteq cand[w] /\ pollNow'[w] \in {pollNow[w], now, 0}
  PROVE  LimitInv'
<1>0. /\ TypeOK /\ now \in Nat /\ now' \in Nat /\ Duration \in Nat
      /\ rows \in [Jobs -> Row] /\ rows' \in [Jobs -> Row]
      /\ pollNow \in [Workers -> Nat] /\ pollNow' \in [Workers -> Nat]
  BY DbQueueAssumption DEF IInv, TypeOK
<1>1. Polls'
  BY <1>0 DEF LimitInv, Polls
<1>2. Pending' \subseteq Pending
  <2> SUFFICES ASSUME NEW k \in Pending' PROVE k \in Pending
    OBVIOUS
  <2>1. k \in Keyed /\ k \in Jobs
    <3>1. k \in Keyed
      BY DEF Pending, Window, LockedKeyed, Keyed
    <3>2. QED BY <1>0, <3>1, KeyedFinite
  <2>2. CASE k \in LockedKeyed'
    BY <2>1, <2>2 DEF LockedKeyed, Pending
  <2>3. CASE k \in Window(now)'
    <3>1. /\ rows'[k].state = "executing" /\ rows'[k].lockedAt > now' - Duration
      BY <2>3 DEF Window
    <3>2. rows[k].lockedAt \in Int
      BY <1>0, <2>1 DEF Row
    <3>3. rows[k].state = "executing" /\ rows[k].lockedAt > now - Duration
      BY <1>0, <2>1, <3>1, <3>2
    <3>4. QED BY <2>1, <3>3 DEF Pending, Window
  <2>4. QED BY <2>2, <2>3 DEF Pending
<1>3. Pending \subseteq Keyed
  BY DEF Pending, Window, LockedKeyed
<1>4. /\ Cardinality(Pending') <= Cardinality(Pending)
      /\ Cardinality(Pending') \in Nat /\ Cardinality(Pending) \in Nat
  BY <1>0, <1>2, <1>3, KeyedSubset
<1>5. Bound' = Bound /\ Bound \in Int
  BY BoundType DEF Bound, rowLocking
<1>6. QED BY <1>1, <1>4, <1>5 DEF LimitInv

\* What a claim may count on: if the row has the key, the window at the time
\* of the poll had room, and has no more rows in it now.
LEMMA GuardHolds ==
  ASSUME IInv, Polls, NEW w \in Workers, NEW j \in Candidates(w), j \in Keyed
  PROVE  /\ IsFiniteSet(Window(now)) /\ Cardinality(Window(now)) \in Nat
         /\ Cardinality(Window(now)) < Limit
<1>0. /\ TypeOK /\ now \in Nat /\ Duration \in Nat /\ Limit \in Nat
      /\ rows \in [Jobs -> Row] /\ pollNow[w] \in Nat
  BY DbQueueAssumption DEF IInv, TypeOK
<1>1. Cardinality(Window(pollNow[w])) < Limit
  BY DEF Candidates, FirstOf, Claimable, concurrencyGuard, WindowCount, Window
<1>2. Window(now) \subseteq Window(pollNow[w])
  <2> SUFFICES ASSUME NEW k \in Window(now) PROVE k \in Window(pollNow[w])
    OBVIOUS
  <2>1. k \in Keyed /\ rows[k].state = "executing" /\ rows[k].lockedAt > now - Duration
    BY DEF Window
  <2>2. k \in Jobs
    BY <1>0, <2>1, KeyedFinite
  <2>3. rows[k].lockedAt \in Int
    BY <1>0, <2>2 DEF Row
  <2>4. pollNow[w] <= now
    BY DEF Polls
  <2>5. rows[k].lockedAt > pollNow[w] - Duration
    BY <1>0, <2>1, <2>3, <2>4
  <2>6. QED BY <2>1, <2>5 DEF Window
<1>3. Window(pollNow[w]) \subseteq Keyed
  BY DEF Window
<1>4. /\ IsFiniteSet(Window(now)) /\ Cardinality(Window(now)) \in Nat
      /\ Cardinality(Window(pollNow[w])) \in Nat
      /\ Cardinality(Window(now)) <= Cardinality(Window(pollNow[w]))
  BY <1>0, <1>2, <1>3, KeyedSubset
<1>5. QED BY <1>0, <1>1, <1>4

\* claimOneSQLite: the guard and the update are one statement, so that the
\* window has at most one row more than the guard saw.
LEMMA LimitSQLite ==
  ASSUME IInv, LimitInv, TypeOK', NEW w \in Workers, claimOneSQLite(w)
  PROVE  LimitInv'
<1>0. TypeOK /\ ~rowLocking /\ UNCHANGED <<now, setup, pollNow, cand>>
  BY DEF IInv, claimOneSQLite
<1>1. PICK j \in Candidates(w) : MarkExecuting(w, j)
  BY DEF claimOneSQLite
<1>2. j \in Jobs /\ \A k \in Jobs : k # j => rows'[k] = rows[k]
  BY <1>0, <1>1, CandidateFacts DEF MarkExecuting, TypeOK
<1>3. Polls'
  BY <1>0 DEF LimitInv, Polls
<1>4. LockedKeyed = {} /\ LockedKeyed' = {}
  BY <1>0 DEF LockedKeyed, IInv, LockedRows, rowLocking, Keyed
<1>5. Keyed' = Keyed /\ Keyed \subseteq Jobs
  <2>1. Keyed' = Keyed
    BY <1>0 DEF Keyed
  <2>2. QED BY <1>0, <2>1, KeyedFinite
<1>6. Pending' \subseteq Window(now) \cup {j} /\ Pending' \subseteq Keyed
  <2> SUFFICES ASSUME NEW k \in Pending' PROVE k \in Keyed /\ (k = j \/ k \in Window(now))
    OBVIOUS
  <2>1. k \in Window(now)'
    BY <1>4 DEF Pending
  <2>2. k \in Keyed /\ rows'[k].state = "executing" /\ rows'[k].lockedAt > now - Duration
    BY <1>0, <1>5, <2>1 DEF Window
  <2>3. QED BY <1>2, <1>5, <2>2 DEF Window
<1>7. Bound' = Limit /\ Bound = Limit /\ Limit \in Nat
  BY <1>0, DbQueueAssumption DEF Bound, rowLocking
<1>8. CASE j \in Keyed
  <2>1. /\ IsFiniteSet(Window(now)) /\ Cardinality(Window(now)) \in Nat
        /\ Cardinality(Window(now)) < Limit
    BY <1>1, <1>8, GuardHolds DEF LimitInv
  <2>2. /\ IsFiniteSet(Window(now) \cup {j})
        /\ Cardinality(Window(now) \cup {j}) \in {Cardinality(Window(now)), Cardinality(Window(now)) + 1}
    BY <2>1, FS_AddElement
  <2>3. Cardinality(Pending') <= Cardinality(Window(now) \cup {j}) /\ Cardinality(Pending') \in Nat
    BY <1>6, <2>2, FS_Subset, FS_CardinalityType
  <2>4. Cardinality(Pending') <= Limit
    BY <1>7, <2>1, <2>2, <2>3
  <2>5. QED BY <1>3, <1>7, <2>4 DEF LimitInv
<1>9. CASE j \notin Keyed
  <2>1. Pending' \subseteq Pending
    BY <1>6, <1>9 DEF Pending
  <2>2. Pending \subseteq Keyed
    BY DEF Pending, Window, LockedKeyed
  <2>3. /\ Cardinality(Pending') <= Cardinality(Pending)
        /\ Cardinality(Pending') \in Nat /\ Cardinality(Pending) \in Nat
    BY <1>0, <2>1, <2>2, KeyedSubset
  <2>4. QED BY <1>3, <1>7, <2>3 DEF LimitInv
<1>10. QED BY <1>8, <1>9

\* claimOneLocking: the guard sees what is committed, which is below the limit,
\* and each process has at most one candidate in an open transaction.
LEMMA LimitLocking ==
  ASSUME IInv, LimitInv, TypeOK', NEW w \in Workers, claimOneLocking(w)
  PROVE  LimitInv'
<1>0. TypeOK /\ rowLocking /\ UNCHANGED <<now, setup, rows, pollNow>>
  BY DEF IInv, claimOneLocking
<1>1. PICK j \in Candidates(w) : cand' = [cand EXCEPT ![w] = {j}]
  BY DEF claimOneLocking
<1>2. /\ cand'[w] = {j}
      /\ \A v \in Workers : v # w => cand'[v] = cand[v]
  BY <1>0, <1>1 DEF TypeOK
<1>3. Polls'
  BY <1>0, <1>2 DEF LimitInv, Polls
<1>4. Keyed' = Keyed /\ Window(now)' = Window(now)
  BY <1>0 DEF Keyed, Window
<1>5. Bound' = Bound /\ Bound = Limit + (Cardinality(Workers) - 1)
  BY <1>0 DEF Bound, rowLocking
<1>6. Limit \in Nat /\ Cardinality(Workers) \in Nat
  BY DbQueueAssumption, BoundType
<1>7. Pending' = Window(now) \cup LockedKeyed'
  BY <1>4 DEF Pending
<1>8. CASE j \in Keyed
  <2>1. /\ IsFiniteSet(Window(now)) /\ Cardinality(Window(now)) \in Nat
        /\ Cardinality(Window(now)) < Limit
    BY <1>1, <1>8, GuardHolds DEF LimitInv
  <2>2. IsFiniteSet(LockedKeyed') /\ Cardinality(LockedKeyed') <= Cardinality(Workers)
    <3>1. \A k \in LockedKeyed' : \E v \in Workers : k \in cand'[v]
      BY DEF LockedKeyed
    <3>2. \A v \in Workers : \A i, k \in cand'[v] : i = k
      BY <1>3 DEF Polls
    <3>3. QED BY <3>1, <3>2, LocksPerProcess
  <2>3. Cardinality(LockedKeyed') \in Nat
    BY <2>2, FS_CardinalityType
  <2>4. IsFiniteSet(Window(now) \cap LockedKeyed')
    BY <2>1, FS_Subset
  <2>5. Cardinality(Window(now) \cap LockedKeyed') \in Nat
    BY <2>4, FS_CardinalityType
  <2>6. Cardinality(Window(now) \cup LockedKeyed') =
          Cardinality(Window(now)) + Cardinality(LockedKeyed')
            - Cardinality(Window(now) \cap LockedKeyed')
    BY <2>1, <2>2, FS_Union
  <2>7. Cardinality(Pending') <= Bound
    BY <1>5, <1>6, <1>7, <2>1, <2>2, <2>3, <2>5, <2>6
  <2>8. QED BY <1>3, <1>5, <2>7 DEF LimitInv
<1>9. CASE j \notin Keyed
  <2>1. LockedKeyed' \subseteq LockedKeyed
    BY <1>2, <1>4, <1>9 DEF LockedKeyed
  <2>2. Pending' \subseteq Pending /\ Pending \subseteq Keyed
    BY <1>7, <2>1 DEF Pending, Window, LockedKeyed
  <2>3. /\ Cardinality(Pending') <= Cardinality(Pending)
        /\ Cardinality(Pending') \in Nat /\ Cardinality(Pending) \in Nat
    BY <1>0, <2>2, KeyedSubset
  <2>4. QED BY <1>3, <1>5, <1>6, <2>3 DEF LimitInv
<1>10. QED BY <1>8, <1>9

\* The commit marks a row that was already counted as locked.
LEMMA LimitCommit ==
  ASSUME IInv, LimitInv, TypeOK', NEW w \in Workers, CommitClaim(w)
  PROVE  LimitInv'
<1>0. TypeOK /\ UNCHANGED <<now, setup, pollNow>>
  BY DEF IInv, CommitClaim
<1>1. PICK j \in cand[w] : MarkExecuting(w, j)
  BY DEF CommitClaim
<1>2. j \in Jobs /\ \A k \in Jobs : k # j => rows'[k] = rows[k]
  BY <1>0, <1>1 DEF MarkExecuting, TypeOK
<1>3. \A v \in Workers : cand'[v] \subseteq cand[v]
  BY <1>0 DEF CommitClaim, TypeOK
<1>4. Polls'
  BY <1>0, <1>3 DEF LimitInv, Polls
<1>5. Keyed' = Keyed /\ Keyed \subseteq Jobs
  <2>1. Keyed' = Keyed
    BY <1>0 DEF Keyed
  <2>2. QED BY <1>0, <2>1, KeyedFinite
<1>6. Pending' \subseteq Pending
  <2> SUFFICES ASSUME NEW k \in Pending' PROVE k \in Pending
    OBVIOUS
  <2>1. k \in Keyed
    BY <1>5 DEF Pending, Window, LockedKeyed
  <2>2. CASE k = j
    BY <1>1, <2>1, <2>2 DEF Pending, LockedKeyed
  <2>3. CASE k # j
    <3>1. rows'[k] = rows[k]
      BY <1>2, <1>5, <2>1, <2>3
    <3>2. CASE k \in LockedKeyed'
      BY <1>3, <2>1, <3>2 DEF Pending, LockedKeyed
    <3>3. CASE k \in Window(now)'
      BY <1>0, <2>1, <3>1, <3>3 DEF Pending, Window
    <3>4. QED BY <3>2, <3>3 DEF Pending
  <2>4. QED BY <2>2, <2>3
<1>7. Pending \subseteq Keyed
  BY DEF Pending, Window, LockedKeyed
<1>8. /\ Cardinality(Pending') <= Cardinality(Pending)
      /\ Cardinality(Pending') \in Nat /\ Cardinality(Pending) \in Nat
  BY <1>0, <1>6, <1>7, KeyedSubset
<1>9. Bound' = Bound /\ Bound \in Int
  BY <1>0, BoundType DEF Bound, rowLocking
<1>10. QED BY <1>4, <1>8, <1>9 DEF LimitInv

LEMMA NextLimit == IInv /\ LimitInv /\ TypeOK' /\ [Next]_vars => LimitInv'
<1> SUFFICES ASSUME IInv, LimitInv, TypeOK', [Next]_vars PROVE LimitInv'
  OBVIOUS
<1>0. TypeOK
  BY DEF IInv
<1>1. ASSUME UNCHANGED <<setup, rows>>, now' >= now,
             \A w \in Workers : cand'[w] \subseteq cand[w] /\ pollNow'[w] \in {pollNow[w], now, 0}
      PROVE  LimitInv'
  BY <1>1, LimitShrinks
<1>2. CASE Tick
  BY <1>0, <1>1, <1>2 DEF Tick, procVars, TypeOK
<1>3. ASSUME NEW j \in Jobs, NEW opt \in MaxAttemptsOpts, NEW delay \in Delays,
             Enqueue(j, opt, delay)
      PROVE  LimitInv'
  <2>1. /\ rows'[j].state = "available"
        /\ \A k \in Jobs : k # j => rows'[k] = rows[k]
    BY <1>0, <1>3 DEF Enqueue, TypeOK, Row, NoRow
  <2>2. QED BY <1>0, <1>3, <2>1, LimitShrinks DEF Enqueue, procVars, TypeOK
<1>4. ASSUME NEW w \in Workers, RunStep(w) PROVE LimitInv'
  <2>1. CASE claimOneSQLite(w)
    BY <2>1, LimitSQLite
  <2>2. CASE claimOneLocking(w)
    BY <2>2, LimitLocking
  <2>3. CASE CommitClaim(w)
    BY <2>3, LimitCommit
  <2>4. CASE EndCleanup(w)
    <3>1. \A k \in Jobs : rows'[k].state = "executing" => rows'[k] = rows[k]
      BY <2>4 DEF EndCleanup, NoRow
    <3>2. QED BY <1>0, <2>4, <3>1, LimitShrinks DEF EndCleanup, TypeOK
  <2>5. CASE \/ StartPoll(w) \/ EndClaim(w) \/ ClaimError(w) \/ HandOff(w)
             \/ StartCleanup(w) \/ StopPolling(w) \/ ReturnFromRun(w)
    <3>1. UNCHANGED <<now, setup, rows>>
      BY <2>5 DEF StartPoll, EndClaim, ClaimError, HandOff, StartCleanup,
                  StopPolling, ReturnFromRun
    <3>2. \A v \in Workers : cand'[v] \subseteq cand[v]
      BY <1>0, <2>5 DEF StartPoll, EndClaim, ClaimError, HandOff, StartCleanup,
                        StopPolling, ReturnFromRun, TypeOK
    <3>3. \A v \in Workers : pollNow'[v] \in {pollNow[v], now, 0}
      BY <1>0, <2>5 DEF StartPoll, EndClaim, ClaimError, HandOff, StartCleanup,
                        StopPolling, ReturnFromRun, TypeOK
    <3>4. QED BY <1>0, <1>1, <3>1, <3>2, <3>3 DEF TypeOK
  <2>6. QED BY <1>4, <2>1, <2>2, <2>3, <2>4, <2>5 DEF RunStep
<1>5. ASSUME NEW w \in Workers, DispatchStep(w) PROVE LimitInv'
  <2>1. PICK row \in running[w] : Finish(w, row) \/ Fail(w, row) \/ RecordError(w, row)
    BY <1>5 DEF DispatchStep
  <2>2. CASE RecordError(w, row)
    BY <1>0, <1>1, <2>2 DEF RecordError, TypeOK
  <2>3. CASE Finish(w, row) \/ Fail(w, row)
    <3>1. /\ row.id \in Jobs
          /\ \A k \in Jobs : k # row.id => rows'[k] = rows[k]
          /\ rows'[row.id].state # "executing"
      BY <2>3, OutcomeRows
    <3>2. UNCHANGED <<now, setup, pollNow, cand>>
      BY <2>3 DEF Finish, Fail
    <3>3. QED BY <1>0, <3>1, <3>2, LimitShrinks DEF TypeOK
  <2>4. QED BY <2>1, <2>2, <2>3
<1>6. ASSUME NEW w \in Workers, Cancel(w) \/ Crash(w) \/ Restart(w) PROVE LimitInv'
  BY <1>0, <1>1, <1>6 DEF Cancel, Crash, Restart, TypeOK
<1>7. CASE UNCHANGED vars
  BY <1>0, <1>1, <1>7 DEF vars, TypeOK
<1>8. QED BY <1>2, <1>3, <1>4, <1>5, <1>6, <1>7 DEF Next

LEMMA InitLimit == Init => LimitInv
<1> SUFFICES ASSUME Init PROVE LimitInv
  OBVIOUS
<1>1. Pending = {}
  BY InitTypeOK, KeyedFinite DEF Init, Pending, Window, LockedKeyed, NoRow
<1>2. Cardinality(Pending) = 0
  BY <1>1, FS_EmptySet
<1>3. Polls
  BY DEF Init, Polls
<1>4. Cardinality(Workers) \in Nat /\ Limit \in Nat \ {0}
  BY BoundType, DbQueueAssumption
<1>5. QED BY <1>2, <1>3, <1>4 DEF LimitInv, Bound

\* However many processes claim rows, the executing rows of the concurrency
\* key never exceed the limit by more than one per other process, and never
\* exceed it at all where the claim is one statement.
THEOREM LimitHolds == Spec => []WindowLimit
<1>1. IInv /\ LimitInv => WindowLimit
  <2> SUFFICES ASSUME IInv, LimitInv PROVE WindowLimit
    OBVIOUS
  <2>1. Window(now) \subseteq Pending /\ Pending \subseteq Keyed
    BY DEF Pending, Window, LockedKeyed
  <2>2. /\ Cardinality(Window(now)) <= Cardinality(Pending)
        /\ Cardinality(Window(now)) \in Nat /\ Cardinality(Pending) \in Nat
    BY <2>1, KeyedSubset DEF IInv
  <2>3. Cardinality(Window(now)) <= Bound
    BY <2>2, BoundType DEF LimitInv
  <2>4. QED BY <2>3 DEF WindowLimit, WindowCount, Window, Bound
<1>2. QED BY <1>1, InitLimit, NextLimit, Inductive, TypeCorrect, PTL DEF Spec
=============================================================================
