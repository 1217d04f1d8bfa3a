----------------------------- MODULE PackProofs -----------------------------
(* Proofs about the parts of the database layer that PackParts puts side by   *)
(* side.  Each is an instance there, and its theorem's hypothesis says what   *)
(* it needs of the constants.                                                 *)
EXTENDS PackParts, SequenceTheorems, FiniteSetTheorems, WellFoundedInduction, TLAPS

-----------------------------------------------------------------------------
(* Numbers                                                                    *)

\* A set of numbers that is not empty has a smallest one.
LEMMA SmallestExists ==
  ASSUME NEW S \in SUBSET Nat, S # {}
  PROVE  \E m \in S : \A n \in S : m <= n
<1>1. PICK m \in S : \A n \in S : ~ (<<n, m>> \in OpToRel(<, Nat))
  BY NatLessThanWellFounded, WFMin
<1>2. \A n \in S : ~(n < m)
  BY <1>1 DEF OpToRel
<1> QED BY <1>2

\* A set of positions in a sequence that is not empty has a last one.
LEMMA LargestExists ==
  ASSUME NEW top \in Nat, NEW S \in SUBSET (1 .. top), S # {}
  PROVE  \E m \in S : \A n \in S : n <= m
<1> DEFINE T == {top - n : n \in S}
<1>1. ASSUME NEW t \in T PROVE t \in Nat
  OBVIOUS
<1>2. PICK n0 \in S : TRUE
  OBVIOUS
<1>3. top - n0 \in T
  BY <1>2
<1>4. T \in SUBSET Nat /\ T # {}
  BY <1>1, <1>3
<1>5. PICK t \in T : \A u \in T : t <= u
  BY <1>4, SmallestExists
<1>6. PICK m \in S : t = top - m
  BY <1>5
<1>7. ASSUME NEW n \in S PROVE n <= m
  <2>1. top - m <= top - n
    BY <1>5, <1>6
  <2> QED BY <2>1
<1> QED BY <1>7

-----------------------------------------------------------------------------
(* TableRebuild: the table is whole and foreign keys are enforced             *)

Tables == [shape : {"none", "old", "new"}, rows : SUBSET TableRows, indexes : SUBSET Indexes]
Images == [table : Tables, shadow : Tables]

\* A table of either shape with all its rows and indexes, and no shadow.
Whole(image) ==
  /\ image.table.shape \in {"old", "new"}
  /\ image.table.rows = TableRows /\ image.table.indexes = Indexes
  /\ image.shadow = Rebuild!NoTable

\* What the transaction has made of the table by each step.
Progress ==
  /\ pc \in {"capture", "create"} => Whole(tx)
  /\ pc \in {"create", "copy", "drop", "rename"} => indexSQL = Indexes
  /\ pc \in {"copy", "drop"} => tx.table.rows = TableRows
  /\ pc \in {"copy", "drop", "rename"} => tx.shadow.shape = "new" /\ tx.shadow.indexes = {}
  /\ pc \in {"drop", "rename"} => tx.shadow.rows = TableRows
  /\ pc = "reindex" =>
       /\ tx.table.shape = "new" /\ tx.table.rows = TableRows
       /\ tx.table.indexes \cup indexSQL = Indexes /\ tx.shadow = Rebuild!NoTable

\* Off is only the connection that the call holds, as long as no call has failed.
Enforced ==
  /\ pc = "idle" => pinned = {}
  /\ ~failed => \A c \in Procs \ pinned : enforces[c]

RebuildInv ==
  /\ db \in Images /\ tx \in Images /\ indexSQL \subseteq Indexes
  /\ Whole(db) /\ Progress /\ Enforced

\* Every step keeps the invariant.
LEMMA RebuildStep == ASSUME RebuildInv, [Rebuild!Next]_rebuildVars PROVE RebuildInv'
<1> USE DEF RebuildInv, Progress, Enforced, Whole, Rebuild!NoTable, Images, Tables
<1>1. CASE UNCHANGED rebuildVars
  BY <1>1 DEF rebuildVars
<1>2. ASSUME NEW c \in Procs, Rebuild!SwitchOff(c) PROVE RebuildInv'
  BY <1>2 DEF Rebuild!SwitchOff
<1>3. ASSUME NEW c \in Procs, Rebuild!WriteDangling(c) PROVE RebuildInv'
  BY <1>3 DEF Rebuild!WriteDangling
<1>4. CASE Rebuild!CaptureIndexSQL
  BY <1>4 DEF Rebuild!CaptureIndexSQL, Rebuild!unpinned
<1>5. CASE Rebuild!CreateShadow
  BY <1>5 DEF Rebuild!CreateShadow, Rebuild!unpinned
<1>6. CASE Rebuild!Copy
  BY <1>6 DEF Rebuild!Copy, Rebuild!unpinned
<1>7. CASE Rebuild!Drop
  BY <1>7 DEF Rebuild!Drop, Rebuild!unpinned
<1>8. CASE Rebuild!Rename
  BY <1>8 DEF Rebuild!Rename, Rebuild!unpinned
<1>9. ASSUME NEW i \in Indexes, Rebuild!Reindex(i) PROVE RebuildInv'
  BY <1>9 DEF Rebuild!Reindex, Rebuild!unpinned
<1>10. CASE Rebuild!Commit
  BY <1>10 DEF Rebuild!Commit, Rebuild!unpinned
<1>11. CASE Rebuild!CheckFails
  BY <1>11 DEF Rebuild!CheckFails, Rebuild!Ended
<1>12. CASE Rebuild!CheckPasses
  BY <1>12 DEF Rebuild!CheckPasses, Rebuild!unpinned
<1>13. CASE Rebuild!SwitchOn
  BY <1>13 DEF Rebuild!SwitchOn, Rebuild!Ended
<1>14. CASE Rebuild!StatementFails
  BY <1>14 DEF Rebuild!StatementFails, Rebuild!Ended
<1>15. CASE Rebuild!Restart
  BY <1>15 DEF Rebuild!Restart, Rebuild!Ended
<1> QED
  BY <1>1, <1>2, <1>3, <1>4, <1>5, <1>6, <1>7, <1>8, <1>9, <1>10, <1>11, <1>12, <1>13, <1>14, <1>15
  DEF Rebuild!Next

\* Whatever fails and wherever the process dies, AlterColumn leaves a whole table
\* of the old or of the new shape, and foreign keys enforced unless it returned
\* an error, for any rows, indexes and connections.
THEOREM RebuiltWhole == Rebuild!Spec => []RebuildIsSafe
<1>1. Rebuild!Init => RebuildInv
  BY DEF Rebuild!Init, RebuildInv, Progress, Enforced, Whole, Rebuild!NoTable, Images, Tables
<1>2. RebuildInv /\ [Rebuild!Next]_rebuildVars => RebuildInv'
  BY RebuildStep
<1>3. RebuildInv => RebuildIsSafe
  BY DEF RebuildInv, Whole, Enforced, RebuildIsSafe, Rebuild!RebuildIsSafe
<1> QED BY <1>1, <1>2, <1>3, PTL DEF Rebuild!Spec, Rebuild!vars, rebuildVars

-----------------------------------------------------------------------------
(* Migrate: the record and the schema agree                                   *)

MigrateConstants == N \in Nat

Calls == [op : {"none", "up", "down"},
          pc : {"idle", "ensure", "create", "read", "loop", "migrate", "record", "has", "rollback", "delete"},
          applied : SUBSET Mig!Migrations, at : Nat]

MigrateTypes ==
  /\ ddl \in BOOLEAN /\ now \in Nat
  /\ record \in [Mig!Migrations -> Nat] /\ \A m \in Mig!Migrations : record[m] <= now
  /\ effect \in [Mig!Migrations -> Nat]
  /\ run \in [Procs -> Calls]
  /\ overlapped \subseteq {"up", "down"}
  /\ torn \in BOOLEAN /\ skewed \in BOOLEAN

\* Where a call can be, and what it works on there.
CallPhases ==
  \A r \in Procs :
    /\ run[r].op = "none" => run[r].pc = "idle"
    /\ run[r].op = "up" => run[r].pc \in {"ensure", "create", "read", "loop", "migrate", "record"}
    /\ run[r].op = "down" => run[r].pc \in {"ensure", "create", "read", "has", "rollback", "delete"}
    /\ run[r].pc \in {"ensure", "create", "read"} => run[r].at = 0
    /\ run[r].pc \in {"migrate", "record", "has", "rollback", "delete"} => run[r].at \in Mig!Migrations

\* Calls that are under way together have been noted.
Noted ==
  \A r, s \in Procs : r # s /\ run[r].op # "none" /\ run[s].op # "none" => run[r].op \in overlapped

\* While nothing overlaps and nothing was torn: what is recorded is in force
\* once, but for the migration the call is at.
Agrees ==
  ~torn /\ overlapped = {} =>
    /\ \A m \in Mig!Migrations : Mig!Between(m) \/ effect[m] = (IF m \in Mig!Recorded THEN 1 ELSE 0)
    /\ \A r \in Procs :
         /\ run[r].pc \in {"loop", "migrate", "record"} =>
              \A m \in Mig!Migrations : m > run[r].at => (m \in run[r].applied <=> m \in Mig!Recorded)
         /\ run[r].pc \in {"migrate", "record"} => run[r].at \notin Mig!Recorded
         /\ run[r].pc = "record" => effect[run[r].at] = 1
         /\ run[r].pc \in {"has", "rollback", "delete"} => run[r].at \in Mig!Recorded
         /\ run[r].pc = "delete" => effect[run[r].at] = 0

\* While no Down overlaps and clocks agree: the migrations recorded are the first
\* ones, in the order of their times; an Up has the ones before its own behind
\* it, and a Down undoes the last.
InSequence ==
  "down" \notin overlapped /\ ~skewed =>
    /\ \A m \in Mig!Recorded : \A k \in Mig!Migrations : k < m => k \in Mig!Recorded /\ record[k] < record[m]
    /\ \A r \in Procs :
         /\ run[r].pc = "loop" => \A k \in Mig!Migrations : k <= run[r].at => k \in Mig!Recorded
         /\ run[r].pc \in {"loop", "migrate", "record"} => run[r].applied \subseteq Mig!Recorded
         /\ run[r].pc \in {"migrate", "record"} => \A k \in Mig!Migrations : k < run[r].at => k \in Mig!Recorded
         /\ run[r].pc \in {"has", "rollback", "delete"} => \A k \in Mig!Recorded : k <= run[r].at

MigrateInv == MigrateTypes /\ CallPhases /\ Noted /\ Agrees /\ InSequence

\* A call's step changes its own place only.
LEMMA OtherCalls ==
  ASSUME MigrateTypes, NEW r \in Procs, NEW c, run' = [run EXCEPT ![r] = c]
  PROVE  run'[r] = c /\ \A s \in Procs : s # r => run'[s] = run[s]
BY DEF MigrateTypes

\* The newest record is one of them.
LEMMA NewestFacts ==
  ASSUME MigrateConstants, MigrateTypes, Mig!Recorded # {}
  PROVE  Mig!Newest \in Mig!Recorded /\ \A k \in Mig!Recorded : record[k] <= record[Mig!Newest]
<1> DEFINE T == {record[m] : m \in Mig!Recorded}
<1>0. \A m \in Mig!Recorded : m \in Mig!Migrations /\ record[m] \in Nat /\ record[m] # 0 /\ record[m] <= now
  BY DEF Mig!Recorded, MigrateTypes
<1>n. now \in Nat
  BY DEF MigrateTypes
<1>1. T \in SUBSET (1 .. now)
  BY <1>0, <1>n
<1>2. T # {}
  OBVIOUS
<1>3. PICK t \in T : \A u \in T : u <= t
  BY <1>1, <1>2, <1>n, LargestExists
<1>4. PICK m \in Mig!Recorded : t = record[m]
  BY <1>3
<1>5. \A k \in Mig!Recorded : record[k] <= record[m]
  BY <1>3, <1>4
<1> HIDE DEF T
<1> QED BY <1>4, <1>5 DEF Mig!Newest

\* Up goes to the first of the migrations that it has still to apply.
LEMMA FirstPending ==
  ASSUME MigrateConstants, MigrateTypes, NEW r \in Procs, Mig!Pending(r) # {}
  PROVE  /\ Mig!Min(Mig!Pending(r)) \in Mig!Pending(r)
         /\ \A m \in Mig!Pending(r) : Mig!Min(Mig!Pending(r)) <= m
<1>1. Mig!Pending(r) \in SUBSET Nat
  BY DEF Mig!Pending, Mig!Migrations
<1>2. PICK m \in Mig!Pending(r) : \A k \in Mig!Pending(r) : m <= k
  BY <1>1, SmallestExists
<1> QED BY <1>2 DEF Mig!Min

\* The types and phases hold after every step.
LEMMA PhasesStep ==
  ASSUME MigrateConstants, MigrateTypes, CallPhases, [Mig!Next]_migrateVars
  PROVE  MigrateTypes' /\ CallPhases'
<1> DEFINE Good(c) ==
      /\ c.op = "none" => c.pc = "idle"
      /\ c.op = "up" => c.pc \in {"ensure", "create", "read", "loop", "migrate", "record"}
      /\ c.op = "down" => c.pc \in {"ensure", "create", "read", "has", "rollback", "delete"}
      /\ c.pc \in {"ensure", "create", "read"} => c.at = 0
      /\ c.pc \in {"migrate", "record", "has", "rollback", "delete"} => c.at \in Mig!Migrations
<1> DEFINE Rest ==
      /\ ddl' \in BOOLEAN /\ now' \in Nat
      /\ record' \in [Mig!Migrations -> Nat] /\ \A m \in Mig!Migrations : record'[m] <= now'
      /\ effect' \in [Mig!Migrations -> Nat]
      /\ overlapped' \subseteq {"up", "down"}
      /\ torn' \in BOOLEAN /\ skewed' \in BOOLEAN
<1>n. Mig!Migrations \subseteq Nat
  BY DEF Mig!Migrations
<1>1. CASE UNCHANGED migrateVars
  BY <1>1 DEF migrateVars, MigrateTypes, CallPhases
<1>2. ASSUME NEW r \in Procs, NEW c \in Calls, Good(c), run' = [run EXCEPT ![r] = c], Rest
      PROVE  MigrateTypes' /\ CallPhases'
  <2>1. run'[r] = c /\ \A s \in Procs : s # r => run'[s] = run[s]
    BY <1>2, OtherCalls
  <2>2. run' \in [Procs -> Calls]
    BY <1>2 DEF MigrateTypes
  <2>3. \A s \in Procs : Good(run'[s])
    BY <2>1, <1>2 DEF CallPhases
  <2> QED BY <1>2, <2>2, <2>3 DEF MigrateTypes, CallPhases
<1>3. Mig!NotRunning \in Calls /\ Good(Mig!NotRunning)
  BY DEF Mig!NotRunning, Calls
<1>4. ASSUME UNCHANGED <<ddl, record, effect, now, overlapped, torn, skewed>> PROVE Rest
  BY <1>4 DEF MigrateTypes
<1>5. ASSUME NEW r \in Procs
      PROVE  run[r] \in Calls /\ Good(run[r])
  BY DEF MigrateTypes, CallPhases
<1>6. ASSUME NEW r \in Procs, NEW op \in {"up", "down"}, Mig!Start(r, op) PROVE MigrateTypes' /\ CallPhases'
  <2> DEFINE c == [Mig!NotRunning EXCEPT !.op = op, !.pc = "ensure"]
  <2>1. c \in Calls /\ Good(c)
    BY DEF Mig!NotRunning, Calls
  <2>2. run' = [run EXCEPT ![r] = c]
    BY <1>6 DEF Mig!Start
  <2>3. {run[s].op : s \in Procs} \ {"none"} \subseteq {"up", "down"}
    BY <1>5 DEF Calls
  <2>4. overlapped' \subseteq {"up", "down"}
    BY <1>6, <2>3 DEF Mig!Start, MigrateTypes
  <2>5. Rest
    BY <1>6, <2>4 DEF Mig!Start, MigrateTypes
  <2> HIDE DEF c, Good, Rest
  <2> QED BY <1>2, <2>1, <2>2, <2>5
<1>7. ASSUME NEW r \in Procs, NEW pcs, run' = [run EXCEPT ![r].pc = pcs], Rest,
             [run[r] EXCEPT !.pc = pcs] \in Calls, Good([run[r] EXCEPT !.pc = pcs])
      PROVE  MigrateTypes' /\ CallPhases'
  <2>1. run' = [run EXCEPT ![r] = [run[r] EXCEPT !.pc = pcs]]
    BY <1>7
  <2> HIDE DEF Good, Rest
  <2> QED BY <1>2, <1>7, <2>1
<1>8. ASSUME NEW r \in Procs, Mig!Return(r), Rest PROVE MigrateTypes' /\ CallPhases'
  <2> HIDE DEF Good, Rest
  <2> QED BY <1>2, <1>3, <1>8 DEF Mig!Return
<1>9. ASSUME NEW r \in Procs, Mig!Ensure(r) PROVE MigrateTypes' /\ CallPhases'
  <2>1. Rest /\ run[r].pc = "ensure"
    BY <1>4, <1>9 DEF Mig!Ensure, Mig!counters, Mig!ghosts
  <2>2. PICK pcs \in {"read", "create"} : run' = [run EXCEPT ![r].pc = pcs]
    BY <1>9 DEF Mig!Ensure, Mig!To
  <2>3. [run[r] EXCEPT !.pc = pcs] \in Calls /\ Good([run[r] EXCEPT !.pc = pcs])
    BY <1>5, <2>1 DEF Calls
  <2> HIDE DEF Good, Rest
  <2> QED BY <1>7, <2>1, <2>2, <2>3
<1>10. ASSUME NEW r \in Procs, Mig!CreateMigrationsTable(r) PROVE MigrateTypes' /\ CallPhases'
  <2>1. Rest /\ run[r].pc = "create"
    BY <1>4, <1>10 DEF Mig!CreateMigrationsTable, Mig!counters, Mig!ghosts
  <2>2. [run[r] EXCEPT !.pc = "read"] \in Calls /\ Good([run[r] EXCEPT !.pc = "read"])
    BY <1>5, <2>1 DEF Calls
  <2>3. Mig!Return(r) \/ run' = [run EXCEPT ![r].pc = "read"]
    BY <1>10 DEF Mig!CreateMigrationsTable, Mig!To
  <2> HIDE DEF Good, Rest
  <2> QED BY <1>7, <1>8, <2>1, <2>2, <2>3
<1>11. ASSUME NEW r \in Procs, Mig!appliedIDs(r) PROVE MigrateTypes' /\ CallPhases'
  <2>1. Rest /\ run[r].pc = "read" /\ run[r].op = "up"
    BY <1>4, <1>11 DEF Mig!appliedIDs, Mig!counters, Mig!ghosts
  <2> DEFINE c == [run[r] EXCEPT !.pc = "loop", !.applied = Mig!Recorded]
  <2>2. run' = [run EXCEPT ![r] = c]
    BY <1>11 DEF Mig!appliedIDs
  <2>3. c \in Calls /\ Good(c)
    BY <1>5, <2>1 DEF Calls, Mig!Recorded
  <2> HIDE DEF Good, Rest, c
  <2> QED BY <1>2, <2>1, <2>2, <2>3
<1>12. ASSUME NEW r \in Procs, Mig!Loop(r) PROVE MigrateTypes' /\ CallPhases'
  <2>1. Rest /\ run[r].op = "up"
    BY <1>4, <1>12 DEF Mig!Loop, Mig!counters, Mig!ghosts
  <2> DEFINE c == [run[r] EXCEPT !.pc = "migrate", !.at = Mig!Min(Mig!Pending(r))]
  <2>2. CASE Mig!Pending(r) # {}
    <3>1. run' = [run EXCEPT ![r] = c]
      BY <1>12, <2>2 DEF Mig!Loop
    <3>2. Mig!Min(Mig!Pending(r)) \in Mig!Migrations
      BY <2>2, FirstPending DEF Mig!Pending
    <3>3. c \in Calls /\ Good(c)
      BY <1>5, <1>n, <2>1, <3>2 DEF Calls
    <3> HIDE DEF Good, Rest, c
    <3> QED BY <1>2, <2>1, <3>1, <3>3
  <2>3. CASE Mig!Pending(r) = {}
    <3>1. Mig!Return(r)
      BY <1>12, <2>3 DEF Mig!Loop
    <3> HIDE DEF Good, Rest
    <3> QED BY <1>8, <2>1, <3>1
  <2> QED BY <2>2, <2>3
<1>13. ASSUME NEW r \in Procs, Mig!Change(r) PROVE MigrateTypes' /\ CallPhases'
  <2>1. run[r].pc = "migrate" /\ run[r].at \in Mig!Migrations /\ run[r].op = "up"
    BY <1>5, <1>13 DEF Mig!Change, Calls
  <2>2. [run[r] EXCEPT !.pc = "record"] \in Calls /\ Good([run[r] EXCEPT !.pc = "record"])
    BY <1>5, <2>1 DEF Calls
  <2>3. Mig!Return(r) \/ run' = [run EXCEPT ![r].pc = "record"]
    BY <1>13 DEF Mig!Change, Mig!To
  <2>4. effect' \in [Mig!Migrations -> Nat]
    BY <1>13, <2>1 DEF Mig!Change, MigrateTypes
  <2>5. Rest
    BY <1>13, <2>4 DEF Mig!Change, Mig!counters, Mig!ghosts, MigrateTypes
  <2> HIDE DEF Good, Rest
  <2> QED BY <1>7, <1>8, <2>2, <2>3, <2>5
<1>14. ASSUME NEW r \in Procs, Mig!Record(r) PROVE MigrateTypes' /\ CallPhases'
  <2>1. run[r].pc = "record" /\ run[r].at \in Mig!Migrations /\ run[r].op = "up"
    BY <1>5, <1>14 DEF Mig!Record, Calls
  <2>2. [run[r] EXCEPT !.pc = "loop"] \in Calls /\ Good([run[r] EXCEPT !.pc = "loop"])
    BY <1>5, <2>1 DEF Calls
  <2>3. Mig!Return(r) \/ run' = [run EXCEPT ![r].pc = "loop"]
    BY <1>14 DEF Mig!Record, Mig!To
  <2>4. \/ UNCHANGED <<record, now, skewed>>
        \/ now' = now + 1 /\ record' = [record EXCEPT ![run[r].at] = now + 1] /\ UNCHANGED skewed
        \/ now' = now + 1 /\ record' = [record EXCEPT ![run[r].at] = 1] /\ skewed' = TRUE
    BY <1>14 DEF Mig!Record
  <2>5. now' \in Nat /\ now <= now' /\ skewed' \in BOOLEAN
    <3>1. now \in Nat /\ skewed \in BOOLEAN
      BY DEF MigrateTypes
    <3>2. now' = now \/ now' = now + 1
      BY <2>4
    <3>3. skewed' = skewed \/ skewed' = TRUE
      BY <2>4
    <3>4. now' \in Nat /\ now <= now'
      BY <3>1, <3>2
    <3> QED BY <3>1, <3>3, <3>4, Zenon
  <2>6. record' \in [Mig!Migrations -> Nat] /\ \A m \in Mig!Migrations : record'[m] <= now'
    BY <2>1, <2>4 DEF MigrateTypes
  <2>7. Rest
    BY <1>14, <2>5, <2>6 DEF Mig!Record, MigrateTypes
  <2> HIDE DEF Good, Rest
  <2> QED BY <1>7, <1>8, <2>2, <2>3, <2>7
<1>15. ASSUME NEW r \in Procs, Mig!Pick(r) PROVE MigrateTypes' /\ CallPhases'
  <2>1. Rest /\ run[r].op = "down"
    BY <1>4, <1>15 DEF Mig!Pick, Mig!counters, Mig!ghosts
  <2> DEFINE c == [run[r] EXCEPT !.pc = "has", !.at = Mig!Newest]
  <2>2. CASE Mig!Recorded # {}
    <3>1. run' = [run EXCEPT ![r] = c]
      BY <1>15, <2>2 DEF Mig!Pick
    <3>2. Mig!Newest \in Mig!Migrations
      BY <2>2, NewestFacts DEF Mig!Recorded
    <3>3. c \in Calls /\ Good(c)
      BY <1>5, <1>n, <2>1, <3>2 DEF Calls
    <3> HIDE DEF Good, Rest, c
    <3> QED BY <1>2, <2>1, <3>1, <3>3
  <2>3. CASE Mig!Recorded = {}
    <3>1. Mig!Return(r)
      BY <1>15, <2>3 DEF Mig!Pick
    <3> HIDE DEF Good, Rest
    <3> QED BY <1>8, <2>1, <3>1
  <2> QED BY <2>2, <2>3
<1>16. ASSUME NEW r \in Procs, Mig!Has(r) PROVE MigrateTypes' /\ CallPhases'
  <2>1. Rest /\ run[r].pc = "has"
    BY <1>4, <1>16 DEF Mig!Has, Mig!counters, Mig!ghosts
  <2>2. PICK pcs \in {"delete", "rollback"} : run' = [run EXCEPT ![r].pc = pcs]
    BY <1>16 DEF Mig!Has, Mig!To
  <2>3. [run[r] EXCEPT !.pc = pcs] \in Calls /\ Good([run[r] EXCEPT !.pc = pcs])
    BY <1>5, <2>1 DEF Calls
  <2> HIDE DEF Good, Rest
  <2> QED BY <1>7, <2>1, <2>2, <2>3
<1>17. ASSUME NEW r \in Procs, Mig!Rollback(r) PROVE MigrateTypes' /\ CallPhases'
  <2>1. run[r].pc = "rollback" /\ run[r].at \in Mig!Migrations
    BY <1>5, <1>17 DEF Mig!Rollback
  <2>2. [run[r] EXCEPT !.pc = "delete"] \in Calls /\ Good([run[r] EXCEPT !.pc = "delete"])
    BY <1>5, <2>1 DEF Calls
  <2>3. Mig!Return(r) \/ run' = [run EXCEPT ![r].pc = "delete"]
    BY <1>17 DEF Mig!Rollback, Mig!To
  <2>4. effect' \in [Mig!Migrations -> Nat]
    <3>1. effect[run[r].at] \in Nat
      BY <2>1 DEF MigrateTypes
    <3>2. effect' = effect \/ (effect[run[r].at] # 0 /\ effect' = [effect EXCEPT ![run[r].at] = effect[run[r].at] - 1])
      BY <1>17 DEF Mig!Rollback
    <3> QED BY <2>1, <3>1, <3>2 DEF MigrateTypes
  <2>5. Rest
    BY <1>17, <2>4 DEF Mig!Rollback, Mig!counters, Mig!ghosts, MigrateTypes
  <2> HIDE DEF Good, Rest
  <2> QED BY <1>7, <1>8, <2>2, <2>3, <2>5
<1>18. ASSUME NEW r \in Procs, Mig!DeleteRecord(r) PROVE MigrateTypes' /\ CallPhases'
  <2>1. record' = [record EXCEPT ![run[r].at] = 0] /\ Mig!Return(r)
    BY <1>18 DEF Mig!DeleteRecord
  <2>2. record' \in [Mig!Migrations -> Nat] /\ \A m \in Mig!Migrations : record'[m] <= now
    <3>1. now \in Nat /\ 0 \in Nat /\ 0 <= now
      BY DEF MigrateTypes
    <3>2. \A m \in Mig!Migrations : record'[m] = 0 \/ record'[m] = record[m]
      BY <2>1 DEF MigrateTypes
    <3> QED BY <2>1, <3>1, <3>2 DEF MigrateTypes
  <2>3. Rest
    BY <1>18, <2>2 DEF Mig!DeleteRecord, Mig!counters, Mig!ghosts, MigrateTypes
  <2> HIDE DEF Good, Rest
  <2> QED BY <1>8, <2>1, <2>3
<1>19. ASSUME NEW r \in Procs, Mig!Fail(r) PROVE MigrateTypes' /\ CallPhases'
  <2>1. Rest /\ Mig!Return(r)
    BY <1>19 DEF Mig!Fail, MigrateTypes
  <2> HIDE DEF Good, Rest
  <2> QED BY <1>8, <2>1
<1> QED
  BY <1>1, <1>6, <1>9, <1>10, <1>11, <1>12, <1>13, <1>14, <1>15, <1>16, <1>17, <1>18, <1>19 DEF Mig!Next

\* Two calls under way together were noted when the later one began.
LEMMA NotedStep ==
  ASSUME MigrateTypes, CallPhases, Noted, [Mig!Next]_migrateVars
  PROVE  Noted'
<1>1. CASE UNCHANGED migrateVars
  BY <1>1 DEF migrateVars, Noted
<1>2. ASSUME NEW r \in Procs, NEW op \in {"up", "down"}, Mig!Start(r, op) PROVE Noted'
  <2> DEFINE others == {run[s].op : s \in Procs} \ {"none"}
  <2>1. /\ run' = [run EXCEPT ![r] = [Mig!NotRunning EXCEPT !.op = op, !.pc = "ensure"]]
        /\ overlapped' = IF others = {} THEN overlapped ELSE overlapped \cup others \cup {op}
        /\ run[r].op = "none"
    BY <1>2 DEF Mig!Start
  <2>2. run'[r].op = op /\ \A s \in Procs : s # r => run'[s] = run[s]
    BY <2>1 DEF MigrateTypes, Mig!NotRunning
  <2>3. \A s \in Procs : run[s].op # "none" => run[s].op \in others
    OBVIOUS
  <2> HIDE DEF others
  <2>4. ASSUME NEW s \in Procs, NEW u \in Procs, s # u, run'[s].op # "none", run'[u].op # "none"
        PROVE  run'[s].op \in overlapped'
    <3>1. CASE s = r
      <4>1. run[u].op \in others
        BY <2>2, <2>3, <2>4, <3>1
      <4> QED BY <2>1, <2>2, <3>1, <4>1
    <3>2. CASE s # r
      BY <2>1, <2>2, <2>3, <2>4, <3>2
    <3> QED BY <3>1, <3>2
  <2> QED BY <2>4 DEF Noted
<1>3. ASSUME overlapped' = overlapped, \A s \in Procs : run'[s].op \in {run[s].op, "none"} PROVE Noted'
  BY <1>3 DEF Noted
<1>4. ASSUME NEW r \in Procs, Mig!Return(r) PROVE \A s \in Procs : run'[s].op \in {run[s].op, "none"}
  BY <1>4 DEF Mig!Return, Mig!NotRunning, MigrateTypes
<1>5. ASSUME NEW r \in Procs, NEW pcs, Mig!To(r, pcs) PROVE \A s \in Procs : run'[s].op \in {run[s].op, "none"}
  BY <1>5 DEF Mig!To, MigrateTypes, Calls
<1>6. ASSUME NEW r \in Procs,
             \/ Mig!Ensure(r) \/ Mig!CreateMigrationsTable(r) \/ Mig!Change(r) \/ Mig!Record(r)
             \/ Mig!Has(r) \/ Mig!Rollback(r) \/ Mig!DeleteRecord(r) \/ Mig!Fail(r)
      PROVE  Noted'
  <2>1. overlapped' = overlapped
    BY <1>6 DEF Mig!Ensure, Mig!CreateMigrationsTable, Mig!Change, Mig!Record, Mig!Has, Mig!Rollback,
         Mig!DeleteRecord, Mig!Fail, Mig!ghosts
  <2>2. Mig!Return(r) \/ \E pcs : Mig!To(r, pcs)
    BY <1>6 DEF Mig!Ensure, Mig!CreateMigrationsTable, Mig!Change, Mig!Record, Mig!Has, Mig!Rollback,
         Mig!DeleteRecord, Mig!Fail
  <2> QED BY <1>3, <1>4, <1>5, <2>1, <2>2
<1>7. ASSUME NEW r \in Procs, Mig!appliedIDs(r) \/ Mig!Loop(r) \/ Mig!Pick(r) PROVE Noted'
  <2>1. overlapped' = overlapped
    BY <1>7 DEF Mig!appliedIDs, Mig!Loop, Mig!Pick, Mig!ghosts
  <2>2. \A s \in Procs : run'[s].op \in {run[s].op, "none"}
    BY <1>7 DEF Mig!appliedIDs, Mig!Loop, Mig!Pick, Mig!Return, Mig!NotRunning, MigrateTypes, Calls
  <2> QED BY <1>3, <2>1, <2>2
<1> QED BY <1>1, <1>2, <1>6, <1>7 DEF Mig!Next

\* What a call alone does to the record and the schema.
LEMMA AgreesStep ==
  ASSUME MigrateConstants, MigrateTypes, CallPhases, Noted, Agrees, [Mig!Next]_migrateVars
  PROVE  Agrees'
<1>n. Mig!Migrations \subseteq Nat
  BY DEF Mig!Migrations
<1>1. CASE UNCHANGED migrateVars
  BY <1>1 DEF migrateVars, Agrees, Mig!Between, Mig!Recorded
<1>2. ASSUME ~torn, overlapped = {}, NEW r \in Procs, run[r].op # "none"
      PROVE  \A s \in Procs : s # r => run[s].op = "none" /\ run[s].pc = "idle"
  BY <1>2 DEF Noted, CallPhases
\* Agrees after a step of the only call, said of its own place.
<1>3. ASSUME NEW r \in Procs, NEW c, run' = [run EXCEPT ![r] = c], ~torn, overlapped = {},
             \A s \in Procs : s # r => run[s].pc = "idle",
             \A m \in Mig!Migrations :
               \/ c.at = m /\ c.pc \in {"record", "delete"}
               \/ effect'[m] = (IF record'[m] # 0 THEN 1 ELSE 0),
             c.pc \in {"loop", "migrate", "record"} =>
               \A m \in Mig!Migrations : m > c.at => (m \in c.applied <=> record'[m] # 0),
             c.pc \in {"migrate", "record"} => record'[c.at] = 0,
             c.pc = "record" => effect'[c.at] = 1,
             c.pc \in {"has", "rollback", "delete"} => c.at \in Mig!Migrations /\ record'[c.at] # 0,
             c.pc = "delete" => effect'[c.at] = 0
      PROVE  Agrees'
  <2>1. run'[r] = c /\ \A s \in Procs : s # r => run'[s] = run[s]
    BY <1>3, OtherCalls
  <2>2. \A m \in Mig!Migrations : m \in (Mig!Recorded)' <=> record'[m] # 0
    BY DEF Mig!Recorded, Mig!Migrations
  <2>3. (Mig!Recorded)' \subseteq Mig!Migrations
    BY DEF Mig!Recorded, Mig!Migrations
  <2>4. \A m \in Mig!Migrations : c.at = m /\ c.pc \in {"record", "delete"} => Mig!Between(m)'
    BY <2>1 DEF Mig!Between
  <2>5. \A m \in Mig!Migrations : Mig!Between(m)' \/ effect'[m] = (IF m \in (Mig!Recorded)' THEN 1 ELSE 0)
    BY <1>3, <2>2, <2>4
  <2>6. ASSUME NEW s \in Procs
        PROVE  /\ run'[s].pc \in {"loop", "migrate", "record"} =>
                    \A m \in Mig!Migrations : m > run'[s].at => (m \in run'[s].applied <=> m \in (Mig!Recorded)')
               /\ run'[s].pc \in {"migrate", "record"} => run'[s].at \notin (Mig!Recorded)'
               /\ run'[s].pc = "record" => effect'[run'[s].at] = 1
               /\ run'[s].pc \in {"has", "rollback", "delete"} => run'[s].at \in (Mig!Recorded)'
               /\ run'[s].pc = "delete" => effect'[run'[s].at] = 0
    <3>1. CASE s # r
      BY <1>3, <2>1, <3>1
    <3>2. CASE s = r
      BY <1>3, <2>1, <2>2, <2>3, <3>2
    <3> QED BY <3>1, <3>2
  <2>7. Mig!Migrations' = Mig!Migrations
    BY DEF Mig!Migrations
  <2> QED BY <2>5, <2>6, <2>7 DEF Agrees
<1> SUFFICES ASSUME ~torn', overlapped' = {} PROVE Agrees'
  BY DEF Agrees
<1>4. ASSUME NEW r \in Procs, NEW op \in {"up", "down"}, Mig!Start(r, op) PROVE Agrees'
  <2> DEFINE others == {run[s].op : s \in Procs} \ {"none"}
  <2>1. /\ run' = [run EXCEPT ![r] = [Mig!NotRunning EXCEPT !.op = op, !.pc = "ensure"]]
        /\ overlapped' = IF others = {} THEN overlapped ELSE overlapped \cup others \cup {op}
        /\ UNCHANGED <<record, effect, torn>> /\ run[r].op = "none"
    BY <1>4 DEF Mig!Start
  <2>2. others = {} /\ overlapped = {} /\ ~torn
    BY <2>1
  <2>3. \A s \in Procs : run[s].pc = "idle"
    BY <2>2 DEF CallPhases
  <2>4. \A m \in Mig!Migrations : effect[m] = (IF record[m] # 0 THEN 1 ELSE 0)
    BY <2>2, <2>3 DEF Agrees, Mig!Between, Mig!Recorded
  <2> DEFINE c == [Mig!NotRunning EXCEPT !.op = op, !.pc = "ensure"]
  <2>5. c.pc = "ensure"
    BY DEF Mig!NotRunning
  <2> HIDE DEF c
  <2> QED BY <1>3, <2>1, <2>2, <2>3, <2>4, <2>5 DEF c
<1>5. ASSUME NEW r \in Procs, run[r].op # "none", ~torn, overlapped = {}
      PROVE  /\ \A s \in Procs : s # r => run[s].pc = "idle"
             /\ \A m \in Mig!Migrations :
                  \/ run[r].at = m /\ run[r].pc \in {"record", "delete"}
                  \/ effect[m] = (IF record[m] # 0 THEN 1 ELSE 0)
             /\ run[r].pc \in {"loop", "migrate", "record"} =>
                  \A m \in Mig!Migrations : m > run[r].at => (m \in run[r].applied <=> record[m] # 0)
             /\ run[r].pc \in {"migrate", "record", "has", "rollback", "delete"} => run[r].at \in Mig!Migrations
             /\ run[r].pc \in {"migrate", "record"} => record[run[r].at] = 0
             /\ run[r].pc = "record" => effect[run[r].at] = 1
             /\ run[r].pc \in {"has", "rollback", "delete"} => record[run[r].at] # 0
             /\ run[r].pc = "delete" => effect[run[r].at] = 0
  <2>1. \A s \in Procs : s # r => run[s].pc = "idle"
    BY <1>2, <1>5
  <2>2. \A m \in Mig!Migrations : m \in Mig!Recorded <=> record[m] # 0
    BY DEF Mig!Recorded
  <2>3. \A m \in Mig!Migrations : Mig!Between(m) => run[r].at = m /\ run[r].pc \in {"record", "delete"}
    BY <2>1 DEF Mig!Between
  <2>4. run[r].pc \in {"migrate", "record", "has", "rollback", "delete"} => run[r].at \in Mig!Migrations
    BY DEF CallPhases
  <2> QED BY <1>5, <2>1, <2>2, <2>3, <2>4 DEF Agrees
\* A call that ends where it has not begun to change anything, or has recorded it.
<1>6. ASSUME NEW r \in Procs, run[r].op # "none", Mig!Return(r), UNCHANGED <<record, effect, overlapped, torn>>,
             run[r].pc \notin {"record", "delete"}
      PROVE  Agrees'
  <2>1. Mig!NotRunning.pc = "idle"
    BY DEF Mig!NotRunning
  <2>2. \A m \in Mig!Migrations : effect'[m] = (IF record'[m] # 0 THEN 1 ELSE 0)
    BY <1>5, <1>6
  <2> QED BY <1>3, <1>5, <1>6, <2>1, <2>2 DEF Mig!Return
<1>7. ASSUME NEW r \in Procs, NEW pcs, Mig!To(r, pcs)
      PROVE  /\ run' = [run EXCEPT ![r] = [run[r] EXCEPT !.pc = pcs]]
             /\ [run[r] EXCEPT !.pc = pcs].pc = pcs
             /\ [run[r] EXCEPT !.pc = pcs].at = run[r].at
             /\ [run[r] EXCEPT !.pc = pcs].applied = run[r].applied
  BY <1>7 DEF Mig!To, MigrateTypes, Calls
<1>8. ASSUME NEW r \in Procs, NEW pcs \in {"read", "create"}, run[r].op # "none", Mig!To(r, pcs),
             UNCHANGED <<record, effect, overlapped, torn>>, run[r].pc \in {"ensure", "create"}
      PROVE  Agrees'
  <2> DEFINE c == [run[r] EXCEPT !.pc = pcs]
  <2>1. run' = [run EXCEPT ![r] = c] /\ c.pc = pcs
    BY <1>7, <1>8
  <2>2. \A m \in Mig!Migrations : effect'[m] = (IF record'[m] # 0 THEN 1 ELSE 0)
    BY <1>5, <1>8
  <2> HIDE DEF c
  <2> QED BY <1>3, <1>5, <1>8, <2>1, <2>2
<1>o. ASSUME NEW r \in Procs, run[r].pc # "idle" PROVE run[r].op # "none"
  BY <1>o DEF CallPhases
<1>9. ASSUME NEW r \in Procs, Mig!Ensure(r) PROVE Agrees'
  <2>1. /\ run[r].pc = "ensure" /\ UNCHANGED <<record, effect, overlapped, torn>>
        /\ Mig!To(r, "read") \/ Mig!To(r, "create")
    BY <1>9 DEF Mig!Ensure, Mig!ghosts
  <2> QED BY <1>8, <1>o, <2>1
<1>10. ASSUME NEW r \in Procs, Mig!CreateMigrationsTable(r) PROVE Agrees'
  <2>1. /\ run[r].pc = "create" /\ UNCHANGED <<record, effect, overlapped, torn>>
        /\ Mig!Return(r) \/ Mig!To(r, "read")
    BY <1>10 DEF Mig!CreateMigrationsTable, Mig!ghosts
  <2> QED BY <1>6, <1>8, <1>o, <2>1
<1>11. ASSUME NEW r \in Procs, Mig!appliedIDs(r) PROVE Agrees'
  <2>1. run[r].op = "up" /\ run[r].pc = "read" /\ UNCHANGED <<record, effect, overlapped, torn>>
    BY <1>11 DEF Mig!appliedIDs, Mig!ghosts
  <2> DEFINE c == [run[r] EXCEPT !.pc = "loop", !.applied = Mig!Recorded]
  <2>2. run' = [run EXCEPT ![r] = c]
    BY <1>11 DEF Mig!appliedIDs
  <2>3. c.pc = "loop" /\ c.applied = Mig!Recorded
    BY DEF MigrateTypes, Calls
  <2>4. \A m \in Mig!Migrations : m \in c.applied <=> record'[m] # 0
    BY <2>1, <2>3 DEF Mig!Recorded
  <2>5. \A m \in Mig!Migrations : effect'[m] = (IF record'[m] # 0 THEN 1 ELSE 0)
    BY <1>5, <2>1
  <2>6. ~torn /\ overlapped = {} /\ \A s \in Procs : s # r => run[s].pc = "idle"
    BY <1>5, <2>1
  <2> HIDE DEF c
  <2> QED BY <1>3, <2>2, <2>3, <2>4, <2>5, <2>6
<1>12. ASSUME NEW r \in Procs, Mig!Loop(r) PROVE Agrees'
  <2>1. run[r].op = "up" /\ run[r].pc = "loop" /\ UNCHANGED <<record, effect, overlapped, torn>>
    BY <1>12 DEF Mig!Loop, Mig!ghosts
  <2>2. CASE Mig!Pending(r) = {}
    BY <1>6, <1>12, <2>1, <2>2 DEF Mig!Loop
  <2>3. CASE Mig!Pending(r) # {}
    <3> DEFINE k == Mig!Min(Mig!Pending(r))
               c == [run[r] EXCEPT !.pc = "migrate", !.at = k]
    <3>1. run' = [run EXCEPT ![r] = c]
      BY <1>12, <2>3 DEF Mig!Loop
    <3>2. c.pc = "migrate" /\ c.at = k /\ c.applied = run[r].applied
      BY DEF MigrateTypes, Calls
    <3>3. k \in Mig!Migrations /\ k > run[r].at /\ k \notin run[r].applied
      BY <2>3, FirstPending DEF Mig!Pending
    <3>4. /\ ~torn /\ overlapped = {} /\ \A s \in Procs : s # r => run[s].pc = "idle"
          /\ \A m \in Mig!Migrations : effect'[m] = (IF record'[m] # 0 THEN 1 ELSE 0)
          /\ \A m \in Mig!Migrations : m > run[r].at => (m \in run[r].applied <=> record'[m] # 0)
      BY <1>5, <2>1
    <3>5. record'[k] = 0
      BY <3>3, <3>4
    <3>6. \A m \in Mig!Migrations : m > k => m > run[r].at
      <4>1. k \in Nat /\ run[r].at \in Nat
        BY <1>n, <3>3 DEF MigrateTypes, Calls
      <4> QED BY <1>n, <3>3, <4>1
    <3> HIDE DEF c, k
    <3> QED BY <1>3, <3>1, <3>2, <3>4, <3>5, <3>6
  <2> QED BY <2>2, <2>3
<1>13. ASSUME NEW r \in Procs, Mig!Change(r) PROVE Agrees'
  <2> DEFINE k == run[r].at
             c == [run[r] EXCEPT !.pc = "record"]
  <2>1. run[r].pc = "migrate" /\ run[r].op # "none" /\ UNCHANGED <<record, overlapped, torn>>
    BY <1>13, <1>o DEF Mig!Change, Mig!ghosts
  <2>2. /\ ~torn /\ overlapped = {} /\ \A s \in Procs : s # r => run[s].pc = "idle"
        /\ \A m \in Mig!Migrations : effect[m] = (IF record[m] # 0 THEN 1 ELSE 0)
        /\ \A m \in Mig!Migrations : m > k => (m \in run[r].applied <=> record[m] # 0)
        /\ k \in Mig!Migrations /\ record[k] = 0
    BY <1>5, <2>1
  <2>3. effect[k] = 0
    BY <2>2
  <2>4. effect' = [effect EXCEPT ![k] = effect[k] + 1] /\ Mig!To(r, "record")
    BY <1>13, <2>3 DEF Mig!Change
  <2>5. run' = [run EXCEPT ![r] = c] /\ c.pc = "record" /\ c.at = k /\ c.applied = run[r].applied
    BY <1>7, <2>4
  <2>6. effect'[k] = 1 /\ \A m \in Mig!Migrations : m # k => effect'[m] = effect[m]
    BY <2>2, <2>3, <2>4 DEF MigrateTypes
  <2> HIDE DEF c, k
  <2>7. \A m \in Mig!Migrations :
          \/ c.at = m /\ c.pc \in {"record", "delete"}
          \/ effect'[m] = (IF record'[m] # 0 THEN 1 ELSE 0)
    BY <2>1, <2>2, <2>5, <2>6
  <2>8. \A m \in Mig!Migrations : m > c.at => (m \in c.applied <=> record'[m] # 0)
    BY <2>1, <2>2, <2>5
  <2> QED BY <1>3, <2>1, <2>2, <2>5, <2>6, <2>7, <2>8
<1>14. ASSUME NEW r \in Procs, Mig!Record(r) PROVE Agrees'
  <2> DEFINE k == run[r].at
             c == [run[r] EXCEPT !.pc = "loop"]
  <2>1. run[r].pc = "record" /\ run[r].op # "none" /\ UNCHANGED <<effect, overlapped, torn>>
    BY <1>14, <1>o DEF Mig!Record
  <2>2. /\ ~torn /\ overlapped = {} /\ \A s \in Procs : s # r => run[s].pc = "idle"
        /\ \A m \in Mig!Migrations : m = k \/ effect[m] = (IF record[m] # 0 THEN 1 ELSE 0)
        /\ \A m \in Mig!Migrations : m > k => (m \in run[r].applied <=> record[m] # 0)
        /\ k \in Mig!Migrations /\ record[k] = 0 /\ effect[k] = 1
    BY <1>5, <2>1
  <2>3. PICK t \in {now + 1, 1} : record' = [record EXCEPT ![k] = t] /\ Mig!To(r, "loop")
    BY <1>14, <2>2 DEF Mig!Record
  <2>4. record'[k] # 0 /\ \A m \in Mig!Migrations : m # k => record'[m] = record[m]
    BY <2>2, <2>3 DEF MigrateTypes
  <2>5. run' = [run EXCEPT ![r] = c] /\ c.pc = "loop" /\ c.at = k /\ c.applied = run[r].applied
    BY <1>7, <2>3
  <2>6. \A m \in Mig!Migrations : m > k => m # k
    BY <1>n, <2>2
  <2> HIDE DEF c, k
  <2>7. \A m \in Mig!Migrations : effect'[m] = (IF record'[m] # 0 THEN 1 ELSE 0)
    BY <2>1, <2>2, <2>4
  <2>8. \A m \in Mig!Migrations : m > c.at => (m \in c.applied <=> record'[m] # 0)
    BY <2>2, <2>4, <2>5, <2>6
  <2> QED BY <1>3, <2>2, <2>5, <2>7, <2>8, ZenonT(60)
<1>15. ASSUME NEW r \in Procs, Mig!Pick(r) PROVE Agrees'
  <2>1. run[r].op = "down" /\ run[r].pc = "read" /\ UNCHANGED <<record, effect, overlapped, torn>>
    BY <1>15 DEF Mig!Pick, Mig!ghosts
  <2>2. CASE Mig!Recorded = {}
    BY <1>6, <1>15, <2>1, <2>2 DEF Mig!Pick
  <2>3. CASE Mig!Recorded # {}
    <3> DEFINE c == [run[r] EXCEPT !.pc = "has", !.at = Mig!Newest]
    <3>1. run' = [run EXCEPT ![r] = c]
      BY <1>15, <2>3 DEF Mig!Pick
    <3>2. c.pc = "has" /\ c.at = Mig!Newest
      BY DEF MigrateTypes, Calls
    <3>3. Mig!Newest \in Mig!Migrations /\ record'[Mig!Newest] # 0
      BY <2>1, <2>3, NewestFacts DEF Mig!Recorded
    <3>4. /\ ~torn /\ overlapped = {} /\ \A s \in Procs : s # r => run[s].pc = "idle"
          /\ \A m \in Mig!Migrations : effect'[m] = (IF record'[m] # 0 THEN 1 ELSE 0)
      BY <1>5, <2>1
    <3> HIDE DEF c
    <3> QED BY <1>3, <3>1, <3>2, <3>3, <3>4
  <2> QED BY <2>2, <2>3
<1>16. ASSUME NEW r \in Procs, Mig!Has(r) PROVE Agrees'
  <2> DEFINE k == run[r].at
             c == [run[r] EXCEPT !.pc = "rollback"]
  <2>1. run[r].pc = "has" /\ run[r].op # "none" /\ UNCHANGED <<record, effect, overlapped, torn>>
    BY <1>16, <1>o DEF Mig!Has, Mig!ghosts
  <2>2. /\ ~torn /\ overlapped = {} /\ \A s \in Procs : s # r => run[s].pc = "idle"
        /\ \A m \in Mig!Migrations : effect[m] = (IF record[m] # 0 THEN 1 ELSE 0)
        /\ k \in Mig!Migrations /\ record[k] # 0
    BY <1>5, <2>1
  <2>3. Mig!To(r, "rollback")
    BY <1>16, <2>2 DEF Mig!Has
  <2>4. run' = [run EXCEPT ![r] = c] /\ c.pc = "rollback" /\ c.at = k
    BY <1>7, <2>3
  <2> HIDE DEF c, k
  <2> QED BY <1>3, <2>1, <2>2, <2>4
<1>17. ASSUME NEW r \in Procs, Mig!Rollback(r) PROVE Agrees'
  <2> DEFINE k == run[r].at
             c == [run[r] EXCEPT !.pc = "delete"]
  <2>1. run[r].pc = "rollback" /\ run[r].op # "none" /\ UNCHANGED <<record, overlapped, torn>>
    BY <1>17, <1>o DEF Mig!Rollback, Mig!ghosts
  <2>2. /\ ~torn /\ overlapped = {} /\ \A s \in Procs : s # r => run[s].pc = "idle"
        /\ \A m \in Mig!Migrations : effect[m] = (IF record[m] # 0 THEN 1 ELSE 0)
        /\ k \in Mig!Migrations /\ record[k] # 0
    BY <1>5, <2>1
  <2>3. effect[k] = 1
    BY <2>2
  <2>4. effect' = [effect EXCEPT ![k] = effect[k] - 1] /\ Mig!To(r, "delete")
    BY <1>17, <2>3 DEF Mig!Rollback
  <2>5. run' = [run EXCEPT ![r] = c] /\ c.pc = "delete" /\ c.at = k
    BY <1>7, <2>4
  <2>6. effect'[k] = 0 /\ \A m \in Mig!Migrations : m # k => effect'[m] = effect[m]
    BY <2>2, <2>3, <2>4 DEF MigrateTypes
  <2> HIDE DEF c, k
  <2>7. \A m \in Mig!Migrations :
          \/ c.at = m /\ c.pc \in {"record", "delete"}
          \/ effect'[m] = (IF record'[m] # 0 THEN 1 ELSE 0)
    BY <2>1, <2>2, <2>5, <2>6
  <2> QED BY <1>3, <2>1, <2>2, <2>5, <2>6, <2>7
<1>18. ASSUME NEW r \in Procs, Mig!DeleteRecord(r) PROVE Agrees'
  <2> DEFINE k == run[r].at
  <2>1. /\ run[r].pc = "delete" /\ run[r].op # "none" /\ UNCHANGED <<effect, overlapped, torn>>
        /\ run' = [run EXCEPT ![r] = Mig!NotRunning] /\ record' = [record EXCEPT ![k] = 0]
    BY <1>18, <1>o DEF Mig!DeleteRecord, Mig!ghosts, Mig!Return
  <2>2. /\ ~torn /\ overlapped = {} /\ \A s \in Procs : s # r => run[s].pc = "idle"
        /\ \A m \in Mig!Migrations : m = k \/ effect[m] = (IF record[m] # 0 THEN 1 ELSE 0)
        /\ k \in Mig!Migrations /\ effect[k] = 0
    BY <1>5, <2>1
  <2>3. record'[k] = 0 /\ \A m \in Mig!Migrations : m # k => record'[m] = record[m]
    BY <2>1, <2>2 DEF MigrateTypes
  <2>4. Mig!NotRunning.pc = "idle"
    BY DEF Mig!NotRunning
  <2> HIDE DEF k
  <2>5. \A m \in Mig!Migrations : effect'[m] = (IF record'[m] # 0 THEN 1 ELSE 0)
    BY <2>1, <2>2, <2>3
  <2> QED BY <1>3, <2>1, <2>2, <2>4, <2>5
<1>19. ASSUME NEW r \in Procs, Mig!Fail(r) PROVE Agrees'
  <2>1. /\ run[r].op # "none" /\ Mig!Return(r) /\ UNCHANGED <<record, effect, overlapped>>
        /\ torn' = (torn \/ run[r].pc \in {"record", "delete"})
    BY <1>19 DEF Mig!Fail
  <2>2. run[r].pc \notin {"record", "delete"} /\ torn' = torn
    BY <2>1 DEF MigrateTypes
  <2> QED BY <1>6, <2>1, <2>2
<1> QED
  BY <1>1, <1>4, <1>9, <1>10, <1>11, <1>12, <1>13, <1>14, <1>15, <1>16, <1>17, <1>18, <1>19 DEF Mig!Next

\* What a call does to the order of the record.
LEMMA SequenceStep ==
  ASSUME MigrateConstants, MigrateTypes, CallPhases, Noted, InSequence, [Mig!Next]_migrateVars
  PROVE  InSequence'
<1>n. Mig!Migrations \subseteq Nat /\ (Mig!Migrations)' = Mig!Migrations
  BY DEF Mig!Migrations
<1>1. CASE UNCHANGED migrateVars
  BY <1>1 DEF migrateVars, InSequence, Mig!Recorded
<1> DEFINE Ordered ==
      \A m \in Mig!Recorded : \A k \in Mig!Migrations : k < m => k \in Mig!Recorded /\ record[k] < record[m]
    Placed(c) ==
      /\ c.pc = "loop" => \A k \in Mig!Migrations : k <= c.at => k \in Mig!Recorded
      /\ c.pc \in {"loop", "migrate", "record"} => c.applied \subseteq Mig!Recorded
      /\ c.pc \in {"migrate", "record"} => \A k \in Mig!Migrations : k < c.at => k \in Mig!Recorded
      /\ c.pc \in {"has", "rollback", "delete"} => \A k \in Mig!Recorded : k <= c.at
<1> SUFFICES ASSUME "down" \notin overlapped', ~skewed' PROVE InSequence'
  BY DEF InSequence
\* A step that leaves the record alone, said of the place of its call.
<1>2. ASSUME NEW r \in Procs, NEW c, run' = [run EXCEPT ![r] = c], UNCHANGED record, Placed(c),
             "down" \notin overlapped, ~skewed
      PROVE  InSequence'
  <2>1. run'[r] = c /\ \A s \in Procs : s # r => run'[s] = run[s]
    BY <1>2, OtherCalls
  <2>2. (Mig!Recorded)' = Mig!Recorded
    BY <1>2 DEF Mig!Recorded, Mig!Migrations
  <2>3. Ordered /\ \A s \in Procs : Placed(run[s])
    BY <1>2 DEF InSequence
  <2>4. \A s \in Procs : Placed(run'[s])
    BY <1>2, <2>1, <2>3
  <2> QED BY <1>2, <1>n, <2>2, <2>3, <2>4 DEF InSequence
<1>3. ASSUME NEW r \in Procs, Mig!Return(r), UNCHANGED <<record, overlapped, skewed>> PROVE InSequence'
  <2>1. Placed(Mig!NotRunning)
    BY DEF Mig!NotRunning
  <2> HIDE DEF Placed
  <2> QED BY <1>2, <1>3, <2>1 DEF Mig!Return
<1>4. ASSUME NEW r \in Procs, NEW pcs, Mig!To(r, pcs)
      PROVE  /\ run' = [run EXCEPT ![r] = [run[r] EXCEPT !.pc = pcs]]
             /\ [run[r] EXCEPT !.pc = pcs].pc = pcs
             /\ [run[r] EXCEPT !.pc = pcs].at = run[r].at
             /\ [run[r] EXCEPT !.pc = pcs].applied = run[r].applied
  BY <1>4 DEF Mig!To, MigrateTypes, Calls
<1>5. ASSUME NEW r \in Procs, NEW pcs, Mig!To(r, pcs), UNCHANGED <<record, overlapped, skewed>>,
             \/ pcs \in {"read", "create"}
             \/ pcs = "record" /\ run[r].pc = "migrate"
             \/ pcs \in {"rollback", "delete"} /\ run[r].pc \in {"has", "rollback"}
      PROVE  InSequence'
  <2> DEFINE c == [run[r] EXCEPT !.pc = pcs]
  <2>1. run' = [run EXCEPT ![r] = c] /\ c.pc = pcs /\ c.at = run[r].at /\ c.applied = run[r].applied
    BY <1>4, <1>5
  <2>2. Placed(run[r])
    BY <1>5 DEF InSequence
  <2> HIDE DEF c
  <2>3. Placed(c)
    BY <1>5, <2>1, <2>2
  <2> HIDE DEF Placed
  <2> QED BY <1>2, <1>5, <2>1, <2>3
<1>6. ASSUME NEW r \in Procs, NEW op \in {"up", "down"}, Mig!Start(r, op) PROVE InSequence'
  <2> DEFINE c == [Mig!NotRunning EXCEPT !.op = op, !.pc = "ensure"]
  <2>1. run' = [run EXCEPT ![r] = c] /\ UNCHANGED <<record, skewed>> /\ overlapped \subseteq overlapped'
    BY <1>6 DEF Mig!Start
  <2>2. Placed(c)
    BY DEF Mig!NotRunning
  <2> HIDE DEF c, Placed
  <2> QED BY <1>2, <2>1, <2>2
<1>7. ASSUME NEW r \in Procs, Mig!Ensure(r) PROVE InSequence'
  BY <1>5, <1>7 DEF Mig!Ensure, Mig!ghosts
<1>8. ASSUME NEW r \in Procs, Mig!CreateMigrationsTable(r) PROVE InSequence'
  BY <1>3, <1>5, <1>8 DEF Mig!CreateMigrationsTable, Mig!ghosts
<1>9. ASSUME NEW r \in Procs, Mig!appliedIDs(r) PROVE InSequence'
  <2> DEFINE c == [run[r] EXCEPT !.pc = "loop", !.applied = Mig!Recorded]
  <2>1. run' = [run EXCEPT ![r] = c] /\ UNCHANGED <<record, overlapped, skewed>>
    BY <1>9 DEF Mig!appliedIDs, Mig!ghosts
  <2>2. c.pc = "loop" /\ c.applied = Mig!Recorded /\ c.at = 0
    BY <1>9 DEF MigrateTypes, Calls, CallPhases, Mig!appliedIDs
  <2> HIDE DEF c
  <2>3. \A k \in Mig!Migrations : ~(k <= 0)
    BY DEF Mig!Migrations
  <2>4. Placed(c)
    BY <2>2, <2>3
  <2> HIDE DEF Placed
  <2> QED BY <1>2, <2>1, <2>4
<1>10. ASSUME NEW r \in Procs, Mig!Loop(r) PROVE InSequence'
  <2>1. run[r].pc = "loop" /\ UNCHANGED <<record, overlapped, skewed>>
    BY <1>10 DEF Mig!Loop, Mig!ghosts
  <2>2. CASE Mig!Pending(r) = {}
    BY <1>3, <1>10, <2>1, <2>2 DEF Mig!Loop
  <2>3. CASE Mig!Pending(r) # {}
    <3> DEFINE x == Mig!Min(Mig!Pending(r))
               c == [run[r] EXCEPT !.pc = "migrate", !.at = x]
    <3>1. run' = [run EXCEPT ![r] = c]
      BY <1>10, <2>3 DEF Mig!Loop
    <3>2. c.pc = "migrate" /\ c.at = x /\ c.applied = run[r].applied
      BY DEF MigrateTypes, Calls
    <3>3. x \in Mig!Migrations /\ \A m \in Mig!Pending(r) : x <= m
      BY <2>3, FirstPending DEF Mig!Pending
    <3>4. Placed(run[r])
      BY <2>1 DEF InSequence
    <3>5. ASSUME NEW k \in Mig!Migrations, k < x PROVE k \in Mig!Recorded
      <4> HIDE DEF x
      <4>0. k \in Nat /\ x \in Nat
        BY <1>n, <3>3
      <4>1. k \notin Mig!Pending(r)
        BY <3>3, <3>5, <4>0
      <4>2. CASE k \in run[r].applied
        BY <2>1, <3>4, <4>2
      <4>3. CASE ~(k > run[r].at)
        <5>1. run[r].at \in Nat /\ k \in Nat
          BY <1>n DEF MigrateTypes, Calls
        <5>2. k <= run[r].at
          BY <4>3, <5>1
        <5> QED BY <2>1, <3>4, <5>2
      <4> QED BY <4>1, <4>2, <4>3 DEF Mig!Pending
    <3> HIDE DEF c, x
    <3>6. Placed(c)
      BY <2>1, <3>2, <3>4, <3>5
    <3> HIDE DEF Placed
    <3> QED BY <1>2, <2>1, <3>1, <3>6
  <2> QED BY <2>2, <2>3
<1>11. ASSUME NEW r \in Procs, Mig!Change(r) PROVE InSequence'
  <2>1. UNCHANGED <<record, overlapped, skewed>> /\ run[r].pc = "migrate"
    BY <1>11 DEF Mig!Change, Mig!ghosts
  <2>2. Mig!Return(r) \/ Mig!To(r, "record")
    BY <1>11 DEF Mig!Change
  <2> QED BY <1>3, <1>5, <2>1, <2>2
<1>12. ASSUME NEW r \in Procs, Mig!Record(r) PROVE InSequence'
  <2> DEFINE x == run[r].at
             c == [run[r] EXCEPT !.pc = "loop"]
  <2>1. run[r].pc = "record" /\ UNCHANGED overlapped
    BY <1>12 DEF Mig!Record
  <2>2. CASE record[x] # 0
    BY <1>3, <1>12, <2>1, <2>2 DEF Mig!Record
  <2>3. CASE record[x] = 0
    <3>1. /\ Mig!To(r, "loop") /\ record' = [record EXCEPT ![x] = now + 1] /\ UNCHANGED skewed
      BY <1>12, <2>3 DEF Mig!Record
    <3>2. /\ run' = [run EXCEPT ![r] = c]
          /\ c.pc = "loop" /\ c.at = x /\ c.applied = run[r].applied
      BY <1>4, <3>1
    <3>3. run'[r] = c /\ \A s \in Procs : s # r => run'[s] = run[s]
      BY <3>2, OtherCalls
    <3>4. x \in Mig!Migrations /\ x \in Nat
      BY <1>n, <2>1 DEF CallPhases
    <3>5. "down" \notin overlapped /\ Ordered /\ \A s \in Procs : Placed(run[s])
      BY <2>1, <3>1 DEF InSequence
    <3>6. record'[x] = now + 1 /\ \A m \in Mig!Migrations : m # x => record'[m] = record[m]
      BY <3>1, <3>4 DEF MigrateTypes
    <3>7. now \in Nat /\ \A m \in Mig!Migrations : record[m] \in Nat /\ record[m] <= now
      BY DEF MigrateTypes
    <3>8. (Mig!Recorded)' = Mig!Recorded \cup {x}
      <4>1. \A m \in Mig!Migrations : record'[m] # 0 <=> (record[m] # 0 \/ m = x)
        BY <3>6, <3>7
      <4> QED BY <1>n, <3>4, <4>1 DEF Mig!Recorded
    <3>9. \A k \in Mig!Migrations : k < x => k \in Mig!Recorded
      BY <2>1, <3>5
    <3>10. \A m \in Mig!Recorded : m < x
      <4> SUFFICES ASSUME NEW m \in Mig!Recorded, ~(m < x) PROVE FALSE
        OBVIOUS
      <4>1. m \in Mig!Migrations /\ m # x
        BY <2>3 DEF Mig!Recorded
      <4>2. x < m
        BY <1>n, <3>4, <4>1
      <4>3. x \in Mig!Recorded
        BY <3>4, <3>5, <4>2
      <4> QED BY <2>3, <4>3 DEF Mig!Recorded
    \* No Down is under way beside this Up.
    <3>11. \A s \in Procs : run'[s].pc \notin {"has", "rollback", "delete"}
      <4>1. run[r].op = "up"
        BY <2>1 DEF CallPhases, MigrateTypes, Calls
      <4>2. \A s \in Procs : s # r => run[s].op # "down"
        BY <4>1, <3>5 DEF Noted
      <4>3. \A s \in Procs : s # r => run[s].pc \notin {"has", "rollback", "delete"}
        BY <4>2 DEF CallPhases, MigrateTypes, Calls
      <4> QED BY <3>2, <3>3, <4>3
    <3> DEFINE Rec == Mig!Recorded \cup {x}
    <3>12. \A m \in Rec : \A k \in Mig!Migrations : k < m => k \in Rec /\ record'[k] < record'[m]
      <4> SUFFICES ASSUME NEW m \in Rec, NEW k \in Mig!Migrations, k < m PROVE k \in Rec /\ record'[k] < record'[m]
        OBVIOUS
      <4>1. CASE m = x
        <5>1. k \in Rec /\ k # x
          BY <3>4, <3>9, <4>1
        <5>2. record'[k] = record[k] /\ record[k] < now + 1
          BY <3>6, <3>7, <5>1
        <5> QED BY <3>6, <4>1, <5>1, <5>2
      <4>2. CASE m \in Mig!Recorded
        <5>1. m \in Mig!Migrations /\ m < x /\ m \in Nat /\ k \in Nat
          BY <1>n, <3>10, <4>2 DEF Mig!Recorded
        <5>2. k # x /\ m # x
          BY <3>4, <5>1
        <5> QED BY <3>5, <3>6, <4>2, <5>1, <5>2
      <4> QED BY <4>1, <4>2
    <3>13. ASSUME NEW s \in Procs
           PROVE  /\ run'[s].pc = "loop" => \A k \in Mig!Migrations : k <= run'[s].at => k \in Rec
                  /\ run'[s].pc \in {"loop", "migrate", "record"} => run'[s].applied \subseteq Rec
                  /\ run'[s].pc \in {"migrate", "record"} => \A k \in Mig!Migrations : k < run'[s].at => k \in Rec
      <4>1. CASE s # r
        BY <3>3, <3>5, <4>1
      <4>2. CASE s = r
        <5>1. \A k \in Mig!Migrations : k <= x => k \in Rec
          BY <1>n, <3>4, <3>9
        <5>2. run[r].applied \subseteq Rec
          BY <2>1, <3>5
        <5> HIDE DEF Rec, c, x
        <5> QED BY <3>2, <3>3, <4>2, <5>1, <5>2
      <4> QED BY <4>1, <4>2
    <3> HIDE DEF Ordered, Placed, c
    <3> QED BY <1>n, <3>8, <3>11, <3>12, <3>13 DEF InSequence
  <2> QED BY <2>2, <2>3
<1>13. ASSUME NEW r \in Procs, Mig!Pick(r) PROVE InSequence'
  <2>1. UNCHANGED <<record, overlapped, skewed>>
    BY <1>13 DEF Mig!Pick, Mig!ghosts
  <2>2. CASE Mig!Recorded = {}
    BY <1>3, <1>13, <2>1, <2>2 DEF Mig!Pick
  <2>3. CASE Mig!Recorded # {}
    <3> DEFINE x == Mig!Newest
               c == [run[r] EXCEPT !.pc = "has", !.at = x]
    <3>1. run' = [run EXCEPT ![r] = c]
      BY <1>13, <2>3 DEF Mig!Pick
    <3>2. c.pc = "has" /\ c.at = x
      BY DEF MigrateTypes, Calls
    <3>3. x \in Mig!Recorded /\ \A k \in Mig!Recorded : record[k] <= record[x]
      BY <2>3, NewestFacts
    <3>4. Ordered
      BY <2>1 DEF InSequence
    <3> HIDE DEF c, x
    <3>5. ASSUME NEW k \in Mig!Recorded PROVE k <= x
      <4>1. k \in Nat /\ x \in Nat /\ k \in Mig!Migrations /\ x \in Mig!Migrations
        BY <1>n, <3>3 DEF Mig!Recorded
      <4>2. record[k] \in Nat /\ record[x] \in Nat
        BY <4>1 DEF MigrateTypes
      <4>3. ~(x < k)
        BY <3>3, <3>4, <4>1, <4>2
      <4> QED BY <4>1, <4>3
    <3>6. Placed(c)
      BY <3>2, <3>5
    <3> HIDE DEF Placed
    <3> QED BY <1>2, <2>1, <3>1, <3>6
  <2> QED BY <2>2, <2>3
<1>14. ASSUME NEW r \in Procs, Mig!Has(r) PROVE InSequence'
  <2>1. UNCHANGED <<record, overlapped, skewed>> /\ run[r].pc = "has"
    BY <1>14 DEF Mig!Has, Mig!ghosts
  <2>2. Mig!To(r, "rollback") \/ Mig!To(r, "delete")
    BY <1>14 DEF Mig!Has
  <2> QED BY <1>5, <2>1, <2>2
<1>15. ASSUME NEW r \in Procs, Mig!Rollback(r) PROVE InSequence'
  <2>1. UNCHANGED <<record, overlapped, skewed>> /\ run[r].pc = "rollback"
    BY <1>15 DEF Mig!Rollback, Mig!ghosts
  <2>2. Mig!Return(r) \/ Mig!To(r, "delete")
    BY <1>15 DEF Mig!Rollback
  <2> QED BY <1>3, <1>5, <2>1, <2>2
<1>16. ASSUME NEW r \in Procs, Mig!DeleteRecord(r) PROVE InSequence'
  <2> DEFINE x == run[r].at
  <2>1. /\ run[r].pc = "delete" /\ UNCHANGED <<overlapped, skewed>>
        /\ run' = [run EXCEPT ![r] = Mig!NotRunning] /\ record' = [record EXCEPT ![x] = 0]
    BY <1>16 DEF Mig!DeleteRecord, Mig!ghosts, Mig!Return
  <2>2. Ordered /\ Placed(run[r]) /\ "down" \notin overlapped
    BY <2>1 DEF InSequence
  <2>3. x \in Mig!Migrations /\ x \in Nat
    BY <1>n, <2>1 DEF CallPhases
  <2>4. record'[x] = 0 /\ \A m \in Mig!Migrations : m # x => record'[m] = record[m]
    BY <2>1, <2>3 DEF MigrateTypes
  <2>5. (Mig!Recorded)' = Mig!Recorded \ {x}
    BY <1>n, <2>3, <2>4 DEF Mig!Recorded
  \* No other call is under way beside this Down.
  <2>6. \A s \in Procs : run'[s].pc = "idle"
    <3>1. run[r].op = "down"
      BY <2>1 DEF CallPhases, MigrateTypes, Calls
    <3>2. \A s \in Procs : s # r => run[s].op = "none"
      BY <3>1, <2>2 DEF Noted
    <3>3. \A s \in Procs : s # r => run[s].pc = "idle"
      BY <3>2 DEF CallPhases
    <3>4. run'[r] = Mig!NotRunning /\ \A s \in Procs : s # r => run'[s] = run[s]
      BY <2>1, OtherCalls
    <3> QED BY <3>3, <3>4 DEF Mig!NotRunning
  <2>7. \A m \in Mig!Recorded : m <= x
    BY <2>1, <2>2
  <2>8. ASSUME NEW m \in Mig!Recorded \ {x}, NEW k \in Mig!Migrations, k < m
        PROVE  k \in Mig!Recorded \ {x} /\ record'[k] < record'[m]
    <3>1. m \in Mig!Migrations /\ m \in Nat /\ k \in Nat /\ m <= x /\ m # x
      BY <1>n, <2>7 DEF Mig!Recorded
    <3>2. k # x
      BY <2>3, <2>8, <3>1
    <3> QED BY <2>2, <2>4, <2>8, <3>1, <3>2
  <2> HIDE DEF Ordered, Placed, x
  <2> QED BY <1>n, <2>5, <2>6, <2>8 DEF InSequence
<1>17. ASSUME NEW r \in Procs, Mig!Fail(r) PROVE InSequence'
  BY <1>3, <1>17 DEF Mig!Fail
<1> QED
  BY <1>1, <1>6, <1>7, <1>8, <1>9, <1>10, <1>11, <1>12, <1>13, <1>14, <1>15, <1>16, <1>17 DEF Mig!Next

\* The record of migrations and the schema agree, and no migration is recorded
\* without those before it, as far as AppliedAsRecorded says, for any number of
\* migrations and processes.
THEOREM MigrationsRecorded == ASSUME MigrateConstants PROVE Mig!Spec => []AppliedAsRecorded
<1>n. Mig!Migrations \subseteq Nat
  BY DEF Mig!Migrations
<1>1. Mig!Init => MigrateInv
  <2> SUFFICES ASSUME Mig!Init PROVE MigrateInv
    OBVIOUS
  <2>1. Mig!NotRunning \in Calls
    BY DEF Mig!NotRunning, Calls
  <2>2. MigrateTypes
    <3>1. \A m \in Mig!Migrations : record[m] <= now
      BY DEF Mig!Init
    <3>2. run \in [Procs -> Calls]
      BY <2>1 DEF Mig!Init
    <3> QED BY <3>1, <3>2 DEF Mig!Init, MigrateTypes
  <2>3. \A r \in Procs : run[r].op = "none" /\ run[r].pc = "idle"
    BY DEF Mig!Init, Mig!NotRunning
  <2>4. Mig!Recorded = {}
    BY DEF Mig!Init, Mig!Recorded
  <2>5. \A m \in Mig!Migrations : effect[m] = 0
    BY DEF Mig!Init
  <2> QED BY <2>2, <2>3, <2>4, <2>5 DEF MigrateInv, CallPhases, Noted, Agrees, InSequence
<1>2. MigrateInv /\ [Mig!Next]_migrateVars => MigrateInv'
  BY PhasesStep, NotedStep, AgreesStep, SequenceStep DEF MigrateInv
<1>3. MigrateInv => AppliedAsRecorded
  <2> SUFFICES ASSUME MigrateInv PROVE AppliedAsRecorded
    OBVIOUS
  <2>1. ASSUME "down" \notin overlapped, ~skewed, NEW m \in Mig!Recorded PROVE 1 .. m \subseteq Mig!Recorded
    <3>1. m \in Mig!Migrations /\ m \in Nat /\ m <= N
      BY DEF Mig!Recorded, Mig!Migrations
    <3>2. \A k \in 1 .. m : k \in Mig!Migrations /\ (k < m \/ k = m)
      BY <3>1 DEF Mig!Migrations, MigrateConstants
    <3> QED BY <2>1, <3>2 DEF MigrateInv, InSequence
  <2>2. ~torn /\ overlapped = {} =>
          \A m \in Mig!Migrations : Mig!Between(m) \/ effect[m] = (IF m \in Mig!Recorded THEN 1 ELSE 0)
    BY DEF MigrateInv, Agrees
  <2> QED BY <2>1, <2>2 DEF AppliedAsRecorded, Mig!AppliedAsRecorded
<1> QED BY <1>1, <1>2, <1>3, PTL DEF Mig!Spec, Mig!vars, migrateVars

-----------------------------------------------------------------------------
(* PackTx: Tx inside Tx is a nested transaction                               *)

Scopes == [name : Nat, began : SUBSET Values]
Saves == [name : Nat, work : SUBSET Values]

TxTypes ==
  /\ refuses \in BOOLEAN /\ aborted \in BOOLEAN /\ lost \in BOOLEAN
  /\ work \subseteq Values /\ savepointSeq \in Nat
  /\ scopes \in Seq(Scopes) /\ saves \in Seq(Saves)

\* Scopes begin one after the other, with what is written by then, under names
\* that grow; outside all of them nothing is wrong.
ScopesNest ==
  /\ scopes = <<>> => ~lost /\ ~aborted
  /\ scopes # <<>> => scopes[1].began = {}
  /\ \A i \in DOMAIN scopes : scopes[i].began \subseteq work /\ scopes[i].name <= savepointSeq
  /\ \A i, j \in DOMAIN scopes :
       i < j => scopes[i].began \subseteq scopes[j].began /\ scopes[i].name < scopes[j].name

\* The session still has the savepoint of every open scope, under its name only.
ScopesSaved ==
  /\ \A k \in DOMAIN saves : saves[k].name <= savepointSeq
  /\ \A k, l \in DOMAIN saves : k < l => saves[k].name < saves[l].name
  /\ \A i \in DOMAIN scopes : i > 1 =>
       \E k \in DOMAIN saves : saves[k].name = scopes[i].name /\ saves[k].work = scopes[i].began

TxInv == TxTypes /\ ScopesNest /\ ScopesSaved

\* A prefix of a sequence.
LEMMA Prefix ==
  ASSUME NEW S, NEW q \in Seq(S), NEW n \in 0 .. Len(q)
  PROVE  /\ SubSeq(q, 1, n) \in Seq(S) /\ Len(SubSeq(q, 1, n)) = n /\ DOMAIN SubSeq(q, 1, n) = 1 .. n
         /\ \A i \in 1 .. n : SubSeq(q, 1, n)[i] = q[i]
         /\ DOMAIN q = 1 .. Len(q) /\ 1 .. n \subseteq DOMAIN q /\ n \in Nat
<1>1. Len(q) \in Nat /\ DOMAIN q = 1 .. Len(q) /\ n \in Nat
  OBVIOUS
<1>2. \A i \in 1 .. n : q[i] \in S
  BY <1>1
<1> QED BY <1>1, <1>2

\* Of a prefix that reaches to just before x, whatever is before x is in it.
LEMMA Within ==
  ASSUME NEW L \in Nat, NEW y \in 0 .. L, NEW x \in Nat, y >= x - 1
  PROVE  /\ \A k \in 1 .. y : k \in 1 .. L
         /\ \A k \in 1 .. L : k < x => k \in 1 .. y
OBVIOUS

\* The savepoint of an open scope is the only one of its name, and after those
\* of the scopes around it.
LEMMA ItsSavepoint ==
  ASSUME TxInv, NEW i \in DOMAIN scopes, i > 1
  PROVE  LET n == scopes[i].name IN
         /\ Tx!Named(n) # {} /\ Tx!Latest(n) \in DOMAIN saves
         /\ saves[Tx!Latest(n)].name = n /\ saves[Tx!Latest(n)].work = scopes[i].began
         /\ \A j \in DOMAIN scopes : j > 1 /\ j < i =>
              \E k \in DOMAIN saves :
                /\ k < Tx!Latest(n) /\ saves[k].name = scopes[j].name /\ saves[k].work = scopes[j].began
<1> DEFINE n == scopes[i].name
<1>0. Len(saves) \in Nat /\ DOMAIN saves = 1 .. Len(saves) /\ Len(scopes) \in Nat /\ DOMAIN scopes = 1 .. Len(scopes)
  BY DEF TxInv, TxTypes
<1>t. /\ \A k \in DOMAIN saves : saves[k].name \in Nat
      /\ \A j \in DOMAIN scopes : scopes[j].name \in Nat
  <2>1. \A k \in DOMAIN saves : saves[k] \in Saves
    BY DEF TxInv, TxTypes
  <2>2. \A j \in DOMAIN scopes : scopes[j] \in Scopes
    BY DEF TxInv, TxTypes
  <2> QED BY <2>1, <2>2 DEF Saves, Scopes
<1>1. PICK k \in DOMAIN saves : saves[k].name = n /\ saves[k].work = scopes[i].began
  BY DEF TxInv, ScopesSaved
<1>2. \A l \in DOMAIN saves : saves[l].name = n => l = k
  <2> SUFFICES ASSUME NEW l \in DOMAIN saves, saves[l].name = n, l # k PROVE FALSE
    OBVIOUS
  <2>1. l < k \/ k < l
    BY <1>0
  <2> QED BY <1>1, <1>t, <2>1 DEF TxInv, ScopesSaved
<1>3. Tx!Named(n) = {k}
  BY <1>1, <1>2 DEF Tx!Named
<1>4. Tx!Latest(n) = k
  <2>1. k >= k
    BY <1>0
  <2> QED BY <1>3, <2>1 DEF Tx!Latest, Tx!Max
<1>5. ASSUME NEW j \in DOMAIN scopes, j > 1, j < i
      PROVE  \E l \in DOMAIN saves :
                /\ l < k /\ saves[l].name = scopes[j].name /\ saves[l].work = scopes[j].began
  <2>1. PICK l \in DOMAIN saves : saves[l].name = scopes[j].name /\ saves[l].work = scopes[j].began
    BY <1>5 DEF TxInv, ScopesSaved
  <2>2. scopes[j].name < n
    BY <1>5 DEF TxInv, ScopesNest
  <2>3. ~(k < l) /\ k # l
    BY <1>1, <1>t, <2>1, <2>2 DEF TxInv, ScopesSaved
  <2>4. l < k
    BY <1>0, <2>3
  <2> QED BY <2>1, <2>4
<1> QED BY <1>1, <1>3, <1>4, <1>5

\* When a scope ends, the ones around it keep what they rest on.
LEMMA PopScope ==
  ASSUME TxInv, Len(scopes) > 1, scopes' = Tx!Front(scopes), savepointSeq' = savepointSeq,
         refuses' = refuses, lost' = lost, aborted' \in BOOLEAN,
         \/ work' = work /\ saves' = saves
         \/ work' = work /\ saves' = SubSeq(saves, 1, Tx!Latest(Tx!Inner.name) - 1)
         \/ work' = Tx!Inner.began /\ saves' = SubSeq(saves, 1, Tx!Latest(Tx!Inner.name))
  PROVE  TxInv'
<1> DEFINE D == Len(scopes)
           n == Tx!Inner.name
           x == Tx!Latest(n)
<1>0. D \in Nat /\ DOMAIN scopes = 1 .. D /\ D \in DOMAIN scopes /\ Tx!Inner = scopes[D]
  BY DEF TxInv, TxTypes, Tx!Inner, Tx!Last
<1>1. /\ scopes' \in Seq(Scopes) /\ Len(scopes') = D - 1 /\ DOMAIN scopes' = 1 .. (D - 1)
      /\ \A i \in 1 .. (D - 1) : scopes'[i] = scopes[i]
  <2>1. scopes' = SubSeq(scopes, 1, D - 1) /\ D - 1 \in 0 .. D
    BY <1>0 DEF Tx!Front
  <2> QED BY <2>1, Prefix DEF TxInv, TxTypes
<1>2. /\ x \in DOMAIN saves /\ saves[x].work = scopes[D].began
      /\ \A j \in DOMAIN scopes : j > 1 /\ j < D =>
              \E k \in DOMAIN saves :
                /\ k < x /\ saves[k].name = scopes[j].name /\ saves[k].work = scopes[j].began
  BY <1>0, ItsSavepoint
<1>3. Len(saves) \in Nat /\ DOMAIN saves = 1 .. Len(saves) /\ saves \in Seq(Saves)
  BY DEF TxInv, TxTypes
<1> HIDE DEF x, n, D
<1>4. /\ x - 1 \in 0 .. Len(saves) /\ x \in 0 .. Len(saves) /\ Len(saves) \in 0 .. Len(saves)
      /\ x >= x - 1 /\ x - 1 >= x - 1 /\ Len(saves) >= x - 1 /\ x \in Nat
  BY <1>2, <1>3
<1>5. \E y \in 0 .. Len(saves) :
        /\ y >= x - 1
        /\ saves' \in Seq(Saves) /\ DOMAIN saves' = 1 .. y
        /\ \A k \in 1 .. y : saves'[k] = saves[k]
  <2>2. CASE saves' = saves
    BY <1>3, <1>4, <2>2
  <2>3. CASE saves' = SubSeq(saves, 1, x - 1)
    BY <1>3, <1>4, <2>3, Prefix
  <2>4. CASE saves' = SubSeq(saves, 1, x)
    <3>1. saves' \in Seq(Saves) /\ DOMAIN saves' = 1 .. x /\ \A k \in 1 .. x : saves'[k] = saves[k]
      BY <1>3, <1>4, <2>4, Prefix
    <3> QED BY <1>4, <3>1
  <2> QED BY <2>2, <2>3, <2>4 DEF x, n
<1>y. PICK y \in 0 .. Len(saves) :
        /\ y >= x - 1
        /\ saves' \in Seq(Saves) /\ DOMAIN saves' = 1 .. y
        /\ \A k \in 1 .. y : saves'[k] = saves[k]
  BY <1>5
<1>w. /\ \A k \in 1 .. y : k \in DOMAIN saves
      /\ \A k \in DOMAIN saves : k < x => k \in 1 .. y
  BY <1>3, <1>4, <1>y, Within
<1>6. work' \subseteq Values /\ \A i \in 1 .. (D - 1) : scopes[i].began \subseteq work'
  <2>0. scopes[D] \in Scopes
    BY <1>0 DEF TxInv, TxTypes
  <2>1. scopes[D].began \subseteq Values
    BY <2>0 DEF Scopes
  <2>2. \A i \in 1 .. (D - 1) : i \in DOMAIN scopes /\ i < D
    BY <1>0
  <2>3. \A i \in 1 .. (D - 1) : scopes[i].began \subseteq scopes[D].began /\ scopes[i].began \subseteq work
    BY <1>0, <2>2 DEF TxInv, ScopesNest
  <2> QED BY <1>0, <2>1, <2>3 DEF TxInv, TxTypes
<1>7. TxTypes'
  BY <1>1, <1>y, <1>6 DEF TxInv, TxTypes
<1>8. ScopesNest'
  <2>1. scopes' # <<>> /\ scopes'[1] = scopes[1] /\ scopes # <<>>
    <3>1. D > 1
      BY DEF D
    <3> QED BY <1>0, <1>1, <3>1
  <2>2. \A i \in 1 .. (D - 1) : i \in DOMAIN scopes
    BY <1>0
  <2> QED BY <1>1, <1>6, <2>1, <2>2 DEF TxInv, ScopesNest
<1>9. ScopesSaved'
  <2>2. ASSUME NEW j \in 1 .. (D - 1), j > 1
        PROVE  \E k \in 1 .. y : saves'[k].name = scopes'[j].name /\ saves'[k].work = scopes'[j].began
    <3>1. j \in DOMAIN scopes /\ j < D
      BY <1>0
    <3>2. PICK k \in DOMAIN saves : k < x /\ saves[k].name = scopes[j].name /\ saves[k].work = scopes[j].began
      BY <1>2, <2>2, <3>1
    <3> QED BY <1>1, <1>w, <1>y, <3>2
  <2> QED BY <1>1, <1>w, <1>y, <2>2 DEF TxInv, ScopesSaved
<1> QED BY <1>7, <1>8, <1>9 DEF TxInv

\* The scopes' frames, as a function of the scopes and of what is written.
FramesOf(s, w) == [i \in DOMAIN s |-> (IF i = Len(s) THEN w ELSE s[i + 1].began) \ s[i].began]

\* The places of a sequence but the last have a next one.
LEMMA Between ==
  ASSUME NEW L \in Nat, NEW i \in 1 .. L
  PROVE  /\ i = L \/ i < L
         /\ i # L => i + 1 \in 1 .. L
         /\ i < L => i # L /\ i + 1 \in 1 .. L
OBVIOUS

\* Each scope's frame reaches to the beginning of the scope inside it.
LEMMA FramesAre ==
  ASSUME NEW s \in Seq(Scopes), NEW w \in SUBSET Values
  PROVE  /\ FramesOf(s, w) \in Seq(SUBSET Values) /\ Len(FramesOf(s, w)) = Len(s)
         /\ DOMAIN FramesOf(s, w) = 1 .. Len(s) /\ DOMAIN s = 1 .. Len(s) /\ Len(s) \in Nat
         /\ \A i \in 1 .. Len(s) : /\ s[i] \in Scopes /\ s[i].began \subseteq Values
                                   /\ i = Len(s) => FramesOf(s, w)[i] = w \ s[i].began
                                   /\ i < Len(s) => FramesOf(s, w)[i] = s[i + 1].began \ s[i].began
<1>1. DOMAIN s = 1 .. Len(s) /\ Len(s) \in Nat /\ \A i \in 1 .. Len(s) : s[i] \in Scopes
  OBVIOUS
<1>2. \A i \in 1 .. Len(s) : s[i].began \subseteq Values
  BY <1>1 DEF Scopes
<1>3. \A i \in 1 .. Len(s) : i # Len(s) => i + 1 \in 1 .. Len(s)
  BY <1>1, Between
<1>4. \A i \in 1 .. Len(s) :
        /\ i = Len(s) => FramesOf(s, w)[i] = w \ s[i].began
        /\ i # Len(s) => FramesOf(s, w)[i] = s[i + 1].began \ s[i].began
  BY <1>1 DEF FramesOf
<1>5. \A i \in 1 .. Len(s) : FramesOf(s, w)[i] \in SUBSET Values
  BY <1>2, <1>3, <1>4
<1>6. FramesOf(s, w) \in [1 .. Len(s) -> SUBSET Values]
  BY <1>1, <1>5 DEF FramesOf
<1>7. FramesOf(s, w) \in Seq(SUBSET Values) /\ Len(FramesOf(s, w)) = Len(s)
  BY <1>1, <1>6, IsASeq
<1>8. \A i \in 1 .. Len(s) : i < Len(s) => i # Len(s)
  BY <1>1, Between
<1> QED BY <1>1, <1>2, <1>4, <1>6, <1>7, <1>8

\* Outside all scopes there are no frames.
LEMMA NoFrames ==
  ASSUME NEW w \in SUBSET Values
  PROVE  FramesOf(<<>>, w) = <<>>
<1>1. <<>> \in Seq(Scopes) /\ Len(<<>>) = 0
  OBVIOUS
<1>2. FramesOf(<<>>, w) \in Seq(SUBSET Values) /\ Len(FramesOf(<<>>, w)) = 0
  BY <1>1, FramesAre
<1> QED BY <1>2, EmptySeq

\* A new scope has written nothing.
LEMMA FramesBegin ==
  ASSUME NEW s \in Seq(Scopes), NEW w \in SUBSET Values, NEW c \in Scopes, c.began = w
  PROVE  /\ Append(s, c) \in Seq(Scopes)
         /\ FramesOf(Append(s, c), w) = Append(FramesOf(s, w), {})
<1> DEFINE t == Append(s, c)
           F == FramesOf(s, w)
           G == FramesOf(t, w)
<1>1. /\ t \in Seq(Scopes) /\ Len(t) = Len(s) + 1 /\ t[Len(s) + 1] = c
      /\ \A i \in 1 .. Len(s) : t[i] = s[i]
  BY AppendProperties
<1>2. /\ F \in Seq(SUBSET Values) /\ Len(F) = Len(s) /\ Len(s) \in Nat
      /\ \A i \in 1 .. Len(s) : /\ i = Len(s) => F[i] = w \ s[i].began
                                /\ i < Len(s) => F[i] = s[i + 1].began \ s[i].began
  BY FramesAre
<1>3. /\ G \in Seq(SUBSET Values) /\ Len(G) = Len(t)
      /\ \A i \in 1 .. Len(t) : /\ i = Len(t) => G[i] = w \ t[i].began
                                /\ i < Len(t) => G[i] = t[i + 1].began \ t[i].began
  <2> HIDE DEF t
  <2> QED BY <1>1, FramesAre
<1> DEFINE A == Append(F, {})
<1>4. /\ A \in Seq(SUBSET Values) /\ Len(A) = Len(s) + 1 /\ A[Len(s) + 1] = {}
      /\ \A i \in 1 .. Len(s) : A[i] = F[i]
  <2>1. {} \in SUBSET Values
    OBVIOUS
  <2> HIDE DEF F
  <2> QED BY <1>2, <2>1, AppendProperties
<1> HIDE DEF t, F, G, A
<1>5. ASSUME NEW i \in 1 .. (Len(s) + 1) PROVE G[i] = A[i]
  <2>1. CASE i = Len(s) + 1
    BY <1>1, <1>2, <1>3, <1>4, <2>1
  <2>2. CASE i = Len(s)
    <3>1. i \in 1 .. Len(s) /\ i \in 1 .. Len(t) /\ i < Len(t)
      BY <1>1, <1>2, <2>2
    <3>2. G[i] = w \ s[i].began
      BY <1>1, <1>3, <2>2, <3>1
    <3> QED BY <1>2, <1>4, <2>2, <3>1, <3>2
  <2>3. CASE i < Len(s)
    <3>1. i \in 1 .. Len(s) /\ i + 1 \in 1 .. Len(s) /\ i \in 1 .. Len(t) /\ i < Len(t)
      BY <1>1, <1>2, <2>3
    <3>2. G[i] = s[i + 1].began \ s[i].began
      BY <1>1, <1>3, <3>1
    <3> QED BY <1>2, <1>4, <2>3, <3>1, <3>2
  <2> QED BY <1>2, <2>1, <2>2, <2>3
<1>6. G = A
  BY <1>1, <1>2, <1>3, <1>4, <1>5, SeqEqual
<1> QED BY <1>1, <1>6 DEF t, F, G, A

\* What is written is written in the innermost scope.
LEMMA FramesWrite ==
  ASSUME NEW s \in Seq(Scopes), s # <<>>, NEW w \in SUBSET Values, NEW r \in Values,
         r \notin s[Len(s)].began
  PROVE  FramesOf(s, w \cup {r}) =
           [FramesOf(s, w) EXCEPT ![Len(FramesOf(s, w))] = FramesOf(s, w)[Len(FramesOf(s, w))] \cup {r}]
<1> DEFINE F == FramesOf(s, w)
           G == FramesOf(s, w \cup {r})
           E == [F EXCEPT ![Len(s)] = F[Len(s)] \cup {r}]
<1>1. /\ Len(F) = Len(s) /\ Len(s) \in Nat /\ DOMAIN F = 1 .. Len(s)
      /\ \A i \in 1 .. Len(s) : /\ i = Len(s) => F[i] = w \ s[i].began
                                /\ i < Len(s) => F[i] = s[i + 1].began \ s[i].began
  BY FramesAre
<1>2. /\ DOMAIN G = 1 .. Len(s)
      /\ \A i \in 1 .. Len(s) : /\ i = Len(s) => G[i] = (w \cup {r}) \ s[i].began
                                /\ i < Len(s) => G[i] = s[i + 1].began \ s[i].began
  BY FramesAre
<1>3. F = [i \in 1 .. Len(s) |-> F[i]] /\ G = [i \in 1 .. Len(s) |-> G[i]]
  BY <1>1, <1>2 DEF FramesOf
<1> HIDE DEF F, G
<1>4. E = [i \in 1 .. Len(s) |-> E[i]]
  BY <1>1
<1>5. ASSUME NEW i \in 1 .. Len(s) PROVE G[i] = E[i]
  <2>1. CASE i = Len(s)
    <3>1. E[i] = F[Len(s)] \cup {r}
      BY <1>1, <2>1
    <3>2. F[Len(s)] = w \ s[Len(s)].began /\ G[i] = (w \cup {r}) \ s[Len(s)].began
      BY <1>1, <1>2, <2>1
    <3> QED BY <3>1, <3>2
  <2>2. CASE i < Len(s)
    <3>1. i # Len(s)
      BY <1>1, <2>2, Between
    <3>2. E[i] = F[i]
      BY <1>1, <3>1
    <3> QED BY <1>1, <1>2, <2>2, <3>2
  <2>3. i = Len(s) \/ i < Len(s)
    BY <1>1, Between
  <2> QED BY <2>1, <2>2, <2>3
<1> HIDE DEF E
<1>6. G = E
  BY <1>3, <1>4, <1>5
<1> QED BY <1>1, <1>6 DEF F, G, E

\* A scope that ends well leaves its rows to the one around it; a scope that is
\* taken back leaves what there was when it began.
LEMMA FramesPop ==
  ASSUME NEW s \in Seq(Scopes), Len(s) > 1, NEW w \in SUBSET Values,
         s[Len(s)].began \subseteq w, s[Len(s) - 1].began \subseteq s[Len(s)].began
  PROVE  LET F == FramesOf(s, w)
             t == SubSeq(s, 1, Len(s) - 1)
             H == SubSeq(F, 1, Len(F) - 1)
         IN  /\ FramesOf(t, w) = [H EXCEPT ![Len(F) - 1] = H[Len(F) - 1] \cup F[Len(F)]]
             /\ FramesOf(t, s[Len(s)].began) = H
<1> SUFFICES ASSUME NEW F, F = FramesOf(s, w), NEW t, t = SubSeq(s, 1, Len(s) - 1),
                    NEW H, H = SubSeq(F, 1, Len(F) - 1)
             PROVE  /\ FramesOf(t, w) = [H EXCEPT ![Len(F) - 1] = H[Len(F) - 1] \cup F[Len(F)]]
                    /\ FramesOf(t, s[Len(s)].began) = H
  BY ZenonT(60)
<1> DEFINE D == Len(s)
           b == s[D].began
<1>1. /\ F \in Seq(SUBSET Values) /\ Len(F) = D /\ D \in Nat
      /\ \A i \in 1 .. D : /\ s[i].began \subseteq Values
                           /\ i = D => F[i] = w \ s[i].began
                           /\ i < D => F[i] = s[i + 1].began \ s[i].began
  BY FramesAre
<1>2. D - 1 \in 1 .. D /\ D \in 1 .. D /\ D - 1 \in 0 .. D /\ D - 1 < D /\ (D - 1) + 1 = D /\ D - 1 \in Nat /\ D > 1
  BY <1>1
<1>3. /\ t \in Seq(Scopes) /\ Len(t) = D - 1
      /\ \A i \in 1 .. (D - 1) : t[i] = s[i]
  BY <1>2, Prefix
<1>4. /\ H \in Seq(SUBSET Values) /\ Len(H) = D - 1 /\ DOMAIN H = 1 .. (D - 1)
      /\ \A i \in 1 .. (D - 1) : H[i] = F[i]
  BY <1>1, <1>2, Prefix
<1>5. F[D] = w \ b /\ F[D - 1] = b \ s[D - 1].began /\ b \in SUBSET Values
  BY <1>1, <1>2
<1> HIDE DEF D
<1>6. \A i \in 1 .. (D - 1) :
        /\ i = D - 1 \/ (i < D - 1 /\ i + 1 \in 1 .. (D - 1) /\ i \in 1 .. D /\ i < D)
        /\ D - 1 \in 1 .. (D - 1)
  BY <1>2
<1> HIDE DEF b
<1>7. ASSUME NEW v \in SUBSET Values
      PROVE  /\ FramesOf(t, v) \in Seq(SUBSET Values) /\ Len(FramesOf(t, v)) = D - 1
             /\ FramesOf(t, v)[D - 1] = v \ s[D - 1].began
             /\ \A i \in 1 .. (D - 1) : i # D - 1 => FramesOf(t, v)[i] = H[i]
  <2>1. /\ FramesOf(t, v) \in Seq(SUBSET Values) /\ Len(FramesOf(t, v)) = D - 1
        /\ \A i \in 1 .. (D - 1) : /\ i = D - 1 => FramesOf(t, v)[i] = v \ t[i].began
                                   /\ i < D - 1 => FramesOf(t, v)[i] = t[i + 1].began \ t[i].began
    <3>1. /\ FramesOf(t, v) \in Seq(SUBSET Values) /\ Len(FramesOf(t, v)) = Len(t)
          /\ \A i \in 1 .. Len(t) : /\ i = Len(t) => FramesOf(t, v)[i] = v \ t[i].began
                                    /\ i < Len(t) => FramesOf(t, v)[i] = t[i + 1].began \ t[i].began
      BY ONLY <1>3, FramesAre, v \in SUBSET Values
    <3> QED BY <1>3, <3>1
  <2>2. D - 1 \in 1 .. (D - 1)
    BY <1>2
  <2>3. FramesOf(t, v)[D - 1] = v \ s[D - 1].began
    BY <1>3, <2>1, <2>2
  <2>4. ASSUME NEW i \in 1 .. (D - 1), i # D - 1 PROVE FramesOf(t, v)[i] = H[i]
    <3>1. i < D - 1 /\ i + 1 \in 1 .. (D - 1) /\ i \in 1 .. D /\ i < D
      BY <1>6, <2>4
    <3>2. FramesOf(t, v)[i] = s[i + 1].began \ s[i].began
      BY <1>3, <2>1, <3>1
    <3>3. H[i] = s[i + 1].began \ s[i].began
      BY <1>1, <1>4, <3>1 DEF D
    <3> QED BY <3>2, <3>3
  <2> QED BY <2>1, <2>3, <2>4
<1>8. FramesOf(t, b) = H
  <2>0. /\ FramesOf(t, b) \in Seq(SUBSET Values) /\ Len(FramesOf(t, b)) = D - 1
        /\ FramesOf(t, b)[D - 1] = b \ s[D - 1].began
        /\ \A i \in 1 .. (D - 1) : i # D - 1 => FramesOf(t, b)[i] = H[i]
    BY <1>5, <1>7
  <2>1. H[D - 1] = F[D - 1]
    <3>1. D - 1 \in 1 .. (D - 1)
      BY <1>2
    <3> QED BY <1>4, <3>1
  <2>2. \A i \in 1 .. (D - 1) : FramesOf(t, b)[i] = H[i]
    BY <1>5, <2>0, <2>1
  <2> DEFINE G == FramesOf(t, b)
  <2> HIDE DEF G
  <2>3. G \in Seq(SUBSET Values) /\ Len(G) = Len(H) /\ \A i \in 1 .. Len(G) : G[i] = H[i]
    BY <1>4, <2>0, <2>2 DEF G
  <2>4. G = H
    BY <1>4, <2>3, SeqEqual
  <2> QED BY <2>4 DEF G
<1> DEFINE M == [H EXCEPT ![D - 1] = H[D - 1] \cup F[D]]
<1>9. FramesOf(t, w) = M
  <2>0. D - 1 \in 1 .. (D - 1) /\ H[D - 1] = F[D - 1]
    <3>1. D - 1 \in 1 .. (D - 1)
      BY <1>2
    <3> QED BY <1>4, <3>1
  <2>1. F[D] \in SUBSET Values /\ H[D - 1] \cup F[D] \in SUBSET Values
    <3>1. H[D - 1] \in SUBSET Values
      BY <1>4, <2>0
    <3> QED BY <1>5, <3>1
  <2>2. /\ M \in Seq(SUBSET Values) /\ Len(M) = D - 1
        /\ \A i \in 1 .. (D - 1) : M[i] = IF i = D - 1 THEN H[D - 1] \cup F[D] ELSE H[i]
    <3> DEFINE e == H[D - 1] \cup F[D]
               d == D - 1
    <3> HIDE DEF e, d
    <3>1. d \in 1 .. Len(H) /\ e \in SUBSET Values
      BY <1>4, <2>0, <2>1 DEF e, d
    <3>2. /\ [H EXCEPT ![d] = e] \in Seq(SUBSET Values) /\ Len([H EXCEPT ![d] = e]) = Len(H)
          /\ \A j \in 1 .. Len(H) : [H EXCEPT ![d] = e][j] = IF j = d THEN e ELSE H[j]
      BY ONLY <1>4, <3>1, ExceptSeq
    <3> QED BY <1>4, <3>2 DEF d, e
  <2>3. FramesOf(t, w)[D - 1] = M[D - 1]
    <3>1. M[D - 1] = (b \ s[D - 1].began) \cup (w \ b)
      BY <1>5, <2>0, <2>2
    <3>2. FramesOf(t, w)[D - 1] = w \ s[D - 1].began
      BY <1>7
    <3>3. b \subseteq w /\ s[D - 1].began \subseteq b
      BY DEF b, D
    <3> QED BY <3>1, <3>2, <3>3
  <2> HIDE DEF M
  <2>4. \A i \in 1 .. (D - 1) : FramesOf(t, w)[i] = M[i]
    <3>1. \A i \in 1 .. (D - 1) : i # D - 1 => FramesOf(t, w)[i] = H[i]
      BY <1>7
    <3>2. \A i \in 1 .. (D - 1) : i # D - 1 => M[i] = H[i]
      BY <2>2
    <3> QED BY ONLY <2>3, <3>1, <3>2
  <2> QED BY <1>7, <2>2, <2>4, SeqEqual
<1> QED BY <1>1, <1>8, <1>9 DEF D, b

\* Before the first Tx all of it holds.
LEMMA TxBegins == Tx!Init => TxInv
<1> SUFFICES ASSUME Tx!Init PROVE TxInv
  OBVIOUS
<1>1. TxTypes
  <2>1. refuses \in BOOLEAN /\ aborted \in BOOLEAN /\ lost \in BOOLEAN
    BY Zenon DEF Tx!Init
  <2>2. <<>> \in Seq(Scopes) /\ <<>> \in Seq(Saves)
    OBVIOUS
  <2>3. work \subseteq Values /\ savepointSeq \in Nat
    BY DEF Tx!Init
  <2> QED BY <2>1, <2>2, <2>3 DEF Tx!Init, TxTypes
<1>2. ScopesNest /\ ScopesSaved
  BY DEF Tx!Init, ScopesNest, ScopesSaved
<1> QED BY <1>1, <1>2 DEF TxInv

\* Where the scopes and the savepoints stay, only the work and the connection's
\* condition have to be looked at.
LEMMA SameScopes ==
  ASSUME TxInv, scopes' = scopes, saves' = saves, refuses' = refuses,
         savepointSeq' \in Nat, savepointSeq' >= savepointSeq,
         aborted' \in BOOLEAN, lost' \in BOOLEAN, scopes = <<>> => ~lost' /\ ~aborted',
         work \subseteq work', work' \subseteq Values
  PROVE  TxInv'
<1>1. TxTypes'
  BY DEF TxInv, TxTypes
<1>0. /\ \A i \in DOMAIN scopes : scopes[i].name \in Nat
      /\ \A k \in DOMAIN saves : saves[k].name \in Nat
  <2>1. \A i \in DOMAIN scopes : scopes[i] \in Scopes
    BY DEF TxInv, TxTypes
  <2>2. \A k \in DOMAIN saves : saves[k] \in Saves
    BY DEF TxInv, TxTypes
  <2> QED BY <2>1, <2>2 DEF Scopes, Saves
<1>2. \A m \in Nat : m <= savepointSeq => m <= savepointSeq'
  <2>1. savepointSeq \in Nat
    BY DEF TxInv, TxTypes
  <2> QED BY <2>1
<1>3. ScopesNest'
  <2>1. \A i \in DOMAIN scopes : scopes[i].began \subseteq work' /\ scopes[i].name <= savepointSeq'
    BY <1>0, <1>2 DEF TxInv, ScopesNest
  <2> QED BY <2>1 DEF TxInv, ScopesNest
<1>4. ScopesSaved'
  <2>1. \A k \in DOMAIN saves : saves[k].name <= savepointSeq'
    BY <1>0, <1>2 DEF TxInv, ScopesSaved
  <2> QED BY <2>1 DEF TxInv, ScopesSaved
<1> QED BY <1>1, <1>3, <1>4 DEF TxInv

\* A scope that begins has the latest savepoint, of a name that is new.
LEMMA PushScope ==
  ASSUME TxInv, Tx!BeginNested, Tx!Usable
  PROVE  TxInv'
<1> DEFINE D == Len(scopes)
           m == Len(saves)
           c == [name |-> savepointSeq + 1, began |-> work]
           v == [name |-> savepointSeq + 1, work |-> work]
<1>0. /\ scopes \in Seq(Scopes) /\ saves \in Seq(Saves) /\ savepointSeq \in Nat /\ work \subseteq Values
      /\ D \in Nat /\ m \in Nat /\ DOMAIN scopes = 1 .. D /\ DOMAIN saves = 1 .. m /\ D > 0
      /\ refuses \in BOOLEAN /\ aborted \in BOOLEAN /\ lost \in BOOLEAN
  BY DEF TxInv, TxTypes, Tx!BeginNested, Tx!Depth
<1>1. /\ scopes' = Append(scopes, c) /\ saves' = Append(saves, v) /\ work' = work
      /\ aborted' = aborted /\ lost' = lost /\ refuses' = refuses /\ savepointSeq' = savepointSeq + 1
  BY DEF Tx!BeginNested, Tx!NextName, Tx!Savepoint
<1>2. c \in Scopes /\ v \in Saves
  BY <1>0 DEF Scopes, Saves
<1>3. /\ \A i \in 1 .. D : scopes[i].name \in Nat /\ scopes[i].name <= savepointSeq
      /\ \A k \in 1 .. m : saves[k].name \in Nat /\ saves[k].name <= savepointSeq
  <2>1. /\ \A i \in 1 .. D : scopes[i] \in Scopes
        /\ \A k \in 1 .. m : saves[k] \in Saves
    BY <1>0
  <2>2. /\ \A i \in 1 .. D : scopes[i].name \in Nat
        /\ \A k \in 1 .. m : saves[k].name \in Nat
    BY <2>1 DEF Scopes, Saves
  <2> QED BY <1>0, <2>2 DEF TxInv, ScopesNest, ScopesSaved
<1> HIDE DEF c, v, D, m
<1>4. /\ scopes' \in Seq(Scopes) /\ scopes' # <<>> /\ DOMAIN scopes' = 1 .. (D + 1)
      /\ scopes'[D + 1] = c /\ \A i \in 1 .. D : scopes'[i] = scopes[i]
  BY <1>0, <1>1, <1>2, AppendProperties DEF D
<1>5. /\ saves' \in Seq(Saves) /\ DOMAIN saves' = 1 .. (m + 1)
      /\ saves'[m + 1] = v /\ \A k \in 1 .. m : saves'[k] = saves[k]
  BY <1>0, <1>1, <1>2, AppendProperties DEF m
<1>6. TxTypes'
  BY <1>0, <1>1, <1>4, <1>5 DEF TxTypes
<1>7. \A x \in Nat : x <= savepointSeq => x <= savepointSeq + 1 /\ x < savepointSeq + 1
  BY <1>0
<1>d. \A i \in 1 .. (D + 1) : i \in 1 .. D \/ i = D + 1
  BY <1>0
<1>e. \A k \in 1 .. (m + 1) : k \in 1 .. m \/ k = m + 1
  BY <1>0
<1>f. 1 \in 1 .. D /\ \A i \in 1 .. (D + 1) : ~(D + 1 < i)
  BY <1>0
<1>g. m + 1 \in 1 .. (m + 1) /\ (\A k \in 1 .. (m + 1) : ~(m + 1 < k)) /\ \A k \in 1 .. m : k \in 1 .. (m + 1)
  BY <1>0
<1>c. c.name = savepointSeq + 1 /\ c.began = work /\ v.name = savepointSeq + 1 /\ v.work = work
  BY DEF c, v
<1>8. ScopesNest'
  <2>1. scopes'[1].began = {}
    <3>1. scopes # <<>>
      BY <1>0
    <3> QED BY <1>4, <1>f, <3>1 DEF TxInv, ScopesNest
  <2>2. \A i \in 1 .. (D + 1) : scopes'[i].began \subseteq work' /\ scopes'[i].name <= savepointSeq'
    <3>1. \A i \in 1 .. D : scopes[i].began \subseteq work /\ scopes[i].name <= savepointSeq + 1
      BY <1>0, <1>3, <1>7 DEF TxInv, ScopesNest
    <3>2. savepointSeq + 1 <= savepointSeq + 1
      BY <1>0
    <3> QED BY <1>1, <1>4, <1>c, <1>d, <3>1, <3>2
  <2>3. ASSUME NEW i \in 1 .. (D + 1), NEW j \in 1 .. (D + 1), i < j
        PROVE  scopes'[i].began \subseteq scopes'[j].began /\ scopes'[i].name < scopes'[j].name
    <3>1. i \in 1 .. D
      BY <1>d, <1>f, <2>3
    <3>2. CASE j \in 1 .. D
      BY <1>0, <1>4, <2>3, <3>1, <3>2 DEF TxInv, ScopesNest
    <3>3. CASE j = D + 1
      <4>1. scopes[i].began \subseteq work /\ scopes[i].name < savepointSeq + 1
        BY <1>0, <1>3, <1>7, <3>1 DEF TxInv, ScopesNest
      <4> QED BY <1>4, <1>c, <3>1, <3>3, <4>1
    <3> QED BY <1>d, <3>2, <3>3
  <2> QED BY <1>4, <2>1, <2>2, <2>3 DEF ScopesNest
<1>9. ScopesSaved'
  <2>1. \A k \in 1 .. (m + 1) : saves'[k].name <= savepointSeq'
    <3>1. savepointSeq + 1 <= savepointSeq + 1
      BY <1>0
    <3> QED BY <1>1, <1>3, <1>5, <1>7, <1>c, <1>e, <3>1
  <2>2. ASSUME NEW k \in 1 .. (m + 1), NEW l \in 1 .. (m + 1), k < l
        PROVE  saves'[k].name < saves'[l].name
    <3>1. k \in 1 .. m
      BY <1>e, <1>g, <2>2
    <3>2. CASE l \in 1 .. m
      BY <1>0, <1>5, <2>2, <3>1, <3>2 DEF TxInv, ScopesSaved
    <3>3. CASE l = m + 1
      BY <1>3, <1>5, <1>7, <1>c, <3>1, <3>3
    <3> QED BY <1>e, <3>2, <3>3
  <2>3. ASSUME NEW i \in 1 .. (D + 1), i > 1
        PROVE  \E k \in 1 .. (m + 1) : saves'[k].name = scopes'[i].name /\ saves'[k].work = scopes'[i].began
    <3>1. CASE i = D + 1
      BY <1>4, <1>5, <1>c, <1>g, <3>1
    <3>2. CASE i \in 1 .. D
      <4>1. PICK k \in 1 .. m : saves[k].name = scopes[i].name /\ saves[k].work = scopes[i].began
        BY <1>0, <2>3, <3>2 DEF TxInv, ScopesSaved
      <4> QED BY <1>4, <1>5, <1>g, <3>2, <4>1
    <3> QED BY <1>d, <3>1, <3>2
  <2> QED BY <1>4, <1>5, <2>1, <2>2, <2>3 DEF ScopesSaved
<1> QED BY <1>6, <1>8, <1>9 DEF TxInv

\* Every step of the transactions keeps it.
LEMMA TxStep == TxInv /\ [Tx!Next]_(Tx!vars) => TxInv'
<1> SUFFICES ASSUME TxInv, [Tx!Next]_(Tx!vars) PROVE TxInv'
  OBVIOUS
<1>0. /\ refuses \in BOOLEAN /\ aborted \in BOOLEAN /\ lost \in BOOLEAN
      /\ savepointSeq \in Nat /\ work \subseteq Values
      /\ scopes \in Seq(Scopes) /\ saves \in Seq(Saves)
  BY DEF TxInv, TxTypes
<1>n. savepointSeq >= savepointSeq /\ savepointSeq + 1 >= savepointSeq /\ savepointSeq + 1 \in Nat
  BY <1>0
<1>e. scopes = <<>> <=> Len(scopes) = 0
  BY <1>0, EmptySeq
<1>r. aborted \/ refuses \in BOOLEAN
  BY <1>0
<1>1. CASE Tx!BeginRoot
  <2> DEFINE c == [name |-> 0, began |-> {}]
  <2>1. /\ scopes' = <<c>> /\ savepointSeq' = 0 /\ work' = {} /\ saves' = <<>>
        /\ aborted' = FALSE /\ lost' = FALSE /\ refuses' = refuses
    BY <1>1 DEF Tx!BeginRoot
  <2>2. c \in Scopes /\ c.name = 0 /\ c.began = {}
    BY DEF Scopes
  <2> HIDE DEF c
  <2>3. scopes' \in Seq(Scopes) /\ DOMAIN scopes' = {1} /\ scopes'[1] = c /\ scopes' # <<>>
    BY <2>1, <2>2
  <2>4. saves' \in Seq(Saves) /\ DOMAIN saves' = {}
    BY <2>1
  <2>5. TxTypes'
    <3>1. refuses' \in BOOLEAN /\ aborted' \in BOOLEAN /\ lost' \in BOOLEAN
      BY <1>0, <2>1, Zenon
    <3> QED BY <2>1, <2>3, <2>4, <3>1 DEF TxTypes
  <2>6. ScopesNest'
    BY <2>1, <2>2, <2>3 DEF ScopesNest
  <2>7. ScopesSaved'
    BY <2>3, <2>4 DEF ScopesSaved
  <2> QED BY <2>5, <2>6, <2>7 DEF TxInv
<1>2. CASE Tx!BeginNested
  <2>1. CASE Tx!Usable
    BY <1>2, <2>1, PushScope
  <2>2. CASE ~Tx!Usable
    <3>1. /\ scopes' = scopes /\ saves' = saves /\ refuses' = refuses /\ work' = work /\ lost' = lost
          /\ savepointSeq' = savepointSeq + 1 /\ aborted' = (aborted \/ refuses) /\ Len(scopes) > 0
      BY <1>0, <1>2, <2>2 DEF Tx!BeginNested, Tx!Refused, Tx!Depth
    <3>2. scopes # <<>>
      BY <1>e, <3>1
    <3> QED BY <1>0, <1>n, <1>r, <3>1, <3>2, SameScopes
  <2> QED BY <2>1, <2>2
<1>3. ASSUME NEW r \in Values, Tx!Write(r) PROVE TxInv'
  <2>1. /\ scopes' = scopes /\ saves' = saves /\ refuses' = refuses /\ work' = work \cup {r} /\ lost' = lost
        /\ savepointSeq' = savepointSeq /\ aborted' = aborted /\ Len(scopes) > 0
    BY <1>3 DEF Tx!Write, Tx!caller, Tx!Depth
  <2>2. scopes # <<>>
    BY <1>e, <2>1
  <2> QED BY <1>0, <1>n, <2>1, <2>2, SameScopes
<1>4. ASSUME NEW r \in Values, Tx!WriteOutside(r) PROVE TxInv'
  <2>1. /\ scopes' = scopes /\ saves' = saves /\ refuses' = refuses /\ work' = work /\ lost' = lost
        /\ savepointSeq' = savepointSeq /\ aborted' = aborted
    BY <1>4 DEF Tx!WriteOutside, Tx!caller, Tx!session
  <2> QED BY <2>1 DEF TxInv, TxTypes, ScopesNest, ScopesSaved
<1>5. CASE Tx!WriteFails
  <2>1. /\ scopes' = scopes /\ saves' = saves /\ refuses' = refuses /\ work' = work /\ lost' = lost
        /\ savepointSeq' = savepointSeq /\ aborted' = (aborted \/ refuses) /\ Len(scopes) > 0
    BY <1>5 DEF Tx!WriteFails, Tx!Refused, Tx!caller, Tx!Depth
  <2>2. scopes # <<>>
    BY <1>e, <2>1
  <2> QED BY <1>0, <1>n, <1>r, <2>1, <2>2, SameScopes
<1>6. CASE Tx!Lose
  <2>1. /\ scopes' = scopes /\ saves' = saves /\ refuses' = refuses /\ work' = work /\ lost' = TRUE
        /\ savepointSeq' = savepointSeq /\ aborted' = aborted /\ Len(scopes) > 0
    BY <1>6 DEF Tx!Lose, Tx!session, Tx!caller, Tx!Depth
  <2>2. scopes # <<>> /\ lost' \in BOOLEAN
    BY <1>e, <2>1
  <2> QED BY <1>0, <1>n, <2>1, <2>2, SameScopes
<1>s. Len(scopes) > 1 =>
        /\ Tx!Named(Tx!Inner.name) # {}
        /\ saves[Tx!Latest(Tx!Inner.name)].work = Tx!Inner.began
  <2> HAVE Len(scopes) > 1
  <2>1. Len(scopes) \in DOMAIN scopes /\ Tx!Inner = scopes[Len(scopes)]
    BY <1>0 DEF Tx!Inner, Tx!Last
  <2> QED BY <2>1, ItsSavepoint
<1>7. CASE Tx!ReturnNested
  <2>1. /\ Len(scopes) > 1 /\ scopes' = Tx!Front(scopes) /\ savepointSeq' = savepointSeq
        /\ refuses' = refuses /\ lost' = lost /\ Tx!Release(Tx!Inner.name)
    BY <1>7 DEF Tx!ReturnNested, Tx!Pop, Tx!Depth
  <2>2. CASE Tx!Usable
    <3>1. /\ saves' = SubSeq(saves, 1, Tx!Latest(Tx!Inner.name) - 1)
          /\ work' = work /\ aborted' = aborted
      BY <1>s, <2>1, <2>2 DEF Tx!Release
    <3>2. aborted' \in BOOLEAN
      BY <1>0, <3>1
    <3> QED BY <2>1, <3>1, <3>2, PopScope
  <2>3. CASE ~Tx!Usable
    <3>1. saves' = saves /\ work' = work /\ aborted' \in BOOLEAN
      BY <1>r, <2>1, <2>3 DEF Tx!Release, Tx!Refused
    <3> QED BY <2>1, <3>1, PopScope
  <2> QED BY <2>2, <2>3
<1>8. CASE Tx!FailNested
  <2>1. /\ Len(scopes) > 1 /\ scopes' = Tx!Front(scopes) /\ savepointSeq' = savepointSeq
        /\ refuses' = refuses /\ lost' = lost /\ Tx!RollbackTo(Tx!Inner.name)
    BY <1>8 DEF Tx!FailNested, Tx!Pop, Tx!Depth
  <2>2. CASE ~lost
    <3>1. /\ saves' = SubSeq(saves, 1, Tx!Latest(Tx!Inner.name))
          /\ work' = Tx!Inner.began /\ aborted' = FALSE
      BY <1>s, <2>1, <2>2 DEF Tx!RollbackTo
    <3>2. aborted' \in BOOLEAN
      BY <3>1
    <3> QED BY <2>1, <3>1, <3>2, PopScope
  <2>3. CASE lost
    <3>1. saves' = saves /\ work' = work /\ aborted' \in BOOLEAN
      BY <1>r, <2>1, <2>3 DEF Tx!RollbackTo, Tx!Refused
    <3> QED BY <2>1, <3>1, PopScope
  <2> QED BY <2>2, <2>3
<1>9. CASE Tx!Recover
  BY <1>9 DEF Tx!Recover, Tx!session, TxInv, TxTypes, ScopesNest, ScopesSaved
<1>10. CASE Tx!ReturnRoot \/ Tx!FailRoot
  <2>1. /\ scopes' = <<>> /\ saves' = <<>> /\ work' = {} /\ aborted' = FALSE /\ lost' = FALSE
        /\ refuses' = refuses /\ savepointSeq' = savepointSeq
    BY <1>10 DEF Tx!ReturnRoot, Tx!FailRoot, Tx!Ended
  <2>2. refuses' \in BOOLEAN /\ aborted' \in BOOLEAN /\ lost' \in BOOLEAN
    BY <1>0, <2>1, Zenon
  <2>3. <<>> \in Seq(Scopes) /\ <<>> \in Seq(Saves) /\ DOMAIN <<>> = {}
    OBVIOUS
  <2>4. TxTypes'
    BY <1>0, <2>1, <2>2, <2>3 DEF TxTypes
  <2>5. ScopesNest' /\ ScopesSaved'
    BY <2>1, <2>3 DEF ScopesNest, ScopesSaved
  <2> QED BY <2>4, <2>5 DEF TxInv
<1>11. CASE UNCHANGED Tx!vars
  BY <1>11 DEF Tx!vars, TxInv, TxTypes, ScopesNest, ScopesSaved
<1> QED
  BY <1>1, <1>2, <1>3, <1>4, <1>5, <1>6, <1>7, <1>8, <1>9, <1>10, <1>11 DEF Tx!Next

\* A step of the transactions is a step of nested scopes, or none.
LEMMA TxRefines == TxInv /\ TxInv' /\ [Tx!Next]_(Tx!vars) => [Tx!Nested!Next]_(Tx!Nested!vars)
<1> SUFFICES ASSUME TxInv, TxInv', [Tx!Next]_(Tx!vars) PROVE [Tx!Nested!Next]_(Tx!Nested!vars)
  OBVIOUS
<1> DEFINE D == Len(scopes)
           doomed == lost \/ aborted
           F == Tx!Frames
<1>0. /\ refuses \in BOOLEAN /\ aborted \in BOOLEAN /\ lost \in BOOLEAN
      /\ work \in SUBSET Values /\ scopes \in Seq(Scopes) /\ D \in Nat
      /\ aborted' \in BOOLEAN /\ lost' \in BOOLEAN /\ work' \in SUBSET Values /\ scopes' \in Seq(Scopes)
  BY DEF TxInv, TxTypes
<1>f. F = FramesOf(scopes, work) /\ F' = FramesOf(scopes', work')
  BY DEF Tx!Frames, Tx!Depth, FramesOf
<1>l. Len(F) = D /\ DOMAIN F = 1 .. D /\ F \in Seq(SUBSET Values)
  BY <1>0, <1>f, FramesAre
<1>e. (scopes = <<>> <=> D = 0) /\ (F = <<>> <=> D = 0)
  BY <1>0, <1>l, EmptySeq
<1>u. ASSUME scopes' = scopes, work' = work PROVE F' = F
  BY <1>f, <1>u
<1>1. ASSUME Tx!BeginRoot PROVE Tx!Nested!Begin
  <2>1. /\ scopes' = <<[name |-> 0, began |-> {}]>> /\ work' = {} /\ aborted' = FALSE /\ lost' = FALSE
        /\ stored' = stored /\ outcome' = outcome /\ D = 0
    BY <1>1 DEF Tx!BeginRoot, Tx!Depth
  <2>2. scopes = <<>> /\ F = <<>> /\ ~lost /\ ~aborted
    BY <1>e, <2>1 DEF TxInv, ScopesNest
  <2> DEFINE c == [name |-> 0, began |-> {}]
  <2>3. c \in Scopes /\ c.began = {}
    BY DEF Scopes
  <2> HIDE DEF c
  <2>4. scopes' = Append(<<>>, c)
    BY <2>1, <2>3 DEF c
  <2>5. FramesOf(Append(<<>>, c), {}) = Append(FramesOf(<<>>, {}), {})
    <3>1. <<>> \in Seq(Scopes) /\ {} \in SUBSET Values
      OBVIOUS
    <3> QED BY <2>3, <3>1, FramesBegin
  <2>6. FramesOf(<<>>, {}) = <<>>
    <3>1. {} \in SUBSET Values
      OBVIOUS
    <3> QED BY <3>1, NoFrames
  <2>7. F' = Append(F, {})
    BY <1>f, <2>1, <2>2, <2>4, <2>5, <2>6
  <2> HIDE DEF F
  <2> QED BY <2>1, <2>2, <2>7 DEF Tx!Nested!Begin, F
<1>2. ASSUME Tx!BeginNested PROVE Tx!Nested!Begin \/ UNCHANGED Tx!Nested!vars
  <2>0. stored' = stored /\ outcome' = outcome /\ lost' = lost
    BY <1>2 DEF Tx!BeginNested
  <2>1. CASE Tx!Usable
    <3>1. /\ scopes' = Append(scopes, [name |-> savepointSeq + 1, began |-> work])
          /\ work' = work /\ aborted' = aborted /\ ~lost /\ ~aborted
      BY <1>2, <2>1 DEF Tx!BeginNested, Tx!NextName, Tx!Savepoint, Tx!Usable
    <3> DEFINE c == [name |-> savepointSeq + 1, began |-> work]
    <3>2. c \in Scopes /\ c.began = work
      BY <1>0 DEF Scopes, TxInv, TxTypes
    <3> HIDE DEF c
    <3>3. FramesOf(Append(scopes, c), work) = Append(FramesOf(scopes, work), {})
      BY <1>0, <3>2, FramesBegin
    <3>4. F' = Append(F, {})
      BY <1>f, <3>1, <3>3 DEF c
    <3> QED BY <2>0, <3>1, <3>4 DEF Tx!Nested!Begin
  <2>2. CASE ~Tx!Usable
    <3>1. scopes' = scopes /\ work' = work /\ aborted' = (aborted \/ refuses) /\ (lost \/ aborted)
      BY <1>0, <1>2, <2>2 DEF Tx!BeginNested, Tx!Refused, Tx!Usable
    <3>2. F' = F
      BY <1>u, <3>1
    <3>3. doomed' = doomed
      BY <1>0, <2>0, <3>1
    <3> QED BY <2>0, <3>2, <3>3 DEF Tx!Nested!vars
  <2> QED BY <2>1, <2>2
<1>3. ASSUME NEW r \in Values, Tx!Write(r) PROVE Tx!Nested!Write(r)
  <2>1. /\ scopes' = scopes /\ work' = work \cup {r} /\ lost' = lost /\ aborted' = aborted
        /\ stored' = stored /\ outcome' = outcome /\ ~lost /\ ~aborted /\ D > 0 /\ r \notin work
    BY <1>3 DEF Tx!Write, Tx!caller, Tx!Depth, Tx!Usable, Tx!Written
  <2>2. scopes # <<>> /\ F # <<>> /\ D \in DOMAIN scopes
    BY <1>0, <1>e, <2>1
  <2>3. r \notin scopes[D].began
    BY <2>1, <2>2 DEF TxInv, ScopesNest
  <2>4. FramesOf(scopes, work \cup {r}) =
          [FramesOf(scopes, work) EXCEPT ![Len(FramesOf(scopes, work))] =
             FramesOf(scopes, work)[Len(FramesOf(scopes, work))] \cup {r}]
    BY <1>0, <2>2, <2>3, FramesWrite
  <2>5. F' = [F EXCEPT ![Len(F)] = F[Len(F)] \cup {r}]
    BY <1>f, <2>1, <2>4
  <2> HIDE DEF F
  <2> QED BY <2>1, <2>2, <2>5 DEF Tx!Nested!Write, F
<1>4. ASSUME NEW r \in Values, Tx!WriteOutside(r) PROVE Tx!Nested!WriteOutside(r)
  <2>1. /\ scopes' = scopes /\ work' = work /\ lost' = lost /\ aborted' = aborted
        /\ outcome' = outcome /\ stored' = stored \cup {r}
    BY <1>4 DEF Tx!WriteOutside, Tx!caller, Tx!session
  <2>2. F' = F
    BY <1>u, <2>1
  <2> QED BY <2>1, <2>2 DEF Tx!Nested!WriteOutside
<1>5. ASSUME Tx!WriteFails \/ Tx!Lose PROVE Tx!Nested!Doom \/ UNCHANGED Tx!Nested!vars
  <2>1. /\ scopes' = scopes /\ work' = work /\ stored' = stored /\ outcome' = outcome /\ D > 0
        /\ \/ lost' = lost /\ aborted' = (aborted \/ refuses)
           \/ lost' = TRUE
    BY <1>5 DEF Tx!WriteFails, Tx!Lose, Tx!Refused, Tx!caller, Tx!session, Tx!Depth
  <2>2. F' = F /\ F # <<>>
    BY <1>0, <1>e, <1>u, <2>1
  <2>3. doomed' = TRUE \/ doomed' = doomed
    BY <1>0, <2>1
  <2> HIDE DEF F
  <2>4. CASE doomed' = TRUE
    BY <2>1, <2>2, <2>4 DEF Tx!Nested!Doom, F
  <2>5. CASE doomed' = doomed
    BY <2>1, <2>2, <2>5 DEF Tx!Nested!vars, F
  <2> QED BY <2>3, <2>4, <2>5
<1>p. ASSUME D > 1, scopes' = Tx!Front(scopes)
      PROVE  /\ Len(F) > 1
             /\ work' = work => F' = Tx!Nested!Merged
             /\ work' = Tx!Inner.began => F' = Tx!Nested!Front(F)
             /\ Tx!Named(Tx!Inner.name) # {}
             /\ saves[Tx!Latest(Tx!Inner.name)].work = Tx!Inner.began
  <2>1. /\ D \in DOMAIN scopes /\ D - 1 \in DOMAIN scopes /\ D - 1 < D
        /\ Tx!Inner = scopes[D]
    BY <1>0, <1>p DEF Tx!Inner, Tx!Last
  <2>2. scopes[D].began \subseteq work /\ scopes[D - 1].began \subseteq scopes[D].began
    BY <2>1 DEF TxInv, ScopesNest
  <2> DEFINE H == SubSeq(F, 1, Len(F) - 1)
             t == SubSeq(scopes, 1, Len(scopes) - 1)
  <2> HIDE DEF F
  <2>3. /\ FramesOf(t, work) = [H EXCEPT ![Len(F) - 1] = H[Len(F) - 1] \cup F[Len(F)]]
        /\ FramesOf(t, scopes[D].began) = H
    <3>1. /\ scopes \in Seq(Scopes) /\ Len(scopes) > 1 /\ work \in SUBSET Values
          /\ scopes[Len(scopes)].began \subseteq work
          /\ scopes[Len(scopes) - 1].began \subseteq scopes[Len(scopes)].began
      BY <1>0, <1>p, <2>2
    <3> DEFINE G == FramesOf(scopes, work)
               I == SubSeq(G, 1, Len(G) - 1)
    <3>2. /\ FramesOf(t, work) = [I EXCEPT ![Len(G) - 1] = I[Len(G) - 1] \cup G[Len(G)]]
          /\ FramesOf(t, scopes[Len(scopes)].began) = I
      BY ONLY <3>1, FramesPop
    <3>3. F = G
      BY <1>f
    <3> HIDE DEF G
    <3> QED BY <3>2, <3>3
  <2>4. scopes' = t
    BY <1>p DEF Tx!Front
  <2>5. Tx!Nested!Front(F) = H /\ Tx!Nested!Merged = [H EXCEPT ![Len(F) - 1] = H[Len(F) - 1] \cup F[Len(F)]]
    BY DEF Tx!Nested!Front, Tx!Nested!Last, Tx!Nested!Merged, F
  <2>6. Len(F) > 1
    BY <1>l, <1>p
  <2>7. Tx!Named(Tx!Inner.name) # {} /\ saves[Tx!Latest(Tx!Inner.name)].work = Tx!Inner.began
    BY <1>p, <2>1, ItsSavepoint
  <2> HIDE DEF H, t
  <2> QED BY <1>f, <2>1, <2>3, <2>4, <2>5, <2>6, <2>7
<1>7. ASSUME Tx!ReturnNested PROVE Tx!Nested!EndNested \/ Tx!Nested!FailNested
  <2>1. /\ D > 1 /\ scopes' = Tx!Front(scopes) /\ lost' = lost /\ stored' = stored
        /\ Tx!Release(Tx!Inner.name)
        /\ outcome' = IF Tx!Usable /\ Tx!Named(Tx!Inner.name) # {} THEN "ok" ELSE "error"
    BY <1>7 DEF Tx!ReturnNested, Tx!Pop, Tx!Depth
  <2>2. work' = work
    BY <2>1 DEF Tx!Release, Tx!Refused
  <2>3. Len(F) > 1 /\ F' = Tx!Nested!Merged /\ Tx!Named(Tx!Inner.name) # {}
    BY <1>p, <2>1, <2>2
  <2> HIDE DEF F
  <2>4. CASE Tx!Usable
    <3>1. ~lost /\ ~aborted /\ aborted' = aborted /\ outcome' = "ok"
      BY <2>1, <2>3, <2>4 DEF Tx!Release, Tx!Usable
    <3> QED BY <2>1, <2>3, <3>1 DEF Tx!Nested!EndNested, F
  <2>5. CASE ~Tx!Usable
    <3>1. (lost \/ aborted) /\ aborted' = (aborted \/ refuses) /\ outcome' = "error"
      BY <1>0, <2>1, <2>5 DEF Tx!Release, Tx!Usable, Tx!Refused
    <3>2. doomed /\ doomed' = doomed
      BY <1>0, <2>1, <3>1
    <3> QED BY <2>1, <2>3, <3>1, <3>2 DEF Tx!Nested!FailNested, F
  <2> QED BY <2>4, <2>5
<1>8. ASSUME Tx!FailNested PROVE Tx!Nested!AbortNested \/ Tx!Nested!FailNested
  <2>1. /\ D > 1 /\ scopes' = Tx!Front(scopes) /\ lost' = lost /\ stored' = stored
        /\ Tx!RollbackTo(Tx!Inner.name) /\ outcome' = "error"
    BY <1>8 DEF Tx!FailNested, Tx!Pop, Tx!Depth
  <2>3. /\ Len(F) > 1 /\ Tx!Named(Tx!Inner.name) # {}
        /\ work' = work => F' = Tx!Nested!Merged
        /\ work' = Tx!Inner.began => F' = Tx!Nested!Front(F)
        /\ saves[Tx!Latest(Tx!Inner.name)].work = Tx!Inner.began
    BY <1>p, <2>1
  <2> HIDE DEF F
  <2>4. CASE ~lost
    <3>1. work' = Tx!Inner.began /\ aborted' = FALSE
      BY <2>1, <2>3, <2>4 DEF Tx!RollbackTo
    <3>2. F' = Tx!Nested!Front(F) /\ doomed' = FALSE
      BY <2>1, <2>3, <2>4, <3>1
    <3> QED BY <2>1, <2>3, <3>2 DEF Tx!Nested!AbortNested, F
  <2>5. CASE lost
    <3>1. work' = work /\ aborted' = (aborted \/ refuses)
      BY <2>1, <2>5 DEF Tx!RollbackTo, Tx!Refused
    <3>2. doomed /\ doomed' = doomed /\ F' = Tx!Nested!Merged
      BY <1>0, <2>1, <2>3, <2>5, <3>1
    <3> QED BY <2>1, <2>3, <3>2 DEF Tx!Nested!FailNested, F
  <2> QED BY <2>4, <2>5
<1>9. ASSUME Tx!Recover PROVE UNCHANGED Tx!Nested!vars
  <2>1. /\ scopes' = scopes /\ work' = work /\ lost' = lost /\ aborted' = aborted
        /\ outcome' = outcome /\ stored' = stored
    BY <1>9 DEF Tx!Recover, Tx!session
  <2>2. F' = F
    BY <1>u, <2>1
  <2> QED BY <2>1, <2>2 DEF Tx!Nested!vars
<1>10. ASSUME Tx!ReturnRoot \/ Tx!FailRoot PROVE Tx!Nested!EndRoot
  <2>1. /\ D = 1 /\ scopes' = <<>> /\ work' = {} /\ aborted' = FALSE /\ lost' = FALSE
        /\ \/ ~lost /\ ~aborted /\ stored' = stored \cup work /\ outcome' = "ok"
           \/ stored' = stored /\ outcome' = "error"
           \/ ~lost /\ ~aborted /\ stored' = stored \cup work /\ outcome' = "unknown"
    BY <1>10 DEF Tx!ReturnRoot, Tx!FailRoot, Tx!Ended, Tx!Depth, Tx!Usable
  <2>2. F[1] = work /\ Len(F) = 1
    <3>1. 1 \in 1 .. D /\ scopes # <<>>
      BY <1>e, <2>1
    <3>2. scopes[1].began = {}
      BY <3>1 DEF TxInv, ScopesNest
    <3>3. FramesOf(scopes, work)[1] = work \ scopes[1].began
      BY <1>0, <2>1, <3>1, FramesAre
    <3> QED BY <1>f, <1>l, <2>1, <3>2, <3>3
  <2>3. F' = <<>>
    BY <1>0, <1>f, <2>1, NoFrames
  <2>4. doomed' = FALSE
    BY <2>1
  <2> HIDE DEF F
  <2> QED BY <2>1, <2>2, <2>3, <2>4 DEF Tx!Nested!EndRoot, F
<1>11. ASSUME UNCHANGED Tx!vars PROVE UNCHANGED Tx!Nested!vars
  <2>1. /\ scopes' = scopes /\ work' = work /\ lost' = lost /\ aborted' = aborted
        /\ outcome' = outcome /\ stored' = stored
    BY <1>11 DEF Tx!vars
  <2>2. F' = F
    BY <1>u, <2>1
  <2> QED BY <2>1, <2>2 DEF Tx!Nested!vars
<1> HIDE DEF D, doomed, F
<1> QED
  BY <1>1, <1>2, <1>3, <1>4, <1>5, <1>7, <1>8, <1>9, <1>10, <1>11 DEF Tx!Next, Tx!Nested!Next

\* Tx inside Tx behaves as nested transactions do, whatever fails, panics or is
\* recovered: a scope that fails takes back exactly what was written in it, one
\* that returns nil leaves it to the scope around it, and the outermost stores all
\* or nothing and reports which (pack/tx.go, Tx and BeginTx).  For every set of
\* rows and every bound on the scopes, their depth and the faults.
THEOREM TxIsNested == Tx!Spec => TxNests
<1>1. Tx!Init => Tx!Nested!Init
  <2> SUFFICES ASSUME Tx!Init PROVE Tx!Nested!Init
    OBVIOUS
  <2>1. Tx!Frames = FramesOf(scopes, work) /\ scopes = <<>> /\ work \in SUBSET Values
    BY DEF Tx!Frames, Tx!Depth, FramesOf, Tx!Init
  <2>2. Tx!Frames = <<>>
    BY <2>1, NoFrames
  <2> QED BY <2>2 DEF Tx!Init, Tx!Nested!Init
<1> QED BY <1>1, TxBegins, TxStep, TxRefines, PTL DEF Tx!Spec, TxNests, Tx!TxNests, Tx!Nested!Spec

-----------------------------------------------------------------------------
(* PackWrite: a Go value has the key of its own newest row                    *)

\* The model's values are finitely many, and CreateAll sends at least one row
\* with each statement.
WriteConstants == IsFiniteSet(Values) /\ BatchSize \in Nat \ {0}

InsertCalls ==
  [op : {"one", "all"}, rows : Seq(Values) \ {<<>>}, pc : {"insert", "refetch", "after"},
   at : Nat \ {0}, conflict : {"fail", "nothing", "update"}]
UpdateCalls == [op : {"update"}, rows : Seq(Values) \ {<<>>}, pc : {"update"}]
DeleteCalls == [op : {"delete"}, rows : {<<>>}, pc : {"fetch", "delete"}, key : Int]
WriteCalls == InsertCalls \cup UpdateCalls \cup DeleteCalls \cup {Write!Idle}

WriteTypes ==
  /\ lastId \in Nat
  /\ value = [v \in Values |-> value[v]]
  /\ \A v \in Values : "pk" \in DOMAIN value[v] /\ value[v].pk \in Int
  /\ doing \in [Procs -> WriteCalls]

\* No call names a value twice, and no two calls at once name the same value.
HeldApart ==
  /\ \A p \in Procs : \A i, j \in DOMAIN doing[p].rows : doing[p].rows[i] = doing[p].rows[j] => i = j
  /\ \A p, q \in Procs : p # q =>
       \A i \in DOMAIN doing[p].rows, j \in DOMAIN doing[q].rows :
         doing[p].rows[i] # doing[q].rows[j]

\* The first row of an insert that no statement has sent.
FirstUnsent(d) == IF d.pc = "insert" THEN d.at ELSE d.at + Len(Write!Batch(d))

\* A row that was not sent has no key, or was inserted before this call.
Unsent ==
  \A p \in Procs : doing[p].op \in {"one", "all"} =>
    /\ doing[p].at \in DOMAIN doing[p].rows
    /\ \A i \in DOMAIN doing[p].rows :
         i >= FirstUnsent(doing[p]) => value[doing[p].rows[i]].pk = 0 \/ doing[p].rows[i] \in again

KeysGiven == DOMAIN table \subseteq 1 .. lastId

\* The key of a value is that of the newest row written from it, or of none any
\* more, and it has been given out; there are older rows only where the value was
\* inserted again.
Owns ==
  \A v \in Values \ vague :
    /\ value[v].pk \in 0 .. lastId
    /\ \A k \in DOMAIN table :
         /\ table[k].of = v => k <= value[v].pk /\ (v \notin again => k = value[v].pk)
         /\ k = value[v].pk => table[k].of = v

WriteInv == WriteTypes /\ HeldApart /\ Unsent /\ KeysGiven /\ Owns

\* The cardinality that PackWrite speaks of.
LEMMA WriteCardinality == ASSUME NEW S PROVE Write!Cardinality(S) = Cardinality(S)
  BY DEF Write!Cardinality, Cardinality

\* A call that inserts, updates or deletes has the form of its kind.
LEMMA CallKinds ==
  ASSUME NEW d \in WriteCalls
  PROVE  /\ d.op \in {"one", "all"} => d \in InsertCalls
         /\ d.op = "update" => d \in UpdateCalls
         /\ d.op = "delete" => d \in DeleteCalls
<1>1. CASE d \in InsertCalls
  <2>1. d.op \in {"one", "all"}
    BY <1>1 DEF InsertCalls
  <2> QED BY ONLY <1>1, <2>1
<1>2. CASE d \in UpdateCalls
  <2>1. d.op = "update"
    BY <1>2 DEF UpdateCalls
  <2> QED BY ONLY <1>2, <2>1
<1>3. CASE d \in DeleteCalls
  <2>1. d.op = "delete"
    BY <1>3 DEF DeleteCalls
  <2> QED BY ONLY <1>3, <2>1
<1>4. CASE d = Write!Idle
  BY <1>4 DEF Write!Idle
<1> QED BY <1>1, <1>2, <1>3, <1>4 DEF WriteCalls

\* A run of a sequence.
LEMMA RunOf ==
  ASSUME NEW V, NEW s \in Seq(V), NEW a \in 1 .. Len(s), NEW e \in a .. Len(s)
  PROVE  /\ SubSeq(s, a, e) \in Seq(V) /\ Len(SubSeq(s, a, e)) = e - a + 1
         /\ Len(SubSeq(s, a, e)) >= 1 /\ a + Len(SubSeq(s, a, e)) - 1 <= Len(s)
         /\ \A i \in 1 .. Len(SubSeq(s, a, e)) : SubSeq(s, a, e)[i] = s[a + i - 1]
<1>1. Len(s) \in Nat /\ a \in Nat /\ e \in Nat /\ a <= e /\ e <= Len(s) /\ a >= 1
  OBVIOUS
<1>2. SubSeq(s, a, e) \in Seq(V)
  BY <1>1
<1>3. Len(SubSeq(s, a, e)) = e - a + 1
  BY <1>1
<1>4. \A i \in 1 .. (e - a + 1) : SubSeq(s, a, e)[i] = s[a + i - 1]
  BY <1>1
<1> QED BY ONLY <1>1, <1>2, <1>3, <1>4

\* The next batch of an insert: a run of its rows, starting at the first one that
\* is left.
LEMMA BatchIs ==
  ASSUME WriteConstants, NEW d \in InsertCalls, d.at \in DOMAIN d.rows
  PROVE  /\ Write!Batch(d) \in Seq(Values) /\ Len(Write!Batch(d)) >= 1
         /\ d.at + Len(Write!Batch(d)) - 1 <= Len(d.rows)
         /\ \A i \in 1 .. Len(Write!Batch(d)) : Write!Batch(d)[i] = d.rows[d.at + i - 1]
<1> DEFINE n == Len(d.rows)
           m == d.at + (IF d.op = "all" THEN BatchSize ELSE 1) - 1
           e == Write!Min({n, m})
<1>1. n \in Nat /\ d.at \in 1 .. n /\ d.rows \in Seq(Values)
  BY DEF InsertCalls
<1>2. m \in Nat /\ m >= d.at
  <2>1. BatchSize \in Nat /\ BatchSize >= 1
    BY DEF WriteConstants
  <2> QED BY <1>1, <2>1
<1>3. e = IF n <= m THEN n ELSE m
  <2> HIDE DEF n, m
  <2> QED BY <1>1, <1>2 DEF Write!Min
<1>4. e \in d.at .. n
  <2> HIDE DEF n, m, e
  <2> QED BY <1>1, <1>2, <1>3
<1>5. Write!Batch(d) = SubSeq(d.rows, d.at, e)
  BY DEF Write!Batch
<1> HIDE DEF e, m
<1>6. LET b == SubSeq(d.rows, d.at, e)
      IN  /\ b \in Seq(Values) /\ Len(b) >= 1 /\ d.at + Len(b) - 1 <= Len(d.rows)
          /\ \A i \in 1 .. Len(b) : b[i] = d.rows[d.at + i - 1]
  BY ONLY <1>1, <1>4, RunOf
<1> QED BY ONLY <1>5, <1>6

\* The rows that an INSERT adds have a key that was not given out before, and are
\* written from values of its batch; the others stay.
LEMMA InsertsRows ==
  ASSUME lastId \in Nat, KeysGiven, NEW d, NEW b \in Seq(Values)
  PROVE  LET t == Write!Inserted(d, b)
             top == lastId + Write!Cardinality(Write!FreshAt(b))
         IN  /\ top \in Nat /\ top >= lastId /\ DOMAIN t \subseteq 1 .. top
             /\ DOMAIN table \subseteq DOMAIN t
             /\ \A k \in DOMAIN table : t[k] = table[k]
             /\ \A k \in DOMAIN t \ DOMAIN table :
                  /\ k > lastId
                  /\ \E i \in Write!FreshAt(b) : k = Write!KeyAt(b, i) /\ t[k].of = b[i]
<1> DEFINE F == Write!FreshAt(b)
           t == Write!Inserted(d, b)
           top == lastId + Write!Cardinality(F)
<1>1. F \in SUBSET (1 .. Len(b)) /\ Len(b) \in Nat
  BY DEF Write!FreshAt
<1>2. IsFiniteSet(F)
  <2>1. IsFiniteSet(1 .. Len(b))
    BY <1>1, FS_Interval
  <2> HIDE DEF F
  <2> QED BY <1>1, <2>1, FS_Subset
<1>3. Cardinality(F) \in Nat
  BY <1>2, FS_CardinalityType
<1>4. top = lastId + Cardinality(F)
  BY WriteCardinality
<1>5. ASSUME NEW i \in F PROVE Write!KeyAt(b, i) \in (lastId + 1) .. top
  <2> DEFINE R == {j \in F : j <= i}
  <2>1. R \in SUBSET F /\ i \in R
    BY <1>1
  <2>2. IsFiniteSet(R) /\ Cardinality(R) <= Cardinality(F)
    BY <1>2, <2>1, FS_Subset
  <2>3. Cardinality(R) \in Nat /\ Cardinality(R) # 0
    BY <2>1, <2>2, FS_CardinalityType, FS_EmptySet
  <2>4. Write!KeyAt(b, i) = lastId + Cardinality(R)
    BY WriteCardinality DEF Write!KeyAt
  <2> HIDE DEF R, top, F
  <2> QED BY <1>3, <1>4, <2>2, <2>3, <2>4
<1>6. DOMAIN t = DOMAIN table \cup Write!Given(b)
  BY DEF Write!Inserted
<1>7. \A k \in DOMAIN table : t[k] = table[k]
  BY DEF Write!Inserted
<1>8. ASSUME NEW k \in Write!Given(b), k \notin DOMAIN table
      PROVE  \E i \in F : k = Write!KeyAt(b, i) /\ t[k].of = b[i]
  <2> DEFINE i == CHOOSE i \in F : Write!KeyAt(b, i) = k
  <2>1. i \in F /\ Write!KeyAt(b, i) = k
    BY DEF Write!Given
  <2>2. t[k].of = b[i]
    BY <1>8 DEF Write!Inserted
  <2> QED BY <2>1, <2>2
<1>9. Write!Given(b) \subseteq 1 .. top /\ \A k \in Write!Given(b) : k > lastId
  BY <1>5, <1>3, <1>4 DEF Write!Given
<1> HIDE DEF t, F
<1>10. top \in Nat /\ top >= lastId
  BY <1>3, <1>4
<1>11. DOMAIN table \subseteq 1 .. top
  BY <1>10 DEF KeysGiven
<1> QED BY <1>6, <1>7, <1>8, <1>9, <1>10, <1>11 DEF t, F

\* Where no row of the batch meets another, they take the keys after the last one
\* in the order of the batch.
LEMMA KeysInOrder ==
  ASSUME lastId \in Nat, NEW b \in Seq(Values), Write!Clashes(b) = {}
  PROVE  /\ Write!FreshAt(b) = 1 .. Len(b)
         /\ Write!Cardinality(Write!FreshAt(b)) = Len(b)
         /\ \A i \in 1 .. Len(b) : Write!KeyAt(b, i) = lastId + i
<1>1. Write!FreshAt(b) = 1 .. Len(b) /\ Len(b) \in Nat
  BY DEF Write!FreshAt
<1>2. Cardinality(1 .. Len(b)) = Len(b)
  BY <1>1, FS_Interval
<1>3. ASSUME NEW i \in 1 .. Len(b) PROVE Write!KeyAt(b, i) = lastId + i
  <2>1. {j \in Write!FreshAt(b) : j <= i} = 1 .. i
    BY <1>1
  <2>2. Cardinality(1 .. i) = i
    BY FS_Interval
  <2> QED BY <2>1, <2>2, WriteCardinality DEF Write!KeyAt
<1> QED BY <1>1, <1>2, <1>3, WriteCardinality

\* Rows that two calls cannot both hold: the calls of one goroutine replaced by
\* another that holds no value but some the first held.
LEMMA CallShrinks ==
  ASSUME WriteInv, NEW p \in Procs, NEW d \in WriteCalls, doing' = [doing EXCEPT ![p] = d],
         d.rows = doing[p].rows \/ d.rows = <<>>
  PROVE  doing' \in [Procs -> WriteCalls] /\ HeldApart'
<1>1. doing \in [Procs -> WriteCalls]
  BY DEF WriteInv, WriteTypes
<1>2. doing' \in [Procs -> WriteCalls]
  BY <1>1
<1>3. ASSUME NEW q \in Procs
      PROVE  doing'[q].rows = doing[q].rows \/ doing'[q].rows = <<>>
  BY <1>1
<1>4. \A q \in Procs : \A i \in DOMAIN doing'[q].rows :
        i \in DOMAIN doing[q].rows /\ doing'[q].rows[i] = doing[q].rows[i]
  BY <1>3
<1>5. HeldApart
  BY DEF WriteInv
<1> QED BY <1>2, <1>4, <1>5 DEF HeldApart

\* A goroutine whose call has ended holds nothing.
LEMMA ReturnKeeps ==
  ASSUME WriteInv, NEW p \in Procs, Write!Return(p), again' = again,
         \A v \in Values : value'[v].pk = value[v].pk
  PROVE  doing' \in [Procs -> WriteCalls] /\ HeldApart' /\ Unsent'
<1>1. doing \in [Procs -> WriteCalls] /\ doing' = [doing EXCEPT ![p] = Write!Idle]
  BY DEF WriteInv, WriteTypes, Write!Return
<1>2. Write!Idle \in WriteCalls /\ Write!Idle.rows = <<>> /\ Write!Idle.op = "idle"
  BY DEF WriteCalls, Write!Idle
<1>3. doing' \in [Procs -> WriteCalls] /\ HeldApart'
  BY <1>1, <1>2, CallShrinks
<1>4. ASSUME NEW q \in Procs, doing'[q].op \in {"one", "all"}
      PROVE  doing'[q] = doing[q]
  BY <1>1, <1>2, <1>4
<1>5. ASSUME NEW q \in Procs, doing[q].op \in {"one", "all"}
      PROVE  \A i \in DOMAIN doing[q].rows : value'[doing[q].rows[i]].pk = value[doing[q].rows[i]].pk
  <2>1. doing[q] \in InsertCalls
    BY <1>1, <1>5, CallKinds
  <2>2. doing[q].rows \in Seq(Values)
    BY <2>1 DEF InsertCalls
  <2> QED BY <2>2
<1>6. Unsent
  BY DEF WriteInv
<1>7. ASSUME NEW q \in Procs, doing'[q].op \in {"one", "all"}
      PROVE  /\ doing'[q].at \in DOMAIN doing'[q].rows
             /\ \A i \in DOMAIN doing'[q].rows :
                  i >= FirstUnsent(doing'[q]) =>
                    value'[doing'[q].rows[i]].pk = 0 \/ doing'[q].rows[i] \in again'
  BY <1>4, <1>5, <1>6, <1>7 DEF Unsent
<1>8. \A q \in Procs : FirstUnsent(doing[q])' = FirstUnsent(doing'[q])
  BY DEF FirstUnsent, Write!Batch
<1> QED BY <1>3, <1>7, <1>8 DEF Unsent

\* A call that begins: its rows are held by no other.
LEMMA CallKeeps ==
  ASSUME WriteInv, NEW p \in Procs, NEW c \in WriteCalls, Write!Call(p, c),
         \A i, j \in DOMAIN c.rows : c.rows[i] = c.rows[j] => i = j,
         c \in InsertCalls => c.pc = "insert" /\ c.at = 1
  PROVE  WriteInv'
<1>1. /\ doing \in [Procs -> WriteCalls] /\ doing' = [doing EXCEPT ![p] = c]
      /\ table' = table /\ lastId' = lastId /\ value' = value /\ vague' = vague
      /\ again' = again \cup {v \in Write!Range(c.rows) : c.op \in {"one", "all"} /\ value[v].pk # 0}
  BY DEF WriteInv, WriteTypes, Write!Call
<1>2. WriteTypes' /\ KeysGiven' /\ Owns'
  BY <1>1 DEF WriteInv, WriteTypes, KeysGiven, Owns
<1>3. ASSUME NEW q \in Procs, NEW i \in DOMAIN doing[q].rows, NEW j \in DOMAIN c.rows
      PROVE  doing[q].rows[i] # c.rows[j]
  <2>1. Write!Range(doing[q].rows) \cap Write!Range(c.rows) = {}
    BY DEF Write!Call
  <2>2. doing[q].rows[i] \in Write!Range(doing[q].rows) /\ c.rows[j] \in Write!Range(c.rows)
    BY DEF Write!Range
  <2> QED BY <2>1, <2>2
<1>4. HeldApart'
  <2>1. HeldApart
    BY DEF WriteInv
  <2>2. doing'[p] = c /\ \A q \in Procs : q # p => doing'[q] = doing[q]
    BY <1>1
  <2>3. \A q \in Procs : \A i, j \in DOMAIN doing'[q].rows :
          doing'[q].rows[i] = doing'[q].rows[j] => i = j
    BY <2>1, <2>2 DEF HeldApart
  <2>4. ASSUME NEW q \in Procs, NEW r \in Procs, q # r,
               NEW i \in DOMAIN doing'[q].rows, NEW j \in DOMAIN doing'[r].rows
        PROVE  doing'[q].rows[i] # doing'[r].rows[j]
    <3>1. CASE q = p
      BY <1>3, <2>2, <2>4, <3>1
    <3>2. CASE r = p
      BY <1>3, <2>2, <2>4, <3>2
    <3>3. CASE q # p /\ r # p
      BY <2>1, <2>2, <2>4, <3>3 DEF HeldApart
    <3> QED BY <3>1, <3>2, <3>3
  <2> QED BY <2>3, <2>4 DEF HeldApart
<1>5. ASSUME NEW q \in Procs, doing'[q].op \in {"one", "all"}
      PROVE  /\ doing'[q].at \in DOMAIN doing'[q].rows
             /\ \A i \in DOMAIN doing'[q].rows :
                  i >= FirstUnsent(doing'[q]) =>
                    value'[doing'[q].rows[i]].pk = 0 \/ doing'[q].rows[i] \in again'
  <2>1. CASE q = p
    <3>1. doing'[q] = c /\ c.op \in {"one", "all"}
      BY <1>1, <1>5, <2>1
    <3>2. c \in InsertCalls
      BY <3>1, CallKinds
    <3>3. c.rows \in Seq(Values) /\ c.rows # <<>>
      BY <3>2 DEF InsertCalls
    <3>4. 1 \in DOMAIN c.rows
      BY <3>3
    <3>5. \A i \in DOMAIN c.rows : value[c.rows[i]].pk = 0 \/ c.rows[i] \in again'
      <4>1. \A i \in DOMAIN c.rows : c.rows[i] \in Write!Range(c.rows)
        BY DEF Write!Range
      <4> QED BY <1>1, <3>1, <4>1
    <3> QED BY <1>1, <3>1, <3>2, <3>4, <3>5
  <2>2. CASE q # p
    <3>1. doing'[q] = doing[q]
      BY <1>1, <2>2
    <3> QED BY <1>1, <1>5, <3>1 DEF WriteInv, Unsent
  <2> QED BY <2>1, <2>2
<1>6. \A q \in Procs : FirstUnsent(doing[q])' = FirstUnsent(doing'[q])
  BY DEF FirstUnsent, Write!Batch
<1> QED BY <1>2, <1>4, <1>5, <1>6 DEF WriteInv, Unsent

\* An insert that goroutine p has under way, before its statement: the values of
\* the batch are p's alone, differ, and have no key or are inserted again.
LEMMA InsertUnderWay ==
  ASSUME WriteConstants, WriteInv, NEW p \in Procs, doing[p].op \in {"one", "all"}
  PROVE  LET d == doing[p]  b == Write!Batch(doing[p])
         IN  /\ d \in InsertCalls /\ d.rows \in Seq(Values) /\ d.at \in 1 .. Len(d.rows)
             /\ b \in Seq(Values) /\ Len(b) >= 1 /\ d.at + Len(b) - 1 <= Len(d.rows)
             /\ \A i \in 1 .. Len(b) : b[i] = d.rows[d.at + i - 1]
             /\ \A i, j \in 1 .. Len(b) : b[i] = b[j] => i = j
             /\ d.pc = "insert" => \A i \in 1 .. Len(b) : value[b[i]].pk = 0 \/ b[i] \in again
<1> DEFINE d == doing[p]
           b == Write!Batch(d)
<1>1. d \in InsertCalls
  BY CallKinds DEF WriteInv, WriteTypes
<1>2. d.rows \in Seq(Values) /\ d.at \in DOMAIN d.rows
  BY <1>1 DEF InsertCalls, WriteInv, Unsent
<1>3. /\ b \in Seq(Values) /\ Len(b) >= 1 /\ d.at + Len(b) - 1 <= Len(d.rows)
      /\ \A i \in 1 .. Len(b) : b[i] = d.rows[d.at + i - 1]
  BY <1>1, <1>2, BatchIs
<1>4. d.at \in 1 .. Len(d.rows) /\ Len(d.rows) \in Nat /\ Len(b) \in Nat
  BY <1>2, <1>3
<1>5. \A i, j \in DOMAIN d.rows : d.rows[i] = d.rows[j] => i = j
  BY DEF WriteInv, HeldApart
<1>6. d.pc = "insert" =>
        \A i \in DOMAIN d.rows : i >= d.at => value[d.rows[i]].pk = 0 \/ d.rows[i] \in again
  BY DEF WriteInv, Unsent, FirstUnsent
<1> HIDE DEF b, d
<1>7. ASSUME NEW i \in 1 .. Len(b)
      PROVE  d.at + i - 1 \in DOMAIN d.rows /\ d.at + i - 1 >= d.at
  BY <1>2, <1>3, <1>4
<1>8. ASSUME NEW i \in 1 .. Len(b), NEW j \in 1 .. Len(b), b[i] = b[j] PROVE i = j
  <2>1. d.at + i - 1 = d.at + j - 1
    BY <1>3, <1>5, <1>7, <1>8
  <2> QED BY <1>4, <2>1
<1>9. d.pc = "insert" => \A i \in 1 .. Len(b) : value[b[i]].pk = 0 \/ b[i] \in again
  BY <1>3, <1>6, <1>7
<1> QED BY <1>1, <1>2, <1>3, <1>4, <1>8, <1>9 DEF b, d

\* The position of a value in a batch.
LEMMA AtIs ==
  ASSUME NEW b \in Seq(Values), NEW v \in Write!Range(b)
  PROVE  Write!At(b, v) \in 1 .. Len(b) /\ b[Write!At(b, v)] = v
<1>1. \E i \in DOMAIN b : b[i] = v
  BY DEF Write!Range
<1> QED BY <1>1 DEF Write!At

\* Every key that RETURNING can report is a number.
LEMMA KeyIsNumber ==
  ASSUME lastId \in Nat, KeysGiven, NEW b \in Seq(Values), NEW v
  PROVE  Write!KeyOf(b, v) \in Int
<1>1. CASE Write!Met(v) # {}
  <2>1. Write!Met(v) \in SUBSET Nat
    BY DEF Write!Met, Write!RowsOf, KeysGiven
  <2>2. \E m \in Write!Met(v) : \A n \in Write!Met(v) : m <= n
    BY <1>1, <2>1, SmallestExists
  <2>3. Write!Min(Write!Met(v)) \in Write!Met(v)
    BY <2>2 DEF Write!Min
  <2> QED BY <1>1, <2>1, <2>3 DEF Write!KeyOf
<1>2. CASE Write!Met(v) = {}
  <2> DEFINE i == Write!At(b, v)
             R == {j \in Write!FreshAt(b) : j <= i}
  <2>1. R \in SUBSET (1 .. Len(b)) /\ Len(b) \in Nat
    BY DEF Write!FreshAt
  <2>2. IsFiniteSet(1 .. Len(b))
    BY <2>1, FS_Interval
  <2>3. Cardinality(R) \in Nat
    <3> HIDE DEF R
    <3> QED BY <2>1, <2>2, FS_Subset, FS_CardinalityType
  <2>4. Write!KeyOf(b, v) = lastId + Cardinality(R)
    BY <1>2, WriteCardinality DEF Write!KeyOf, Write!KeyAt
  <2> HIDE DEF R
  <2> QED BY <2>3, <2>4
<1> QED BY <1>1, <1>2

\* What an INSERT reads back: only the values of the batch change, and where no
\* row met another each gets the key of its own row.
LEMMA KeysRead ==
  ASSUME lastId \in Nat, KeysGiven, value = [v \in Values |-> value[v]],
         \A v \in Values : "pk" \in DOMAIN value[v] /\ value[v].pk \in Int,
         NEW d, NEW t, NEW b \in Seq(Values), Len(b) >= 1,
         \A i, j \in 1 .. Len(b) : b[i] = b[j] => i = j,
         \/ value' = Write!Returned(d, t, b)
         \/ \E id \in Write!LastInsertId(b) : value' = Write!Counted(b, id)
  PROVE  /\ value' = [v \in Values |-> value'[v]]
         /\ \A v \in Values : "pk" \in DOMAIN value'[v] /\ value'[v].pk \in Int
         /\ \A v \in Values \ Write!Range(b) : value'[v] = value[v]
         /\ Write!Clashes(b) = {} => \A i \in 1 .. Len(b) : value'[b[i]].pk = lastId + i
<1>0. ASSUME NEW i \in 1 .. Len(b)
      PROVE  b[i] \in Values /\ b[i] \in Write!Range(b) /\ Write!At(b, b[i]) = i
  <2>1. b[i] \in Values /\ b[i] \in Write!Range(b)
    BY DEF Write!Range
  <2> QED BY <2>1, AtIs
<1>1. CASE value' = Write!Returned(d, t, b)
  <2>1. value' = [v \in Values |-> value'[v]]
    BY <1>1 DEF Write!Returned
  <2>2. \A v \in Values \ Write!Range(b) : value'[v] = value[v]
    BY <1>1 DEF Write!Returned
  <2>3. \A v \in Values : v \in Write!Range(b) =>
          "pk" \in DOMAIN value'[v] /\ value'[v].pk = Write!KeyOf(b, v)
    BY <1>1 DEF Write!Returned
  <2>4. ASSUME Write!Clashes(b) = {}, NEW i \in 1 .. Len(b) PROVE value'[b[i]].pk = lastId + i
    <3>1. Write!Met(b[i]) = {}
      <4>1. i \in DOMAIN b /\ i \notin Write!Clashes(b)
        BY <2>4
      <4> QED BY ONLY <4>1 DEF Write!Clashes
    <3>2. Write!KeyOf(b, b[i]) = Write!KeyAt(b, i)
      BY <1>0, <3>1 DEF Write!KeyOf
    <3>3. Write!KeyAt(b, i) = lastId + i
      BY <2>4, KeysInOrder
    <3> QED BY <1>0, <2>3, <3>2, <3>3
  <2> QED BY <2>1, <2>2, <2>3, <2>4, KeyIsNumber
<1>2. ASSUME NEW id \in Write!LastInsertId(b), value' = Write!Counted(b, id)
      PROVE  /\ value' = [v \in Values |-> value'[v]]
             /\ \A v \in Values : "pk" \in DOMAIN value'[v] /\ value'[v].pk \in Int
             /\ \A v \in Values \ Write!Range(b) : value'[v] = value[v]
             /\ Write!Clashes(b) = {} => \A i \in 1 .. Len(b) : value'[b[i]].pk = lastId + i
  <2>1. value' = [v \in Values |-> value'[v]]
    BY <1>2 DEF Write!Counted
  <2>2. \A v \in Values \ Write!Range(b) : value'[v] = value[v]
    BY <1>2 DEF Write!Counted
  <2>3. ASSUME NEW v \in Values, v \in Write!Range(b)
        PROVE  "pk" \in DOMAIN value'[v] /\ value'[v].pk = id + Write!At(b, v) - 1
    <3>1. value'[v] = [value[v] EXCEPT !.pk = id + Write!At(b, v) - 1]
      BY <1>2, <2>3 DEF Write!Counted
    <3> QED BY <3>1
  <2>4. id \in Int
    BY DEF Write!LastInsertId
  <2>5. ASSUME NEW v \in Values PROVE "pk" \in DOMAIN value'[v] /\ value'[v].pk \in Int
    <3>1. CASE v \in Write!Range(b)
      BY <2>3, <2>4, <3>1, AtIs
    <3>2. CASE v \notin Write!Range(b)
      BY <2>2, <3>2
    <3> QED BY <3>1, <3>2
  <2>6. ASSUME Write!Clashes(b) = {}, NEW i \in 1 .. Len(b) PROVE value'[b[i]].pk = lastId + i
    <3>1. Write!FreshAt(b) # {}
      BY <2>6, KeysInOrder
    <3>2. id = lastId + 1
      BY <3>1 DEF Write!LastInsertId
    <3>3. value'[b[i]].pk = id + i - 1
      BY <1>0, <2>3
    <3> QED BY <3>2, <3>3
  <2> QED BY <2>1, <2>2, <2>5, <2>6
<1> QED BY <1>1, <1>2

\* After an INSERT the values whose row is known stand for their own rows.
LEMMA InsertOwns ==
  ASSUME lastId \in Nat, KeysGiven, Owns, NEW d, NEW b \in Seq(Values),
         \A i, j \in 1 .. Len(b) : b[i] = b[j] => i = j,
         \A i \in 1 .. Len(b) : value[b[i]].pk = 0 \/ b[i] \in again,
         table' = Write!Inserted(d, b), lastId' = lastId + Write!Cardinality(Write!FreshAt(b)),
         vague \subseteq vague', again' = again,
         \A v \in Values \ Write!Range(b) : value'[v] = value[v],
         \/ Write!Range(b) \subseteq vague'
         \/ Write!Clashes(b) = {} /\ \A i \in 1 .. Len(b) : value'[b[i]].pk = lastId + i
  PROVE  lastId' \in Nat /\ KeysGiven' /\ Owns'
<1>1. /\ lastId' \in Nat /\ lastId' >= lastId /\ DOMAIN table' \subseteq 1 .. lastId'
      /\ DOMAIN table \subseteq DOMAIN table'
      /\ \A k \in DOMAIN table : table'[k] = table[k]
      /\ \A k \in DOMAIN table' \ DOMAIN table :
           /\ k > lastId
           /\ \E i \in Write!FreshAt(b) : k = Write!KeyAt(b, i) /\ table'[k].of = b[i]
  BY InsertsRows
<1>2. \A i \in Write!FreshAt(b) : i \in 1 .. Len(b) /\ b[i] \in Write!Range(b)
  BY DEF Write!FreshAt, Write!Range
<1>3. ASSUME NEW v \in Values \ vague', v \notin Write!Range(b)
      PROVE  /\ value'[v].pk \in 0 .. lastId'
             /\ \A k \in DOMAIN table' :
                  /\ table'[k].of = v => k <= value'[v].pk /\ (v \notin again => k = value'[v].pk)
                  /\ k = value'[v].pk => table'[k].of = v
  <2>1. /\ value'[v].pk = value[v].pk /\ value[v].pk \in 0 .. lastId
        /\ \A k \in DOMAIN table :
             /\ table[k].of = v => k <= value[v].pk /\ (v \notin again => k = value[v].pk)
             /\ k = value[v].pk => table[k].of = v
    BY <1>3 DEF Owns
  <2>2. ASSUME NEW k \in DOMAIN table' \ DOMAIN table
        PROVE  table'[k].of # v /\ k > lastId
    <3>1. PICK i \in Write!FreshAt(b) : k = Write!KeyAt(b, i) /\ table'[k].of = b[i]
      BY <1>1
    <3> QED BY <1>1, <1>2, <1>3, <3>1
  <2>3. value'[v].pk \in 0 .. lastId'
    BY <1>1, <2>1
  <2>4. \A k \in DOMAIN table' :
          /\ table'[k].of = v => k <= value'[v].pk /\ (v \notin again => k = value'[v].pk)
          /\ k = value'[v].pk => table'[k].of = v
    BY <1>1, <2>1, <2>2
  <2> QED BY <2>3, <2>4
<1>4. ASSUME NEW v \in Values \ vague', v \in Write!Range(b)
      PROVE  /\ value'[v].pk \in 0 .. lastId'
             /\ \A k \in DOMAIN table' :
                  /\ table'[k].of = v => k <= value'[v].pk /\ (v \notin again => k = value'[v].pk)
                  /\ k = value'[v].pk => table'[k].of = v
  <2>1. Write!Clashes(b) = {} /\ \A i \in 1 .. Len(b) : value'[b[i]].pk = lastId + i
    BY <1>4
  <2>2. PICK i \in 1 .. Len(b) : v = b[i]
    BY <1>4 DEF Write!Range
  <2>3. (value[v].pk = 0 \/ v \in again) /\ value'[v].pk = lastId + i
    BY <2>1, <2>2
  <2>4. lastId' = lastId + Len(b)
    BY <2>1, KeysInOrder
  <2>5. \A k \in DOMAIN table : k < lastId + i /\ (table'[k].of = v => v \in again)
    <3>1. \A k \in DOMAIN table : k >= 1 /\ k <= lastId /\ k \in Int
      BY DEF KeysGiven
    <3>2. \A k \in DOMAIN table : table[k].of = v /\ v \notin again => k = 0
      BY <1>4, <2>3 DEF Owns
    <3> QED BY <1>1, <3>1, <3>2
  <2>6. ASSUME NEW k \in DOMAIN table' \ DOMAIN table
        PROVE  table'[k].of = v <=> k = lastId + i
    <3>1. PICK j \in Write!FreshAt(b) : k = Write!KeyAt(b, j) /\ table'[k].of = b[j]
      BY <1>1
    <3>2. j \in 1 .. Len(b) /\ k = lastId + j
      BY <1>2, <2>1, <3>1, KeysInOrder
    <3> QED BY <2>2, <3>1, <3>2
  <2>7. value'[v].pk \in 0 .. lastId'
    BY <2>3, <2>4
  <2>8. \A k \in DOMAIN table : k \in Int
    BY DEF KeysGiven
  <2> QED BY <2>3, <2>5, <2>6, <2>7, <2>8
<1> QED BY <1>1, <1>3, <1>4 DEF Owns, KeysGiven

\* A call that goes on with the same rows, where no value of another call and no
\* row that is left to send changes its key.
LEMMA InsertGoesOn ==
  ASSUME WriteConstants, WriteInv, NEW p \in Procs, NEW c \in InsertCalls,
         doing' = [doing EXCEPT ![p] = c], c.rows = doing[p].rows, c.at \in DOMAIN c.rows,
         again' = again,
         \A q \in Procs \ {p} : doing[q].op \in {"one", "all"} =>
           \A i \in DOMAIN doing[q].rows : value'[doing[q].rows[i]].pk = value[doing[q].rows[i]].pk,
         \A i \in DOMAIN c.rows :
           i >= FirstUnsent(c) => value'[c.rows[i]].pk = 0 \/ c.rows[i] \in again
  PROVE  doing' \in [Procs -> WriteCalls] /\ HeldApart' /\ Unsent'
<1>1. doing' \in [Procs -> WriteCalls] /\ HeldApart'
  <2>1. c \in WriteCalls
    BY DEF WriteCalls
  <2> QED BY <2>1, CallShrinks
<1>2. doing'[p] = c /\ \A q \in Procs : q # p => doing'[q] = doing[q]
  BY DEF WriteInv, WriteTypes
<1>3. Unsent
  BY DEF WriteInv
<1>4. ASSUME NEW q \in Procs, doing'[q].op \in {"one", "all"}
      PROVE  /\ doing'[q].at \in DOMAIN doing'[q].rows
             /\ \A i \in DOMAIN doing'[q].rows :
                  i >= FirstUnsent(doing'[q]) =>
                    value'[doing'[q].rows[i]].pk = 0 \/ doing'[q].rows[i] \in again'
  <2>1. CASE q = p
    BY <1>2, <2>1
  <2>2. CASE q # p
    BY <1>2, <1>3, <1>4, <2>2 DEF Unsent
  <2> QED BY <2>1, <2>2
<1>5. \A q \in Procs : FirstUnsent(doing[q])' = FirstUnsent(doing'[q])
  BY DEF FirstUnsent, Write!Batch
<1> QED BY <1>1, <1>4, <1>5 DEF Unsent

\* An insert past its statement: the rows after the batch are left to send.
LEMMA PcChanges ==
  ASSUME NEW d \in InsertCalls, NEW x \in {"refetch", "after"}
  PROVE  LET c == [d EXCEPT !.pc = x]
         IN  /\ c \in InsertCalls /\ c.rows = d.rows /\ c.at = d.at
             /\ FirstUnsent(c) = d.at + Len(Write!Batch(d))
<1> DEFINE c == [d EXCEPT !.pc = x]
<1>1. c \in InsertCalls /\ c.rows = d.rows /\ c.at = d.at /\ c.op = d.op /\ c.pc = x
  BY DEF InsertCalls
<1>2. Write!Batch(c) = Write!Batch(d)
  BY <1>1 DEF Write!Batch
<1> QED BY <1>1, <1>2 DEF FirstUnsent

\* No value of another call, and no row of the call after the batch, is in it.
LEMMA BatchApart ==
  ASSUME WriteConstants, WriteInv, NEW p \in Procs, doing[p].op \in {"one", "all"}
  PROVE  LET d == doing[p]  b == Write!Batch(doing[p])
         IN  /\ \A q \in Procs \ {p} : doing[q].op \in {"one", "all"} =>
                  \A i \in DOMAIN doing[q].rows : doing[q].rows[i] \in Values \ Write!Range(b)
             /\ \A i \in DOMAIN d.rows :
                  i >= d.at + Len(b) => d.rows[i] \in Values \ Write!Range(b)
<1> DEFINE d == doing[p]
           b == Write!Batch(d)
<1>1. /\ d.rows \in Seq(Values) /\ d.at \in 1 .. Len(d.rows)
      /\ b \in Seq(Values) /\ d.at + Len(b) - 1 <= Len(d.rows)
      /\ \A i \in 1 .. Len(b) : b[i] = d.rows[d.at + i - 1]
  BY InsertUnderWay
<1>2. Len(b) \in Nat /\ Len(d.rows) \in Nat
  BY <1>1
<1>3. HeldApart
  BY DEF WriteInv
<1>4. ASSUME NEW v \in Write!Range(b)
      PROVE  \E j \in DOMAIN d.rows : d.rows[j] = v /\ j < d.at + Len(b)
  <2>1. PICK i \in 1 .. Len(b) : b[i] = v
    BY <1>1 DEF Write!Range
  <2> HIDE DEF b, d
  <2>2. d.at + i - 1 \in DOMAIN d.rows /\ d.at + i - 1 < d.at + Len(b)
    BY <1>1, <1>2
  <2> QED BY <1>1, <2>1, <2>2
<1>5. ASSUME NEW q \in Procs \ {p}, doing[q].op \in {"one", "all"}, NEW i \in DOMAIN doing[q].rows
      PROVE  doing[q].rows[i] \in Values \ Write!Range(b)
  <2>1. doing[q].rows[i] \in Values
    <3>1. doing[q].rows \in Seq(Values)
      BY <1>5, InsertUnderWay
    <3> QED BY <3>1
  <2>2. \A j \in DOMAIN d.rows : d.rows[j] # doing[q].rows[i]
    BY <1>3 DEF HeldApart
  <2> QED BY <1>4, <2>1, <2>2
<1>6. ASSUME NEW i \in DOMAIN d.rows, i >= d.at + Len(b)
      PROVE  d.rows[i] \in Values \ Write!Range(b)
  <2>1. \A j \in DOMAIN d.rows : d.rows[i] = d.rows[j] => i = j
    BY <1>3 DEF HeldApart
  <2>2. d.rows[i] \in Values /\ i \in Nat
    BY <1>1
  <2>3. \A j \in DOMAIN d.rows : j \in Nat
    BY <1>1
  <2> HIDE DEF b, d
  <2>4. ASSUME NEW j \in DOMAIN d.rows, d.rows[j] = d.rows[i], j < d.at + Len(b) PROVE FALSE
    <3>1. i = j
      BY <2>1, <2>4
    <3> QED BY <1>1, <1>2, <1>6, <2>2, <2>4, <3>1
  <2> QED BY <1>4, <2>2, <2>4
<1> QED BY <1>5, <1>6

\* An INSERT whose answer arrives keeps the invariant.
LEMMA InsertionKeeps ==
  ASSUME WriteConstants, WriteInv, NEW p \in Procs, Write!Insertion(p)
  PROVE  WriteInv'
<1> DEFINE d == doing[p]
           b == Write!Batch(d)
           t == Write!Inserted(d, b)
<1>1. /\ d.op \in {"one", "all"} /\ d.pc = "insert"
      /\ table' = t /\ lastId' = lastId + Write!Cardinality(Write!FreshAt(b))
      /\ vague' = IF Write!Clashes(b) = {} /\ d.conflict # "nothing" THEN vague
                  ELSE vague \cup Write!Range(b)
      /\ again' = again
  BY DEF Write!Insertion
<1>2. \/ d.conflict = "nothing" /\ value' = value
      \/ d.conflict # "nothing" /\ value' = Write!Returned(d, t, b)
      \/ d.conflict # "nothing" /\ \E id \in Write!LastInsertId(b) : value' = Write!Counted(b, id)
  BY DEF Write!Insertion
<1>3. PICK x \in {"refetch", "after"} : doing' = [doing EXCEPT ![p] = [d EXCEPT !.pc = x]]
  BY DEF Write!Insertion, Write!To
<1>4. /\ d \in InsertCalls /\ d.rows \in Seq(Values) /\ d.at \in 1 .. Len(d.rows)
      /\ b \in Seq(Values) /\ Len(b) >= 1
      /\ \A i, j \in 1 .. Len(b) : b[i] = b[j] => i = j
      /\ \A i \in 1 .. Len(b) : value[b[i]].pk = 0 \/ b[i] \in again
  BY <1>1, InsertUnderWay
<1>5. lastId \in Nat /\ KeysGiven /\ Owns /\ value = [v \in Values |-> value[v]]
  BY DEF WriteInv, WriteTypes
<1>6. \A v \in Values : "pk" \in DOMAIN value[v] /\ value[v].pk \in Int
  BY DEF WriteInv, WriteTypes
<1> HIDE DEF b, d, t
<1>7. /\ value' = [v \in Values |-> value'[v]]
      /\ \A v \in Values : "pk" \in DOMAIN value'[v] /\ value'[v].pk \in Int
      /\ \A v \in Values \ Write!Range(b) : value'[v] = value[v]
      /\ d.conflict # "nothing" /\ Write!Clashes(b) = {} =>
           \A i \in 1 .. Len(b) : value'[b[i]].pk = lastId + i
  <2>1. CASE d.conflict = "nothing" /\ value' = value
    BY <1>5, <1>6, <2>1
  <2>2. CASE value' = Write!Returned(d, t, b)
    BY ONLY <1>4, <1>5, <1>6, <2>2, KeysRead
  <2>3. CASE \E id \in Write!LastInsertId(b) : value' = Write!Counted(b, id)
    BY ONLY <1>4, <1>5, <1>6, <2>3, KeysRead
  <2> QED BY <1>2, <2>1, <2>2, <2>3
<1>8. vague \subseteq vague'
  BY <1>1
<1>9. \/ Write!Range(b) \subseteq vague'
      \/ Write!Clashes(b) = {} /\ \A i \in 1 .. Len(b) : value'[b[i]].pk = lastId + i
  BY <1>1, <1>7
<1>10. lastId' \in Nat /\ KeysGiven' /\ Owns'
  <2>1. table' = Write!Inserted(d, b)
    BY <1>1 DEF t
  <2>2. \A v \in Values \ Write!Range(b) : value'[v] = value[v]
    BY <1>7
  <2> QED BY <1>1, <1>4, <1>5, <1>8, <1>9, <2>1, <2>2, InsertOwns
<1>11. doing' \in [Procs -> WriteCalls] /\ HeldApart' /\ Unsent'
  <2> DEFINE c == [d EXCEPT !.pc = x]
  <2>1. /\ c \in InsertCalls /\ c.rows = d.rows /\ c.at = d.at
        /\ FirstUnsent(c) = d.at + Len(b)
    BY <1>4, PcChanges DEF b
  <2>2. /\ \A q \in Procs \ {p} : doing[q].op \in {"one", "all"} =>
             \A i \in DOMAIN doing[q].rows : doing[q].rows[i] \in Values \ Write!Range(b)
        /\ \A i \in DOMAIN d.rows :
             i >= d.at + Len(b) => d.rows[i] \in Values \ Write!Range(b)
    BY <1>1, BatchApart DEF b, d
  <2>3. ASSUME NEW i \in DOMAIN d.rows, i >= d.at + Len(b)
        PROVE  value'[d.rows[i]].pk = 0 \/ d.rows[i] \in again
    <3>1. value'[d.rows[i]] = value[d.rows[i]]
      BY <1>7, <2>2, <2>3
    <3>2. \A j \in DOMAIN d.rows : j >= d.at => value[d.rows[j]].pk = 0 \/ d.rows[j] \in again
      BY <1>1 DEF WriteInv, Unsent, FirstUnsent, d
    <3>3. i >= d.at
      BY <1>4, <2>3
    <3> QED BY <3>1, <3>2, <3>3
  <2>4. \A q \in Procs \ {p} : doing[q].op \in {"one", "all"} =>
          \A i \in DOMAIN doing[q].rows : value'[doing[q].rows[i]].pk = value[doing[q].rows[i]].pk
    BY <1>7, <2>2
  <2>5. doing' = [doing EXCEPT ![p] = c] /\ c.rows = doing[p].rows /\ c.at \in DOMAIN c.rows
    BY <1>3, <1>4, <2>1 DEF d
  <2>6. \A i \in DOMAIN c.rows :
          i >= FirstUnsent(c) => value'[c.rows[i]].pk = 0 \/ c.rows[i] \in again
    BY <2>1, <2>3
  <2> HIDE DEF c
  <2> QED BY <1>1, <2>1, <2>4, <2>5, <2>6, InsertGoesOn
<1> QED BY <1>7, <1>10, <1>11 DEF WriteInv, WriteTypes

\* An INSERT whose answer is lost keeps the invariant.
LEMMA AnswerLostKeeps ==
  ASSUME WriteConstants, WriteInv, NEW p \in Procs, Write!InsertAnswerLost(p)
  PROVE  WriteInv'
<1> DEFINE d == doing[p]
           b == Write!Batch(d)
<1>1. /\ d.op \in {"one", "all"} /\ d.pc = "insert"
      /\ table' = Write!Inserted(d, b)
      /\ lastId' = lastId + Write!Cardinality(Write!FreshAt(b))
      /\ vague' = vague \cup Write!Range(b) /\ value' = value /\ Write!Return(p)
      /\ again' = again
  BY DEF Write!InsertAnswerLost
<1>2. /\ b \in Seq(Values)
      /\ \A i, j \in 1 .. Len(b) : b[i] = b[j] => i = j
      /\ \A i \in 1 .. Len(b) : value[b[i]].pk = 0 \/ b[i] \in again
  BY <1>1, InsertUnderWay
<1>3. lastId \in Nat /\ KeysGiven /\ Owns
  BY DEF WriteInv, WriteTypes
<1>4. lastId' \in Nat /\ KeysGiven' /\ Owns'
  <2> HIDE DEF b, d
  <2>1. vague \subseteq vague' /\ Write!Range(b) \subseteq vague'
    BY <1>1
  <2>2. \A v \in Values \ Write!Range(b) : value'[v] = value[v]
    BY <1>1
  <2> QED BY <1>1, <1>2, <1>3, <2>1, <2>2, InsertOwns
<1>5. doing' \in [Procs -> WriteCalls] /\ HeldApart' /\ Unsent'
  BY <1>1, ReturnKeeps
<1> QED BY <1>1, <1>4, <1>5 DEF WriteInv, WriteTypes

\* Reading back the defaulted columns and running the AfterInsert hooks keep the
\* invariant.
LEMMA RefetchKeeps ==
  ASSUME WriteConstants, WriteInv, NEW p \in Procs, Write!Refetch(p)
  PROVE  WriteInv'
<1> DEFINE d == doing[p]
           v1 == d.rows[1]
<1>1. /\ d.op = "one" /\ d.pc = "refetch" /\ table' = table /\ lastId' = lastId /\ vague' = vague
      /\ again' = again
      /\ \/ /\ value' = [value EXCEPT ![v1].dflt = table[value[v1].pk].dflt]
            /\ doing' = [doing EXCEPT ![p] = [d EXCEPT !.pc = "after"]]
         \/ Write!Return(p) /\ value' = value
  BY DEF Write!Refetch, Write!To
<1>2. value = [v \in Values |-> value[v]]
  BY DEF WriteInv, WriteTypes
<1>3. \A v \in Values : "pk" \in DOMAIN value[v] /\ value[v].pk \in Int
  BY DEF WriteInv, WriteTypes
<1>4. /\ value' = [v \in Values |-> value'[v]]
      /\ \A v \in Values : "pk" \in DOMAIN value'[v] /\ value'[v].pk = value[v].pk
  <2>1. CASE value' = value
    BY <1>2, <1>3, <2>1
  <2>2. CASE value' = [value EXCEPT ![v1].dflt = table[value[v1].pk].dflt]
    <3> HIDE DEF v1
    <3>1. value' = [v \in Values |-> value'[v]]
      BY <1>2, <2>2
    <3>2. ASSUME NEW v \in Values PROVE "pk" \in DOMAIN value'[v] /\ value'[v].pk = value[v].pk
      <4>1. \/ value'[v] = value[v]
            \/ value'[v] = [value[v] EXCEPT !.dflt = table[value[v1].pk].dflt]
        BY <1>2, <2>2
      <4> QED BY <1>3, <4>1
    <3> QED BY <3>1, <3>2
  <2> QED BY <1>1, <2>1, <2>2
<1>5. lastId' \in Nat /\ KeysGiven' /\ Owns'
  <2>1. lastId \in Nat /\ KeysGiven /\ Owns
    BY DEF WriteInv, WriteTypes
  <2>2. lastId' \in Nat /\ KeysGiven'
    BY <1>1, <2>1 DEF KeysGiven
  <2> HIDE DEF d, v1
  <2>3. Owns'
    BY <1>1, <1>4, <2>1 DEF Owns
  <2> QED BY <2>2, <2>3
<1>6. doing' \in [Procs -> WriteCalls] /\ HeldApart' /\ Unsent'
  <2>1. CASE Write!Return(p)
    BY <1>1, <1>4, <2>1, ReturnKeeps
  <2>2. CASE doing' = [doing EXCEPT ![p] = [d EXCEPT !.pc = "after"]]
    <3> DEFINE c == [d EXCEPT !.pc = "after"]
    <3>1. d \in InsertCalls /\ d.rows \in Seq(Values) /\ d.at \in DOMAIN d.rows
      <4>1. d \in InsertCalls
        BY <1>1, CallKinds DEF WriteInv, WriteTypes
      <4> QED BY <1>1, <4>1 DEF InsertCalls, WriteInv, Unsent
    <3>2. c \in InsertCalls /\ c.rows = d.rows /\ c.at = d.at /\ FirstUnsent(c) = FirstUnsent(d)
      <4>1. FirstUnsent(d) = d.at + Len(Write!Batch(d))
        BY <1>1 DEF FirstUnsent
      <4> HIDE DEF d
      <4> QED BY <3>1, <4>1, PcChanges
    <3>3. \A i \in DOMAIN d.rows : i >= FirstUnsent(d) => value[d.rows[i]].pk = 0 \/ d.rows[i] \in again
      BY <1>1 DEF WriteInv, Unsent
    <3>4. \A i \in DOMAIN c.rows :
            i >= FirstUnsent(c) => value'[c.rows[i]].pk = 0 \/ c.rows[i] \in again
      BY <1>4, <3>1, <3>2, <3>3
    <3>5. ASSUME NEW q \in Procs \ {p}, doing[q].op \in {"one", "all"},
                 NEW i \in DOMAIN doing[q].rows
          PROVE  value'[doing[q].rows[i]].pk = value[doing[q].rows[i]].pk
      <4>1. doing[q].rows \in Seq(Values)
        BY <3>5, InsertUnderWay
      <4> QED BY <1>4, <4>1
    <3>6. doing' = [doing EXCEPT ![p] = c] /\ c.rows = doing[p].rows /\ c.at \in DOMAIN c.rows
      BY <2>2, <3>1, <3>2
    <3> HIDE DEF c, d
    <3> QED BY <1>1, <3>2, <3>4, <3>5, <3>6, InsertGoesOn
  <2> QED BY <1>1, <2>1, <2>2
<1> QED BY <1>3, <1>4, <1>5, <1>6 DEF WriteInv, WriteTypes

\* What else keeps the table and the keys.
LEMMA TableUntouched ==
  ASSUME WriteInv, table' = table, lastId' = lastId, value' = value, vague' = vague, again' = again,
         doing' \in [Procs -> WriteCalls], HeldApart', Unsent'
  PROVE  WriteInv'
BY DEF WriteInv, WriteTypes, KeysGiven, Owns

\* The AfterInsert hooks of a batch, and the next batch.
LEMMA AfterInsertKeeps ==
  ASSUME WriteConstants, WriteInv, NEW p \in Procs, Write!AfterInsert(p)
  PROVE  WriteInv'
<1> DEFINE d == doing[p]
           next == d.at + Len(Write!Batch(d))
           c == [d EXCEPT !.pc = "insert", !.at = next]
<1>1. /\ d.op \in {"one", "all"} /\ d.pc = "after"
      /\ table' = table /\ lastId' = lastId /\ value' = value /\ vague' = vague /\ again' = again
      /\ Write!Return(p) \/ (next <= Len(d.rows) /\ doing' = [doing EXCEPT ![p] = c])
  BY DEF Write!AfterInsert
<1>2. CASE Write!Return(p)
  BY <1>1, <1>2, ReturnKeeps, TableUntouched
<1>3. CASE next <= Len(d.rows) /\ doing' = [doing EXCEPT ![p] = c]
  <2>1. /\ d \in InsertCalls /\ d.rows \in Seq(Values) /\ d.at \in 1 .. Len(d.rows)
        /\ Write!Batch(d) \in Seq(Values)
    BY <1>1, InsertUnderWay
  <2>2. next \in Nat \ {0} /\ next \in DOMAIN d.rows
    BY <1>3, <2>1
  <2>3. c \in InsertCalls /\ c.rows = d.rows /\ c.at = next /\ c.pc = "insert"
    <3> HIDE DEF next
    <3> QED BY <2>1, <2>2 DEF InsertCalls
  <2>4. FirstUnsent(c) = next /\ FirstUnsent(d) = next
    BY <1>1, <2>3 DEF FirstUnsent
  <2>5. \A i \in DOMAIN d.rows : i >= FirstUnsent(d) => value[d.rows[i]].pk = 0 \/ d.rows[i] \in again
    BY <1>1 DEF WriteInv, Unsent
  <2>6. \A i \in DOMAIN c.rows :
          i >= FirstUnsent(c) => value'[c.rows[i]].pk = 0 \/ c.rows[i] \in again
    BY <1>1, <2>3, <2>4, <2>5
  <2>7. doing' = [doing EXCEPT ![p] = c] /\ c.rows = doing[p].rows /\ c.at \in DOMAIN c.rows
    BY <1>3, <2>2, <2>3
  <2> HIDE DEF c, d, next
  <2>8. doing' \in [Procs -> WriteCalls] /\ HeldApart' /\ Unsent'
    BY <1>1, <2>3, <2>6, <2>7, InsertGoesOn
  <2> QED BY <1>1, <2>8, TableUntouched
<1> QED BY <1>1, <1>2, <1>3

\* Update keeps the invariant: a value whose row is known writes its own row, and
\* any other takes the row from a value whose row is unknown from then on.
LEMMA UpdateKeeps ==
  ASSUME WriteInv, NEW p \in Procs, Write!Update(p)
  PROVE  WriteInv'
<1> DEFINE v == doing[p].rows[1]
           k == value[v].pk
<1>1. /\ doing[p].op = "update" /\ lastId' = lastId /\ value' = value /\ Write!Return(p)
      /\ again' = again
      /\ table' = IF k \in DOMAIN table
                  THEN [table EXCEPT ![k] = [of |-> v, dflt |-> value[v].dflt]] ELSE table
      /\ vague' = IF v \in vague /\ k \in DOMAIN table THEN vague \cup {table[k].of} ELSE vague
  BY DEF Write!Update
<1>2. v \in Values
  <2>1. doing[p] \in UpdateCalls
    BY <1>1, CallKinds DEF WriteInv, WriteTypes
  <2>2. doing[p].rows \in Seq(Values) /\ doing[p].rows # <<>>
    BY <2>1 DEF UpdateCalls
  <2> QED BY <2>2
<1>3. doing' \in [Procs -> WriteCalls] /\ HeldApart' /\ Unsent'
  BY <1>1, ReturnKeeps
<1> HIDE DEF v, k
<1>4. CASE k \notin DOMAIN table
  <2>1. table' = table /\ vague' = vague
    BY <1>1, <1>4
  <2> QED BY <1>1, <1>3, <2>1, TableUntouched
<1>5. CASE k \in DOMAIN table
  <2>1. DOMAIN table' = DOMAIN table /\ table'[k].of = v
    BY <1>1, <1>5
  <2>2. \A n \in DOMAIN table : n # k => table'[n] = table[n]
    BY <1>1, <1>5
  <2>3. ASSUME NEW w \in Values \ vague', NEW n \in DOMAIN table
        PROVE  table'[n].of = w <=> table[n].of = w
    <3>1. CASE n # k
      BY <2>2, <3>1
    <3>2. CASE n = k /\ v \in vague
      <4>1. w # v /\ w # table[k].of
        BY <1>1, <1>5, <3>2
      <4> QED BY <2>1, <3>2, <4>1
    <3>3. CASE n = k /\ v \notin vague
      <4>1. table[k].of = v
        BY <1>2, <1>5, <3>3 DEF WriteInv, Owns, k
      <4> QED BY <2>1, <3>3, <4>1
    <3> QED BY <3>1, <3>2, <3>3
  <2>4. \A w \in Values \ vague' : w \in Values \ vague
    BY <1>1
  <2>5. Owns'
    BY <1>1, <2>1, <2>3, <2>4 DEF WriteInv, Owns
  <2>6. KeysGiven'
    BY <1>1, <2>1 DEF WriteInv, KeysGiven
  <2> QED BY <1>1, <1>3, <2>5, <2>6 DEF WriteInv, WriteTypes
<1> QED BY <1>4, <1>5

\* Delete keeps the invariant.
LEMMA DeleteKeeps ==
  ASSUME WriteInv, NEW p \in Procs, Write!Fetch(p) \/ Write!Delete(p)
  PROVE  WriteInv'
<1>1. CASE Write!Fetch(p)
  <2>1. /\ doing[p].op = "delete" /\ table' = table /\ lastId' = lastId /\ value' = value
        /\ vague' = vague /\ again' = again
        /\ Write!Return(p) \/ doing' = [doing EXCEPT ![p] = [doing[p] EXCEPT !.pc = "delete"]]
    BY <1>1 DEF Write!Fetch, Write!To
  <2>2. CASE Write!Return(p)
    BY <2>1, <2>2, ReturnKeeps, TableUntouched
  <2>3. CASE doing' = [doing EXCEPT ![p] = [doing[p] EXCEPT !.pc = "delete"]]
    <3> DEFINE c == [doing[p] EXCEPT !.pc = "delete"]
    <3>1. doing \in [Procs -> WriteCalls] /\ Unsent
      BY DEF WriteInv, WriteTypes
    <3>2. doing[p] \in DeleteCalls
      BY <2>1, <3>1, CallKinds
    <3>3. c \in DeleteCalls /\ c.rows = <<>> /\ c.op = "delete"
      BY <3>2 DEF DeleteCalls
    <3>4. c \in WriteCalls
      BY <3>3 DEF WriteCalls
    <3> HIDE DEF c
    <3>5. doing' = [doing EXCEPT ![p] = c]
      BY <2>3 DEF c
    <3>6. doing' \in [Procs -> WriteCalls] /\ HeldApart'
      BY <3>3, <3>4, <3>5, CallShrinks
    <3>7. \A q \in Procs : doing'[q].op \in {"one", "all"} => doing'[q] = doing[q]
      BY <3>1, <3>3, <3>5
    <3>8. \A q \in Procs : FirstUnsent(doing[q])' = FirstUnsent(doing'[q])
      BY DEF FirstUnsent, Write!Batch
    <3>9. Unsent'
      BY <2>1, <3>1, <3>7, <3>8 DEF Unsent
    <3> QED BY <2>1, <3>6, <3>9, TableUntouched
  <2> QED BY <2>1, <2>2, <2>3
<1>2. CASE Write!Delete(p)
  <2>1. /\ table' = Write!Restrict(table, DOMAIN table \ {doing[p].key})
        /\ lastId' = lastId /\ value' = value /\ vague' = vague /\ again' = again /\ Write!Return(p)
    BY <1>2 DEF Write!Delete, Write!Without
  <2>2. /\ DOMAIN table' \subseteq DOMAIN table
        /\ \A n \in DOMAIN table' : table'[n] = table[n]
    BY <2>1 DEF Write!Restrict
  <2>3. doing' \in [Procs -> WriteCalls] /\ HeldApart' /\ Unsent'
    BY <2>1, ReturnKeeps
  <2>4. Owns'
    <3>1. ASSUME NEW w \in Values \ vague
          PROVE  \A n \in DOMAIN table' :
                   /\ table'[n].of = w => n <= value[w].pk /\ (w \notin again => n = value[w].pk)
                   /\ n = value[w].pk => table'[n].of = w
      <4>1. \A n \in DOMAIN table :
              /\ table[n].of = w => n <= value[w].pk /\ (w \notin again => n = value[w].pk)
              /\ n = value[w].pk => table[n].of = w
        BY <3>1 DEF WriteInv, Owns
      <4>2. ASSUME NEW n \in DOMAIN table' PROVE n \in DOMAIN table /\ table'[n] = table[n]
        BY <2>2
      <4> QED BY ONLY <4>1, <4>2
    <3>2. \A w \in Values \ vague : value[w].pk \in 0 .. lastId
      BY DEF WriteInv, Owns
    <3> QED BY <2>1, <3>1, <3>2 DEF Owns
  <2>5. KeysGiven'
    BY <2>1, <2>2 DEF WriteInv, KeysGiven
  <2> QED BY <2>1, <2>3, <2>4, <2>5 DEF WriteInv, WriteTypes
<1> QED BY <1>1, <1>2

\* Calls that fail keep the invariant.
LEMMA WriteFailureKeeps ==
  ASSUME WriteInv, NEW p \in Procs, Write!InsertFails(p) \/ Write!WriteFails(p)
  PROVE  WriteInv'
<1>1. /\ table' = table /\ lastId' = lastId /\ value' = value /\ vague' = vague /\ again' = again
      /\ Write!Return(p)
  BY DEF Write!InsertFails, Write!WriteFails
<1> QED BY <1>1, ReturnKeeps, TableUntouched

\* The batches CreateAll can be given: sequences of values without repetition.
LEMMA Permutations ==
  ASSUME IsFiniteSet(Values), NEW b \in Write!SetToAllKPermutations(Values)
  PROVE  b \in Seq(Values) /\ \A i, j \in DOMAIN b : b[i] = b[j] => i = j
<1>1. PICK S \in SUBSET Values : b \in Write!SetToSeqs(S)
  BY DEF Write!SetToAllKPermutations
<1>2. Write!Cardinality(S) \in Nat
  BY WriteCardinality, FS_Subset, FS_CardinalityType
<1> DEFINE D == 1 .. Write!Cardinality(S)
<1>3. b \in [D -> S] /\ \A i, j \in D : i # j => b[i] # b[j]
  BY <1>1 DEF Write!SetToSeqs
<1>4. b \in Seq(Values)
  BY <1>2, <1>3
<1> QED BY <1>3, <1>4

\* A call keeps the invariant, whichever it is.
LEMMA StartKeeps ==
  ASSUME WriteConstants, WriteInv, NEW p \in Procs, Write!Start(p)
  PROVE  WriteInv'
<1>1. \A v \in Values : value[v].pk \in Int
  BY DEF WriteInv, WriteTypes
<1>2. \A c \in Write!Conflict : c \in {"fail", "nothing", "update"}
  BY DEF Write!Conflict
<1>3. ASSUME NEW op \in {"one", "all"}, NEW b \in Seq(Values), b # <<>>, NEW x \in Write!Conflict,
             \A i, j \in DOMAIN b : b[i] = b[j] => i = j, Write!Insert(p, op, b, x)
      PROVE  WriteInv'
  <2> DEFINE c == [op |-> op, rows |-> b, pc |-> "insert", at |-> 1, conflict |-> x]
  <2>1. c \in InsertCalls /\ c.rows = b /\ c.pc = "insert" /\ c.at = 1
    BY <1>2, <1>3 DEF InsertCalls
  <2>2. c \in WriteCalls
    BY <2>1 DEF WriteCalls
  <2>3. Write!Call(p, c)
    BY <1>3 DEF Write!Insert
  <2> HIDE DEF c
  <2> QED BY <1>3, <2>1, <2>2, <2>3, CallKeeps
<1>4. ASSUME NEW v \in Values, NEW x \in Write!Conflict, Write!Insert(p, "one", <<v>>, x)
      PROVE  WriteInv'
  <2>1. <<v>> \in Seq(Values) /\ <<v>> # <<>> /\ DOMAIN <<v>> = {1} /\ <<v>>[1] = v
    OBVIOUS
  <2> QED BY <1>3, <1>4, <2>1
<1>5. ASSUME NEW v \in Values, Write!Call(p, [op |-> "update", rows |-> <<v>>, pc |-> "update"])
      PROVE  WriteInv'
  <2> DEFINE c == [op |-> "update", rows |-> <<v>>, pc |-> "update"]
  <2>1. c \in UpdateCalls /\ c \notin InsertCalls /\ DOMAIN c.rows = {1}
    BY DEF UpdateCalls, InsertCalls
  <2>2. c \in WriteCalls
    BY <2>1 DEF WriteCalls
  <2>3. \A i, j \in DOMAIN c.rows : c.rows[i] = c.rows[j] => i = j
    BY <2>1
  <2>4. Write!Call(p, c)
    BY <1>5
  <2> HIDE DEF c
  <2> QED BY <2>1, <2>2, <2>3, <2>4, CallKeeps
<1>6. ASSUME NEW v \in Values, NEW x \in {"fetch", "delete"},
             Write!Call(p, [op |-> "delete", rows |-> <<>>, pc |-> x, key |-> value[v].pk])
      PROVE  WriteInv'
  <2> DEFINE c == [op |-> "delete", rows |-> <<>>, pc |-> x, key |-> value[v].pk]
  <2>1. c \in DeleteCalls /\ c \notin InsertCalls /\ c.rows = <<>>
    BY <1>1 DEF DeleteCalls, InsertCalls
  <2>2. c \in WriteCalls
    BY <2>1 DEF WriteCalls
  <2>3. \A i, j \in DOMAIN c.rows : c.rows[i] = c.rows[j] => i = j
    BY <2>1
  <2>4. Write!Call(p, c)
    BY <1>6
  <2> HIDE DEF c
  <2> QED BY <2>1, <2>2, <2>3, <2>4, CallKeeps
<1>7. ASSUME NEW b \in Write!SetToAllKPermutations(Values), Len(b) > 1,
             NEW x \in Write!Conflict, Write!Insert(p, "all", b, x)
      PROVE  WriteInv'
  <2>1. b \in Seq(Values) /\ \A i, j \in DOMAIN b : b[i] = b[j] => i = j
    BY Permutations DEF WriteConstants
  <2>2. b # <<>>
    BY <1>7
  <2> QED BY <1>3, <1>7, <2>1, <2>2
<1> QED BY <1>4, <1>5, <1>6, <1>7 DEF Write!Start

\* Every step keeps the invariant.
LEMMA WriteStep ==
  ASSUME WriteConstants, WriteInv, [Write!Next]_writeVars PROVE WriteInv'
<1>1. CASE UNCHANGED writeVars
  <2>1. /\ table' = table /\ lastId' = lastId /\ value' = value /\ vague' = vague
        /\ doing' = doing /\ again' = again
    BY <1>1 DEF writeVars
  <2>2. \A q \in Procs : FirstUnsent(doing[q])' = FirstUnsent(doing'[q])
    BY DEF FirstUnsent, Write!Batch
  <2>3. doing' \in [Procs -> WriteCalls] /\ HeldApart' /\ Unsent'
    BY <2>1, <2>2 DEF WriteInv, WriteTypes, HeldApart, Unsent
  <2> QED BY <2>1, <2>3, TableUntouched
<1>2. CASE Write!Next
  <2>1. PICK p \in Procs :
          \/ Write!Start(p)
          \/ Write!Insertion(p) \/ Write!InsertFails(p) \/ Write!InsertAnswerLost(p)
          \/ Write!Refetch(p) \/ Write!AfterInsert(p)
          \/ Write!Update(p) \/ Write!Fetch(p) \/ Write!Delete(p) \/ Write!WriteFails(p)
    BY <1>2 DEF Write!Next
  <2> QED BY <2>1, StartKeeps, InsertionKeeps, AnswerLostKeeps, RefetchKeeps, AfterInsertKeeps,
             UpdateKeeps, DeleteKeeps, WriteFailureKeeps
<1> QED BY <1>1, <1>2

\* However many goroutines create, save, update and delete, and whatever fails or
\* is retried, a Go value carries the key of the newest row written from it, and
\* there are older ones only if Create or CreateAll was called of a value that had
\* a key; unless the program cannot know its row (create.go, create_all.go): for
\* any number of goroutines, values, calls and faults, and any batch size.
THEOREM ValuesOwnTheirRows == ASSUME WriteConstants PROVE Write!Spec => []OwnRow
<1>1. Write!Init => WriteInv
  <2> SUFFICES ASSUME Write!Init PROVE WriteInv
    OBVIOUS
  <2>1. /\ table = <<>> /\ lastId = 0 /\ vague = {}
        /\ value = [v \in Values |-> [pk |-> 0, dflt |-> 0]]
        /\ doing = [p \in Procs |-> Write!Idle]
    BY DEF Write!Init
  <2>2. DOMAIN table = {}
    BY <2>1
  <2>3. \A p \in Procs : doing[p] \in WriteCalls /\ doing[p].rows = <<>> /\ doing[p].op = "idle"
    BY <2>1 DEF Write!Idle, WriteCalls
  <2>4. WriteTypes
    BY <2>1, <2>3 DEF WriteTypes
  <2>5. HeldApart /\ Unsent
    BY <2>3 DEF HeldApart, Unsent
  <2>6. KeysGiven /\ Owns
    BY <2>1, <2>2 DEF KeysGiven, Owns
  <2> QED BY <2>4, <2>5, <2>6 DEF WriteInv
<1>2. WriteInv /\ [Write!Next]_writeVars => WriteInv'
  BY WriteStep
<1>3. WriteInv => OwnRow
  <2> SUFFICES ASSUME WriteInv, NEW v \in Values \ vague
               PROVE  /\ Write!RowsOf(v) \subseteq 1 .. value[v].pk
                      /\ value[v].pk \in DOMAIN table => table[value[v].pk].of = v
                      /\ v \notin again => Write!RowsOf(v) \subseteq {value[v].pk}
    BY DEF OwnRow, Write!OwnRow
  <2>1. /\ value[v].pk \in Nat
        /\ \A k \in DOMAIN table :
             /\ table[k].of = v => k <= value[v].pk /\ (v \notin again => k = value[v].pk)
             /\ k = value[v].pk => table[k].of = v
    BY DEF WriteInv, WriteTypes, Owns
  <2>2. \A k \in DOMAIN table : k \in Nat /\ k >= 1
    BY DEF WriteInv, WriteTypes, KeysGiven
  <2> QED BY <2>1, <2>2 DEF Write!RowsOf
<1> QED BY <1>1, <1>2, <1>3, PTL DEF Write!Spec, Write!vars, writeVars

-----------------------------------------------------------------------------
(* Preload: each parent is given its own children                             *)

\* A set read in increasing order, each of its numbers once.
InOrder(S, q) ==
  q \in [1 .. Cardinality(S) -> S] /\ \A i, j \in DOMAIN q : i < j => q[i] < q[j]

\* Every set of positions can be read in increasing order.
LEMMA InOrderExists ==
  ASSUME NEW n \in Nat, NEW S \in SUBSET (1 .. n)
  PROVE  \E q : InOrder(S, q)
<1> DEFINE Bad == {m \in Nat : \E T \in SUBSET (1 .. m) : ~ \E q : InOrder(T, q)}
<1> SUFFICES ASSUME Bad # {} PROVE FALSE
  OBVIOUS
<1>1. PICK m \in Bad : \A k \in Bad : m <= k
  <2>1. Bad \in SUBSET Nat
    OBVIOUS
  <2> HIDE DEF Bad
  <2> QED BY <2>1, SmallestExists
<1>2. m \in Nat
  OBVIOUS
<1>3. PICK T \in SUBSET (1 .. m) : ~ \E q : InOrder(T, q)
  OBVIOUS
<1>4. IsFiniteSet(T)
  <2>1. IsFiniteSet(1 .. m)
    BY <1>2, FS_Interval
  <2> QED BY <2>1, FS_Subset
<1>5. T # {}
  <2> SUFFICES ASSUME T = {} PROVE InOrder(T, <<>>)
    BY <1>3
  <2>1. Cardinality(T) = 0
    BY FS_EmptySet
  <2> QED BY <2>1 DEF InOrder
<1>6. m # 0 /\ m - 1 \in Nat
  <2>1. PICK x \in T : TRUE
    BY <1>5
  <2>2. x \in 1 .. m
    OBVIOUS
  <2> HIDE DEF Bad
  <2> QED BY ONLY <1>2, <2>2
<1>7. m - 1 \notin Bad
  <2> HIDE DEF Bad
  <2>1. ~ (m <= m - 1)
    BY <1>2
  <2> QED BY <1>1, <2>1
<1>8. \A U \in SUBSET (1 .. (m - 1)) : \E q : InOrder(U, q)
  BY <1>6, <1>7
<1>9. m \in T
  <2> SUFFICES ASSUME m \notin T PROVE FALSE
    OBVIOUS
  <2>1. T \in SUBSET (1 .. (m - 1))
    BY <1>2
  <2> QED BY <1>3, <1>8, <2>1
<1> DEFINE U == T \ {m}
<1>10. U \in SUBSET (1 .. (m - 1))
  BY <1>2
<1>11. PICK q : InOrder(U, q)
  BY <1>8, <1>10
<1>12. Cardinality(T) \in Nat /\ Cardinality(T) # 0 /\ Cardinality(U) = Cardinality(T) - 1
  BY <1>4, <1>5, <1>9, FS_CardinalityType, FS_EmptySet, FS_RemoveElement
<1> DEFINE c == Cardinality(T)
           r == [i \in 1 .. c |-> IF i = c THEN m ELSE q[i]]
<1> HIDE DEF Bad, U, c
<1>13. q \in [1 .. (c - 1) -> U] /\ \A i, j \in 1 .. (c - 1) : i < j => q[i] < q[j]
  BY <1>11, <1>12 DEF InOrder, c
<1>14. c \in Nat /\ c >= 1
  BY <1>12 DEF c
<1>15. \A i \in 1 .. c : i # c => i \in 1 .. (c - 1)
  BY <1>14
<1>16. \A u \in U : u \in T /\ u < m /\ u \in Nat
  BY <1>2, <1>10 DEF U
<1>17. r \in [1 .. c -> T]
  BY <1>9, <1>13, <1>15, <1>16
<1>18. ASSUME NEW i \in 1 .. c, NEW j \in 1 .. c, i < j PROVE r[i] < r[j]
  <2>1. i # c /\ i \in 1 .. (c - 1) /\ r[i] = q[i] /\ q[i] \in U
    BY <1>13, <1>14, <1>15, <1>18
  <2>2. CASE j = c
    BY <1>16, <2>1, <2>2
  <2>3. CASE j # c
    BY <1>13, <1>15, <1>18, <2>1, <2>3
  <2> QED BY <2>2, <2>3
<1>19. InOrder(T, r)
  BY <1>17, <1>18 DEF InOrder, c
<1> HIDE DEF r
<1> QED BY <1>3, <1>19

\* The cardinality that Preload speaks of.
LEMMA PreCardinality == ASSUME NEW S PROVE Pre!Cardinality(S) = Cardinality(S)
  BY DEF Pre!Cardinality, Cardinality

\* What a query returns: every row of the set, and each once.
LEMMA ScannedIs ==
  ASSUME NEW n \in Nat, NEW S \in SUBSET (1 .. n)
  PROVE  /\ Pre!Scanned(S) \in Seq(S) /\ Len(Pre!Scanned(S)) = Cardinality(S)
         /\ Pre!Range(Pre!Scanned(S)) = S
<1> DEFINE q == Pre!Scanned(S)
           c == Cardinality(S)
<1>1. IsFiniteSet(S)
  <2>1. IsFiniteSet(1 .. n)
    BY FS_Interval
  <2> QED BY <2>1, FS_Subset
<1>2. c \in Nat
  BY <1>1, FS_CardinalityType
<1>3. \E r \in [1 .. Pre!Cardinality(S) -> S] : \A i, j \in DOMAIN r : i < j => r[i] < r[j]
  BY InOrderExists, PreCardinality DEF InOrder
<1>4. q \in [1 .. c -> S] /\ \A i, j \in DOMAIN q : i < j => q[i] < q[j]
  BY <1>3, PreCardinality DEF Pre!Scanned
<1> HIDE DEF q
<1>5. \A i, j \in 1 .. c : q[i] = q[j] => i = j
  <2> HIDE DEF c
  <2>1. \A i \in 1 .. c : q[i] \in Nat
    <3>1. \A s \in S : s \in Nat
      OBVIOUS
    <3> QED BY ONLY <1>4, <3>1
  <2> QED BY <1>2, <1>4, <2>1
<1>6. q \in Injection(1 .. c, S)
  BY <1>4, <1>5 DEF Injection, IsInjective
<1>7. IsFiniteSet(1 .. c) /\ Cardinality(1 .. c) = c
  BY <1>2, FS_Interval
<1>8. q \in Surjection(1 .. c, S)
  BY <1>1, <1>6, <1>7, FS_Injection
<1>9. \A s \in S : \E i \in 1 .. c : q[i] = s
  BY <1>8 DEF Surjection
<1>10. Pre!Range(q) = S
  BY <1>4, <1>9 DEF Pre!Range
<1>11. q \in Seq(S) /\ Len(q) = c
  <2> HIDE DEF c
  <2> QED BY <1>2, <1>4
<1> QED BY <1>10, <1>11 DEF q

\* The keys under which parent i waits for children: its own, if it has one.
LEMMA ParentKey ==
  ASSUME NEW i \in DOMAIN parents
  PROVE  {k \in DOMAIN Pre!KeyToParents : i \in Pre!KeyToParents[k]}
           = IF parents[i] # 0 THEN {Pre!GoKey("parent", parents[i], i)} ELSE {}
<1> DEFINE used == {j \in DOMAIN parents : parents[j] # 0}
           ks == {k \in DOMAIN Pre!KeyToParents : i \in Pre!KeyToParents[k]}
           own == Pre!GoKey("parent", parents[i], i)
<1>1. DOMAIN Pre!KeyToParents = {Pre!GoKey("parent", parents[j], j) : j \in used}
  BY DEF Pre!KeyToParents
<1>2. \A k \in DOMAIN Pre!KeyToParents :
        Pre!KeyToParents[k] = {j \in used : Pre!GoKey("parent", parents[j], j) = k}
  BY DEF Pre!KeyToParents
<1>3. \A k \in ks : i \in used /\ own = k
  BY <1>2
<1>4. parents[i] # 0 => own \in ks
  BY <1>1, <1>2
<1> HIDE DEF ks, own
<1>5. parents[i] = 0 => ks = {}
  BY <1>3
<1>6. parents[i] # 0 => ks = {own}
  BY <1>3, <1>4
<1> QED BY <1>5, <1>6 DEF ks, own

\* The children that the key of parent i finds: none but its own, and all of them
\* where neither key is a pointer.
LEMMA ChildrenFound ==
  ASSUME NEW i \in DOMAIN parents, parents[i] # 0, nullable \in {"neither", "parent", "child"}
  PROVE  LET C == {j \in Pre!Children : Pre!GoKey("child", related[j].key, j)
                                          = Pre!GoKey("parent", parents[i], i)}
         IN  C \subseteq Pre!Owned(i) /\ (nullable = "neither" => C = Pre!Owned(i))
<1> DEFINE C == {j \in Pre!Children : Pre!GoKey("child", related[j].key, j)
                                        = Pre!GoKey("parent", parents[i], i)}
<1>1. CASE nullable = "neither"
  <2>1. \A j : Pre!GoKey("child", related[j].key, j) = Pre!GoKey("parent", parents[i], i)
               <=> related[j].key = parents[i]
    BY <1>1 DEF Pre!GoKey
  <2>2. \A j \in DOMAIN related : related[j].key = parents[i] =>
          related[j].key \in {parents[n] : n \in DOMAIN parents} \ {0}
    OBVIOUS
  <2>3. ASSUME NEW j \in C PROVE j \in Pre!Owned(i)
    BY <2>1 DEF Pre!Children, Pre!Owned
  <2>4. ASSUME NEW j \in Pre!Owned(i) PROVE j \in C
    BY <2>1, <2>2 DEF Pre!Children, Pre!Owned
  <2> HIDE DEF C
  <2>5. C = Pre!Owned(i)
    BY <2>3, <2>4
  <2> QED BY <2>5 DEF C
<1>2. CASE nullable # "neither"
  <2>1. \A j : Pre!GoKey("child", related[j].key, j) # Pre!GoKey("parent", parents[i], i)
    BY <1>2 DEF Pre!GoKey
  <2>2. C = {}
    BY <2>1
  <2> QED BY <1>2, <2>2
<1> QED BY <1>1, <1>2

\* What the preload reads, and what it has attached.
PreInv ==
  /\ \E n \in Nat : DOMAIN related = 1 .. n
  /\ nullable \in {"neither", "parent", "child"}
  /\ slice \in BOOLEAN
  /\ PreloadAttaches

\* A parent is given the rows its key finds.
LEMMA GivenIs ==
  ASSUME PreInv, Pre!runPreload, NEW i \in DOMAIN parents
  PROVE  LET kids == IF parents[i] = 0 THEN <<>>
                     ELSE Pre!ChildrenByKey(Pre!GoKey("parent", parents[i], i))
         IN  given'[i] = IF slice \/ kids = <<>> THEN kids ELSE <<kids[1]>>
<1> DEFINE ks == {k \in DOMAIN Pre!KeyToParents : i \in Pre!KeyToParents[k]}
           own == Pre!GoKey("parent", parents[i], i)
           found == IF ks = {} THEN <<>> ELSE Pre!ChildrenByKey(CHOOSE k \in ks : TRUE)
           kids == IF parents[i] = 0 THEN <<>> ELSE Pre!ChildrenByKey(own)
<1>1. given'[i] = IF slice \/ found = <<>> THEN found ELSE <<found[1]>>
  BY DEF Pre!runPreload
<1>2. ks = IF parents[i] # 0 THEN {own} ELSE {}
  BY ParentKey
<1> HIDE DEF ks, own
<1>3. found = kids
  BY <1>2
<1> QED BY <1>1, <1>3 DEF own

\* A preload attaches to a parent what is its own.
LEMMA AttachedToOne ==
  ASSUME PreInv, Pre!runPreload, NEW i \in DOMAIN parents
  PROVE  /\ Pre!Range(given'[i]) \subseteq Pre!Owned(i)
         /\ nullable = "neither" =>
              /\ slice => /\ Pre!Range(given'[i]) = Pre!Owned(i)
                          /\ Len(given'[i]) = Pre!Cardinality(Pre!Owned(i))
              /\ ~slice => (given'[i] = <<>>) = (Pre!Owned(i) = {})
<1> DEFINE own == Pre!GoKey("parent", parents[i], i)
           C == {j \in Pre!Children : Pre!GoKey("child", related[j].key, j) = own}
<1>0. slice \in BOOLEAN /\ nullable \in {"neither", "parent", "child"}
  BY DEF PreInv
<1>1. CASE parents[i] = 0
  <2>1. given'[i] = <<>>
    BY <1>1, GivenIs
  <2>2. Pre!Owned(i) = {}
    BY <1>1 DEF Pre!Owned
  <2>3. Pre!Range(<<>>) = {} /\ Len(<<>>) = 0 /\ Pre!Cardinality({}) = 0
    BY PreCardinality, FS_EmptySet DEF Pre!Range
  <2> QED BY <2>1, <2>2, <2>3
<1>2. CASE parents[i] # 0
  <2> DEFINE kids == Pre!Scanned(C)
  <2>1. C \subseteq Pre!Owned(i) /\ (nullable = "neither" => C = Pre!Owned(i))
    BY <1>0, <1>2, ChildrenFound
  <2>2. PICK n \in Nat : DOMAIN related = 1 .. n
    BY DEF PreInv
  <2>3. C \in SUBSET (1 .. n)
    BY <2>2 DEF Pre!Children
  <2>4. given'[i] = IF slice \/ kids = <<>> THEN kids ELSE <<kids[1]>>
    BY <1>2, GivenIs DEF Pre!ChildrenByKey
  <2> HIDE DEF C
  <2>5. kids \in Seq(C) /\ Len(kids) = Cardinality(C) /\ Pre!Range(kids) = C
    BY <2>3, ScannedIs
  <2>6. kids = <<>> <=> C = {}
    <3>1. C = {} => Len(kids) = 0
      BY <2>5, FS_EmptySet
    <3>2. kids = <<>> => C = {}
      BY <2>5 DEF Pre!Range
    <3> HIDE DEF kids
    <3>3. Len(kids) = 0 => kids = <<>>
      BY <2>5
    <3> QED BY <3>1, <3>2, <3>3
  <2> HIDE DEF kids
  <2>7. CASE slice \/ kids = <<>>
    <3>1. given'[i] = kids
      BY <2>4, <2>7
    <3>2. Pre!Range(given'[i]) = C /\ Len(given'[i]) = Pre!Cardinality(C)
      BY <2>5, <3>1, PreCardinality
    <3> QED BY <2>1, <2>6, <3>1, <3>2
  <2>8. CASE ~slice /\ kids # <<>>
    <3>1. given'[i] = <<kids[1]>>
      BY <2>4, <2>8
    <3>2. kids[1] \in C
      BY <2>5, <2>8
    <3>3. Pre!Range(<<kids[1]>>) = {kids[1]} /\ <<kids[1]>> # <<>>
      BY DEF Pre!Range
    <3>4. Pre!Owned(i) # {}
      BY <2>1, <3>2
    <3> QED BY <2>1, <2>8, <3>1, <3>2, <3>3, <3>4
  <2> QED BY <2>7, <2>8
<1> QED BY <1>1, <1>2

\* One query for all the parents gives each of them its own children (runPreload),
\* for any number of parents and rows and any keys.
THEOREM ChildrenAttached == Pre!Spec => []PreloadAttaches
<1>1. Pre!Init => PreInv
  <2> SUFFICES ASSUME Pre!Init PROVE PreInv
    OBVIOUS
  <2>1. given = <<>> /\ nullable \in {"neither", "parent", "child"} /\ slice \in BOOLEAN
    BY DEF Pre!Init
  <2>2. PreloadAttaches
    BY <2>1 DEF PreloadAttaches, Pre!PreloadAttaches
  <2>3. PICK n \in 0 .. MaxChildren : related \in [1 .. n -> [key : Keys, wanted : BOOLEAN]]
    BY DEF Pre!Init, Pre!SeqsUpTo
  <2>4. n \in Nat /\ DOMAIN related = 1 .. n
    BY <2>3
  <2> QED BY <2>1, <2>2, <2>4 DEF PreInv
<1>2. PreInv /\ [Pre!Next]_preloadVars => PreInv'
  <2> SUFFICES ASSUME PreInv, [Pre!Next]_preloadVars PROVE PreInv'
    OBVIOUS
  <2>1. CASE UNCHANGED preloadVars
    <3>1. PreloadAttaches' = PreloadAttaches
      BY <2>1 DEF preloadVars, PreloadAttaches, Pre!PreloadAttaches, Pre!Owned, Pre!Range
    <3> QED BY <2>1, <3>1 DEF preloadVars, PreInv
  <2>2. CASE Pre!runPreload
    <3>1. /\ related' = related /\ nullable' = nullable /\ slice' = slice /\ parents' = parents
          /\ DOMAIN given' = DOMAIN parents
      BY <2>2 DEF Pre!runPreload
    <3>2. \A i \in DOMAIN given' :
            /\ Pre!Range(given'[i]) \subseteq Pre!Owned(i)
            /\ nullable = "neither" =>
                 /\ slice => /\ Pre!Range(given'[i]) = Pre!Owned(i)
                             /\ Len(given'[i]) = Pre!Cardinality(Pre!Owned(i))
                 /\ ~slice => (given'[i] = <<>>) = (Pre!Owned(i) = {})
      BY <2>2, <3>1, AttachedToOne
    <3>3. \A i \in DOMAIN parents : Pre!Owned(i)' = Pre!Owned(i)
      BY <3>1 DEF Pre!Owned
    <3>4. PreloadAttaches'
      BY <3>1, <3>2, <3>3 DEF PreloadAttaches, Pre!PreloadAttaches
    <3> QED BY <3>1, <3>4 DEF PreInv
  <2> QED BY <2>1, <2>2 DEF Pre!Next
<1>3. PreInv => PreloadAttaches
  BY DEF PreInv
<1> QED BY <1>1, <1>2, <1>3, PTL DEF Pre!Spec, Pre!vars, preloadVars
=============================================================================
