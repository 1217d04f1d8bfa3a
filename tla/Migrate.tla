------------------------------- MODULE Migrate ------------------------------
(* The migration runner (pack/migrate/runner.go) and the DDL a migration is   *)
(* made of (migrate.go, column.go, index.go, constraint.go).  Processes run   *)
(* Up and Down against one database, each statement a step that may fail, and *)
(* may die at any point.  A migration either creates an object, which fails   *)
(* if it is there, and drops it with the check that makes that a no-op if it  *)
(* is not; or it changes data, which can be done twice.                       *)
EXTENDS Naturals, FiniteSets, FiniteSetsExt

CONSTANTS
  Runners,                    \* processes
  N,                          \* migrations, by ID
  MaxMigrateRuns,             \* bound: calls of Up and Down
  MaxMigrateFaults            \* bound: failures, deaths and clocks that differ

VARIABLES
  ddl,                        \* the migrations create objects
  hasTable,                   \* schema_migrations exists
  record,                     \* migration |-> its AppliedAt, 0 for no row
  effect,                     \* migration |-> times its change is in force
  run,                        \* process |-> its call
  now, runs, migrateFaults,
  overlapped,                 \* the calls that were under way with another
  torn,                       \* a call ended between a change and its record
  skewed                      \* a process wrote a time before another's

vars == <<ddl, hasTable, record, effect, run, now, runs, migrateFaults, overlapped, torn, skewed>>

Migrations == 1..N
NotRunning == [op |-> "none", pc |-> "idle", applied |-> {}, at |-> 0]
Recorded == {m \in Migrations : record[m] # 0}

ghosts == <<overlapped, torn, skewed>>
counters == <<now, runs, migrateFaults>>

Init ==
  /\ ddl \in BOOLEAN /\ hasTable = FALSE
  /\ record = [m \in Migrations |-> 0] /\ effect = [m \in Migrations |-> 0]
  /\ run = [r \in Runners |-> NotRunning]
  /\ now = 0 /\ runs = 0 /\ migrateFaults = 0
  /\ overlapped = {} /\ torn = FALSE /\ skewed = FALSE

To(r, pc) == run' = [run EXCEPT ![r].pc = pc]
Return(r) == run' = [run EXCEPT ![r] = NotRunning]

Start(r, op) ==
  /\ run[r].op = "none" /\ runs < MaxMigrateRuns
  /\ runs' = runs + 1
  /\ run' = [run EXCEPT ![r] = [NotRunning EXCEPT !.op = op, !.pc = "ensure"]]
  /\ overlapped' = LET others == {run[s].op : s \in Runners} \ {"none"}
                   IN IF others = {} THEN overlapped ELSE overlapped \cup others \cup {op}
  /\ UNCHANGED <<ddl, hasTable, record, effect, now, migrateFaults, torn, skewed>>

-----------------------------------------------------------------------------
(* ensureMigrationsTable: HasTable, then CreateTable.                         *)

Ensure(r) ==
  /\ run[r].pc = "ensure"
  /\ To(r, IF hasTable THEN "read" ELSE "create")
  /\ UNCHANGED <<ddl, hasTable, record, effect, counters, ghosts>>

\* CREATE TABLE fails when another process was faster.
CreateMigrationsTable(r) ==
  /\ run[r].pc = "create"
  /\ IF hasTable THEN Return(r) ELSE To(r, "read")
  /\ hasTable' = TRUE
  /\ UNCHANGED <<ddl, record, effect, counters, ghosts>>

-----------------------------------------------------------------------------
(* Up                                                                         *)

\* Mutant: whatever comes next is applied.
Pending_all(r) == {m \in Migrations : m > run[r].at}

\* The migrations still to come that were not recorded when Up began.
Pending(r) == {m \in Migrations : m > run[r].at /\ m \notin run[r].applied}

appliedIDs(r) ==
  /\ run[r].op = "up" /\ run[r].pc = "read"
  /\ run' = [run EXCEPT ![r].pc = "loop", ![r].applied = Recorded]
  /\ UNCHANGED <<ddl, hasTable, record, effect, counters, ghosts>>

Loop(r) ==
  /\ run[r].op = "up" /\ run[r].pc = "loop"
  /\ IF Pending(r) = {} THEN Return(r)
     ELSE run' = [run EXCEPT ![r].pc = "migrate", ![r].at = Min(Pending(r))]
  /\ UNCHANGED <<ddl, hasTable, record, effect, counters, ghosts>>

\* The migration's function: CREATE TABLE, ADD COLUMN, CREATE INDEX, ADD
\* CONSTRAINT of something that exists is an error, which ends Up.
Change(r) ==
  /\ run[r].pc = "migrate"
  /\ LET m == run[r].at
     IN IF ddl /\ effect[m] > 0 THEN Return(r) /\ UNCHANGED effect
        ELSE effect' = [effect EXCEPT ![m] = @ + 1] /\ To(r, "record")
  /\ UNCHANGED <<ddl, hasTable, record, counters, ghosts>>

\* Create of the row, with this process's time.  The key is the ID: a second
\* row for it fails, and ends Up.
Record(r) ==
  /\ run[r].pc = "record"
  /\ LET m == run[r].at
     IN IF record[m] # 0
        THEN Return(r) /\ UNCHANGED <<record, now, migrateFaults, skewed>>
        ELSE /\ To(r, "loop")
             /\ now' = now + 1
             /\ \/ record' = [record EXCEPT ![m] = now + 1] /\ UNCHANGED <<migrateFaults, skewed>>
                \/ /\ migrateFaults < MaxMigrateFaults /\ migrateFaults' = migrateFaults + 1
                   /\ record' = [record EXCEPT ![m] = 1] /\ skewed' = TRUE
  /\ UNCHANGED <<ddl, hasTable, effect, runs, overlapped, torn>>

-----------------------------------------------------------------------------
(* Down                                                                       *)

\* ORDER BY applied_at DESC
Newest == CHOOSE m \in Recorded : \A k \in Recorded : record[k] <= record[m]

Pick(r) ==
  /\ run[r].op = "down" /\ run[r].pc = "read"
  /\ IF Recorded = {} THEN Return(r)
     ELSE run' = [run EXCEPT ![r].pc = "has", ![r].at = Newest]
  /\ UNCHANGED <<ddl, hasTable, record, effect, counters, ghosts>>

\* DropTable, DropColumn, DropIndex and DropConstraint look first, and do
\* nothing if there is nothing; a change of data is undone without looking.
Has(r) ==
  /\ run[r].pc = "has"
  /\ To(r, IF ddl /\ effect[run[r].at] = 0 THEN "delete" ELSE "rollback")
  /\ UNCHANGED <<ddl, hasTable, record, effect, counters, ghosts>>

\* DROP of what has gone meanwhile is an error, which ends Down.
Rollback(r) ==
  /\ run[r].pc = "rollback"
  /\ LET m == run[r].at
     IN IF effect[m] = 0 THEN Return(r) /\ UNCHANGED effect
        ELSE effect' = [effect EXCEPT ![m] = @ - 1] /\ To(r, "delete")
  /\ UNCHANGED <<ddl, hasTable, record, counters, ghosts>>

DeleteRecord(r) ==
  /\ run[r].pc = "delete"
  /\ record' = [record EXCEPT ![run[r].at] = 0]
  /\ Return(r)
  /\ UNCHANGED <<ddl, hasTable, effect, counters, ghosts>>

-----------------------------------------------------------------------------

\* A statement fails or the process dies: the call ends where it is.
Fail(r) ==
  /\ run[r].op # "none"
  /\ migrateFaults < MaxMigrateFaults /\ migrateFaults' = migrateFaults + 1
  /\ torn' = (torn \/ run[r].pc \in {"record", "delete"})
  /\ Return(r)
  /\ UNCHANGED <<ddl, hasTable, record, effect, now, runs, overlapped, skewed>>

Next ==
  \E r \in Runners :
    \/ Start(r, "up") \/ Start(r, "down")
    \/ Ensure(r) \/ CreateMigrationsTable(r)
    \/ appliedIDs(r) \/ Loop(r) \/ Change(r) \/ Record(r)
    \/ Pick(r) \/ Has(r) \/ Rollback(r) \/ DeleteRecord(r)
    \/ Fail(r)

Spec == Init /\ [][Next]_vars

-----------------------------------------------------------------------------
(* Properties.                                                                *)

TypeOK ==
  /\ ddl \in BOOLEAN /\ hasTable \in BOOLEAN
  /\ record \in [Migrations -> 0..(MaxMigrateRuns * N)]
  /\ effect \in [Migrations -> 0..MaxMigrateRuns]
  /\ \A r \in Runners : run[r].op \in {"none", "up", "down"} /\ run[r].at \in 0..N

\* A migration whose change is made and not recorded yet, or undone and still
\* recorded.
Between(m) == \E r \in Runners : run[r].at = m /\ run[r].pc \in {"record", "delete"}

\* The record and the schema agree, whatever statement fails and wherever a
\* process dies: a migration is in force once exactly if it is recorded, unless
\* a call ended between the two (runner.go:62) or two were under way at once
\* (runner.go:48).  The migrations recorded are always the first ones, so that
\* none ran without those it builds on, even when several processes call Up at
\* once, unless a Down is among them or their clocks differ.
AppliedAsRecorded ==
  /\ ~torn /\ overlapped = {} =>
       \A m \in Migrations : Between(m) \/ effect[m] = (IF m \in Recorded THEN 1 ELSE 0)
  /\ "down" \notin overlapped /\ ~skewed => \A m \in Recorded : 1..m \subseteq Recorded
=============================================================================
