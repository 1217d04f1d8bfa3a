---------------------------- MODULE TableRebuild ----------------------------
(* AlterColumn on SQLite (pack/migrate/sqlite_rebuild.go): on one connection  *)
(* of the pool, foreign keys are switched off, the table is rebuilt in a      *)
(* transaction, the foreign keys are checked and switched on again.  Each     *)
(* statement is a step that may fail, and the process may die.  The program   *)
(* goes on writing through the pool.                                          *)
EXTENDS Naturals, Sequences, FiniteSets

CONSTANTS
  Conns,                      \* connections of the pool
  Rows,                       \* rows of the table
  Indexes,                    \* its indexes
  MaxRebuilds,                \* bound: calls of AlterColumn
  MaxRebuildFaults            \* bound: failed statements and deaths

VARIABLES
  db,                         \* what is committed
  tx,                         \* what the rebuild's transaction sees
  enforces,                   \* connection |-> PRAGMA foreign_keys
  pinned,                     \* the connection the call holds, or {}
  pc,
  indexSQL,                   \* what captureIndexSQL read, still to be replayed
  dangling,                   \* rows elsewhere that refer to no row, some from before
  failed,                     \* a call of AlterColumn returned an error in this process
  rebuilds, rebuildFaults

vars == <<db, tx, enforces, pinned, pc, indexSQL, dangling, failed, rebuilds, rebuildFaults>>

NoTable == [shape |-> "none", rows |-> {}, indexes |-> {}]

\* A database whose connections enforce foreign keys, as its DSN may ask for: the
\* driver sets no PRAGMA of its own, and a pool that does not enforce them has
\* nothing to lose.
Init ==
  /\ db = [table |-> [shape |-> "old", rows |-> Rows, indexes |-> Indexes], shadow |-> NoTable]
  /\ tx = db
  /\ enforces = [c \in Conns |-> TRUE]
  /\ pinned = {} /\ pc = "idle"
  /\ indexSQL = {}
  /\ dangling \in {{}, {"before"}}
  /\ failed = FALSE
  /\ rebuilds = 0 /\ rebuildFaults = 0

unpinned == UNCHANGED <<enforces, pinned>>

-----------------------------------------------------------------------------
(* alterColumnViaRebuild                                                      *)

\* PinnedConn takes a connection and PRAGMA foreign_keys = OFF.
SwitchOff(c) ==
  /\ pc = "idle" /\ rebuilds < MaxRebuilds
  /\ rebuilds' = rebuilds + 1
  /\ pinned' = {c} /\ enforces' = [enforces EXCEPT ![c] = FALSE]
  /\ tx' = db
  /\ pc' = "capture"
  /\ UNCHANGED <<db, indexSQL, dangling, failed, rebuildFaults>>

\* rebuildTable
CaptureIndexSQL ==
  /\ pc = "capture" /\ pc' = "create"
  /\ indexSQL' = tx.table.indexes
  /\ unpinned /\ UNCHANGED <<db, tx, dangling, failed, rebuilds, rebuildFaults>>

CreateShadow ==
  /\ pc = "create" /\ pc' = "copy"
  /\ tx' = [tx EXCEPT !.shadow = [shape |-> "new", rows |-> {}, indexes |-> {}]]
  /\ unpinned /\ UNCHANGED <<db, indexSQL, dangling, failed, rebuilds, rebuildFaults>>

Copy ==
  /\ pc = "copy" /\ pc' = "drop"
  /\ tx' = [tx EXCEPT !.shadow.rows = tx.table.rows]
  /\ unpinned /\ UNCHANGED <<db, indexSQL, dangling, failed, rebuilds, rebuildFaults>>

\* DROP TABLE takes its indexes with it.
Drop ==
  /\ pc = "drop" /\ pc' = "rename"
  /\ tx' = [tx EXCEPT !.table = NoTable]
  /\ unpinned /\ UNCHANGED <<db, indexSQL, dangling, failed, rebuilds, rebuildFaults>>

Rename ==
  /\ pc = "rename" /\ pc' = "reindex"
  /\ tx' = [table |-> tx.shadow, shadow |-> NoTable]
  /\ unpinned /\ UNCHANGED <<db, indexSQL, dangling, failed, rebuilds, rebuildFaults>>

Reindex(i) ==
  /\ pc = "reindex" /\ i \in indexSQL
  /\ indexSQL' = indexSQL \ {i}
  /\ tx' = [tx EXCEPT !.table.indexes = @ \cup {i}]
  /\ unpinned /\ UNCHANGED <<db, pc, dangling, failed, rebuilds, rebuildFaults>>

\* Mutant: the transaction is committed before the last index is replayed.
Commit_early ==
  /\ pc = "reindex" /\ pc' = "check"
  /\ db' = tx
  /\ unpinned /\ UNCHANGED <<tx, indexSQL, dangling, failed, rebuilds, rebuildFaults>>

Commit ==
  /\ pc = "reindex" /\ indexSQL = {} /\ pc' = "check"
  /\ db' = tx
  /\ unpinned /\ UNCHANGED <<tx, indexSQL, dangling, failed, rebuilds, rebuildFaults>>

Ended == pc' = "idle" /\ pinned' = {} /\ indexSQL' = {}

\* PRAGMA foreign_key_check: a violation anywhere in the database ends the call
\* with the rebuild committed and the connection back in the pool as it is.
CheckFails ==
  /\ pc = "check" /\ dangling # {}
  /\ Ended
  /\ failed' = TRUE
  /\ UNCHANGED <<db, tx, enforces, dangling, rebuilds, rebuildFaults>>

CheckPasses ==
  /\ pc = "check" /\ dangling = {}
  /\ pc' = "on"
  /\ unpinned /\ UNCHANGED <<db, tx, indexSQL, dangling, failed, rebuilds, rebuildFaults>>

SwitchOn ==
  /\ pc = "on"
  /\ enforces' = [c \in Conns |-> enforces[c] \/ c \in pinned]
  /\ Ended
  /\ UNCHANGED <<db, tx, dangling, failed, rebuilds, rebuildFaults>>

\* A statement fails: an open transaction is rolled back.
StatementFails ==
  /\ pc # "idle"
  /\ rebuildFaults < MaxRebuildFaults /\ rebuildFaults' = rebuildFaults + 1
  /\ Ended
  /\ failed' = TRUE
  /\ UNCHANGED <<db, tx, enforces, dangling, rebuilds>>

\* The process dies and starts again: what was not committed is gone, and new
\* connections enforce foreign keys.
Restart ==
  /\ rebuildFaults < MaxRebuildFaults /\ rebuildFaults' = rebuildFaults + 1
  /\ Ended
  /\ enforces' = [c \in Conns |-> TRUE]
  /\ failed' = FALSE
  /\ UNCHANGED <<db, tx, dangling, rebuilds>>

\* The program writes a row that refers to none, through a connection of the
\* pool that lets it.
WriteDangling(c) ==
  /\ c \notin pinned /\ ~enforces[c]
  /\ dangling' = dangling \cup {"after"}
  /\ UNCHANGED <<db, tx, enforces, pinned, pc, indexSQL, failed, rebuilds, rebuildFaults>>

Next ==
  \/ \E c \in Conns : SwitchOff(c) \/ WriteDangling(c)
  \/ CaptureIndexSQL \/ CreateShadow \/ Copy \/ Drop \/ Rename
  \/ \E i \in Indexes : Reindex(i)
  \/ Commit \/ CheckFails \/ CheckPasses \/ SwitchOn
  \/ StatementFails \/ Restart

Spec == Init /\ [][Next]_vars

-----------------------------------------------------------------------------
(* Properties.                                                                *)

\* Whatever fails and wherever the process dies, the table is whole: of the old
\* or of the new shape with all its rows and indexes, and no shadow is left;
\* and the pool enforces foreign keys on every connection that is not the
\* call's own, unless a call returned an error (sqlite_rebuild.go:70 returns
\* with enforcement off and the rebuild committed).
RebuildIsSafe ==
  /\ db.table.shape \in {"old", "new"} /\ db.table.rows = Rows /\ db.table.indexes = Indexes
  /\ db.shadow = NoTable
  /\ ~failed => \A c \in Conns \ pinned : enforces[c]
=============================================================================
