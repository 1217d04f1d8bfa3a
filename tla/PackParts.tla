------------------------------ MODULE PackParts -----------------------------
(* The parts of the database layer whose state is their own: transactions,    *)
(* writes, preloads, the connections that calls hold, migrations and SQLite's *)
(* table rebuild, side by side.  MCPack adds the queries and runs them all;   *)
(* PackProofs proves about them.                                              *)
EXTENDS Naturals

CONSTANTS
  Procs, Values,
  MaxScopes, MaxDepth, MaxTxFaults,                          \* PackTx
  BatchSize, MaxId, MaxWrites, MaxWriteFaults,               \* PackWrite
  Keys, MaxParents, MaxChildren,                             \* Preload
  MaxConns, MaxInner,                                        \* QueryPool
  N, MaxMigrateRuns, MaxMigrateFaults,                       \* Migrate
  TableRows, Indexes, MaxRebuilds, MaxRebuildFaults          \* TableRebuild

VARIABLES
  refuses, stored, work, saves, aborted, lost, scopes, savepointSeq, unwinding, outcome, txFaults,
  returning, unique, table, lastId, value, doing, writes, writeFaults, vague, again,
  parents, related, nullable, slice, given,
  conns, oneResult, call,
  ddl, hasTable, record, effect, run, now, runs, migrateFaults, overlapped, torn, skewed,
  db, tx, enforces, pinned, pc, indexSQL, dangling, failed, rebuilds, rebuildFaults

txVars == <<refuses, stored, work, saves, aborted, lost, scopes, savepointSeq, unwinding, outcome, txFaults>>
writeVars == <<returning, unique, table, lastId, value, doing, writes, writeFaults, vague, again>>
preloadVars == <<parents, related, nullable, slice, given>>
poolVars == <<conns, oneResult, call>>
migrateVars == <<ddl, hasTable, record, effect, run, now, runs, migrateFaults, overlapped, torn, skewed>>
rebuildVars == <<db, tx, enforces, pinned, pc, indexSQL, dangling, failed, rebuilds, rebuildFaults>>

Tx == INSTANCE PackTx WITH Rows <- Values
Write == INSTANCE PackWrite
Pre == INSTANCE Preload WITH stored <- related
Pool == INSTANCE QueryPool WITH Callers <- Procs
Mig == INSTANCE Migrate WITH Runners <- Procs
Rebuild == INSTANCE TableRebuild WITH Conns <- Procs, Rows <- TableRows

-----------------------------------------------------------------------------
(* The properties of the parts.                                               *)

\* Tx inside Tx behaves as nested transactions do.
TxNests == Tx!TxNests
\* A Go value has the key of its own newest row, and but for Create of one that
\* has a key stands for one row at most.
OwnRow == Write!OwnRow
\* A preload gives each parent its own children.
PreloadAttaches == Pre!PreloadAttaches
\* Calls return unless the pool ran out on calls that wait holding.
CallsReturn == Pool!CallsReturn
\* The record of migrations and the schema agree.
AppliedAsRecorded == Mig!AppliedAsRecorded
\* The rebuilt table is whole and foreign keys are enforced.
RebuildIsSafe == Rebuild!RebuildIsSafe
=============================================================================
