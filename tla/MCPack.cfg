SPECIFICATION MCSpec
CONSTANTS
  Procs = {p1, p2}
  Values = {v1, v2, v3}
  MaxScopes = 3
  MaxDepth = 3
  MaxTxFaults = 1
  BatchSize = 2
  MaxId = 4
  MaxWrites = 3
  MaxWriteFaults = 1
  Keys = {0, 1, 2}
  MaxParents = 2
  MaxChildren = 2
  MaxConns = 2
  MaxInner = 2
  N = 2
  MaxMigrateRuns = 3
  MaxMigrateFaults = 1
  TableRows = {r1, r2}
  Indexes = {i1, i2}
  MaxRebuilds = 3
  MaxRebuildFaults = 1
INVARIANTS
  OwnRow
  StatementMeansQuery
  PreloadAttaches
  AppliedAsRecorded
  RebuildIsSafe
PROPERTIES
  TxNests
  CallsReturn
SYMMETRY Symmetry
CHECK_DEADLOCK FALSE
