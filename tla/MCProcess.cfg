SPECIFICATION MCSpec
CONSTANTS
  k1 = k1
  k2 = k2
  p1 = p1
  c1 = c1
  w1 = w1
  w2 = w2
  r1 = r1
  r2 = r2
  Runners = {r1, r2}
  Requests = {q1, q2}
  NoJob = NoJob
  Jobs <- MCJobs
  Keyed = {k1, k2}
  Delayed = {k2}
  Spawns <- MCSpawns
  Workers = {w1, w2}
  Pools <- MCPools
  QueueSize = 1
  Limit = 1
  Duration = 0
  MaxTime = 1
INVARIANTS DrainWaitsForAll LimitUntilOverrun LeftBehindOnlyAfterError
PROPERTIES JobsAndCloseEnd RunReturns
CHECK_DEADLOCK FALSE
