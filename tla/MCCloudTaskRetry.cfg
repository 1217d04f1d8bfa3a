SPECIFICATION MCSpec
CONSTANTS
  Jobs = {j1, j2}
  KeyedSets <- MCKeyedSets
  Limit = 1
  Duration = 1
  MaxAttempts = 2
  Pushes = {p1, p2}
  NoJob = NoJob
  MaxTime = 1
  MaxFaults = 1
  j1 = j1
  j2 = j2
  s1 = s1
  s2 = s2
  Stamps = {s1, s2, s3, s4}
  Enqueues = {e1, e2}
  MaxChainFaults = 2
  Zero = Zero
  Sentinel = Sentinel
INVARIANT RetriedUntilExhausted
CHECK_DEADLOCK FALSE
