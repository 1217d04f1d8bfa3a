\* The sweep and a counter that is restarted in its row.
SPECIFICATION MCSpec
CONSTANTS
  Clients = {c1, c2}
  Counters = {ctr}
  Pages = {page}
  Values = {v}
  None = None
  Dialects = {TRUE}
  Period = 1
  Limit = 1
  MaxTime = 1
  MaxCalls = 3
  MaxAttempts = 2
  BatchSize = 1
  MaxFaults = 0
INVARIANT RateLimitEnforced
CHECK_DEADLOCK FALSE
