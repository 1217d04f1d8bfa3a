SPECIFICATION MCSpec
CONSTANTS
  Conns = {c1, c2}
  Calls = {s1, s2}
  NoConn = NoConn
  NoCall = NoCall
  OutboxSize = 1
  BufferSize = 1
  MaxMsgs = 2
  MaxFanouts = 2
  Subscriptions = {r1}
  Publishers = {p1, p2}
  Topics = {t1}
  BatchSize = 2
  TrimBatch = 1
  MaxRows = 3
  MaxDbFaults = 1
  Schedules <- MCSchedules
  Interval <- MCInterval
  Second = 2
  Jitter = 1
  MaxClock = 7
  MaxScheduleFaults = 1
  Visitors = {v1, v2}
  Requests = {r1, r2, r3}
  None = None
  Keep = Keep
  MaxTokens = 2
  Clients = {v1, v2}
  Proxies = {p1}
  Garbage = Garbage
  Limit = 1
  MaxPath = 3
  MaxLines = 2
  MaxEntries = 2
  MaxArrivals = 2
  MaxMiddleware = 4
  MaxGroups = 3
  MaxRoutes = 1
INVARIANT IntervalKept
CONSTRAINT OnlySched
CHECK_DEADLOCK FALSE
