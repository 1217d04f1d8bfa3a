\* Two clients and the sweep, one counter and one page, every call, and a
\* statement or an answer lost anywhere.  A period of one tick expires a counter
\* once before the clock stops, and lets it be restarted.  CHECK_DEADLOCK is off
\* because the bounds on the clock and the calls end behaviours; that no call
\* waits forever is CallReturns.
SPECIFICATION MCSpec
CONSTANTS
  Clients = {c1, c2}
  Counters = {ctr}
  Pages = {page}
  Values = {v}
  None = None
  Dialects = {TRUE, FALSE}
  Period = 1
  Limit = 1
  MaxTime = 1
  MaxCalls = 3
  MaxAttempts = 2
  BatchSize = 1
  MaxFaults = 1
INVARIANTS
  LimitUnlessRaced
PROPERTIES
  ContractUnlessRaced
  ImplementsStore
  CallReturns
  ExpiredEntriesGo
CHECK_DEADLOCK FALSE
