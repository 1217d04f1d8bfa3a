SPECIFICATION Spec
CONSTANTS
  Stamps = {s1, s2, s3, s4}
  Enqueues = {e1, e2}
  Pushes = {p1, p2}
  Zero = Zero
  Sentinel = Sentinel
  MaxFaults = 2
INVARIANT SentinelOwned
