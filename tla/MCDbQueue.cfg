SPECIFICATION FairSpec
CONSTANTS
  Jobs = {j1, j2}
  Workers = {w1, w2}
  Limit = 1
  Duration = 1
  MaxAttemptsOpts = {0}
  DefaultMaxAttempts = 2
  Delays = {0}
  BatchSize = 2
  Slots = 1
  BackoffBase = 1
  BackoffMax = 2
  Retention = 1
  CleanupBatchSize = 1
  Setups <- MCSetups
  MaxTime = 1
  MaxFaults = 1
INVARIANTS TypeOK OneHolder AttemptsAccount WindowLimit NoOrphanWithoutFault
PROPERTIES SettledStays DueIsRecorded
