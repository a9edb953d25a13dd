SPECIFICATION Spec
CONSTANTS
  i1 = i1
  i2 = i2
  i3 = i3
  Items <- TwoItems
  Concurrency = 2
  MaxSchemaRetries = 1
  Tries = 3
  Caps <- SmallCaps
  MaxFaults = 2
  MaxResumes = 0
INVARIANT EveryAttemptLedgered
CHECK_DEADLOCK FALSE
