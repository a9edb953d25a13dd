SPECIFICATION FairSpec
CONSTANTS
  i1 = i1
  i2 = i2
  i3 = i3
  Items <- ThreeItems
  Concurrency = 2
  MaxSchemaRetries = 1
  Tries = 2
  Caps <- SmallCaps
  MaxFaults = 2
  MaxResumes = 1
INVARIANTS TypeOK SlotsRespected WaitersQueued OverrunExplained AttemptsAccounted PaidOnce PausedIsQuiet PauseNamesCause
PROPERTY FanOutEnds
CHECK_DEADLOCK FALSE
