SPECIFICATION Spec
CONSTANTS
  MaxGateCLoops = 1
  MaxRedivergence = 1
  NotifyGates = {}
  RerunAhead = FALSE
  EditsInFlight = FALSE
  CrashPoints <- AnyPoint
  FailPoints = {}
  MaxCrashes = 1
  MaxFailures = 1
  MaxReruns = 1
INVARIANT DoneIsWhole
