SPECIFICATION Spec
CONSTANTS
  MaxGateCLoops = 1
  MaxRedivergence = 1
  NotifyGates = {}
  RerunAhead = FALSE
  EditsInFlight = FALSE
  CrashPoints = {}
  FailPoints <- AnyAgent
  MaxCrashes = 1
  MaxFailures = 1
  MaxReruns = 0
INVARIANT DoneIsWhole
