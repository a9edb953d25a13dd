SPECIFICATION FairSpec
CONSTANTS
  MaxGateCLoops = 1
  MaxRedivergence = 1
  NotifyGates = {}
  RerunAhead = FALSE
  EditsInFlight = FALSE
  CrashPoints <- SafePoints
  FailPoints <- StageOnly
  MaxCrashes = 1
  MaxFailures = 1
  MaxReruns = 1
INVARIANTS OutputsBehindRun FreshTournament ApprovalOnFile DoneIsWhole
PROPERTIES GatedOutputs EventuallySettles RerunRequestHonoured
