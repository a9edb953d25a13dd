SPECIFICATION Spec
CONSTANTS
  MaxGateCLoops = 2
  MaxRedivergence = 1
  NotifyGates = {"B"}
  RerunAhead = FALSE
  EditsInFlight = FALSE
  CrashPoints <- AnyPoint
  FailPoints <- AnyAgent
  MaxCrashes = 2
  MaxFailures = 1
  MaxReruns = 1
INVARIANTS TypeOK GateOrder LoopTrail
PROPERTIES ApprovalIsDecided LifecycleSpec
