SPECIFICATION Spec
CONSTANTS
  Prior <- MCPrior
  Threshold = 1
  TopK = 2
  MaxPerAngle = 1
  Margin = 1
  MaxFinalists = 4
  CardSets <- MCCards
  Verdict <- KilledLoop
  Extra <- UnknownId
  LoopCards <- SpareIds
  MaxBatch = 2
  Options <- MCOptions
  MaxFaults = 0
  MaxEdits = 0
  MaxReruns = 0
  MaxLoops = 1
INVARIANT NoKilledFinalist
CHECK_DEADLOCK FALSE
