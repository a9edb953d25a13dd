SPECIFICATION FairSpec
CONSTANTS
  Prior <- MCPrior
  Threshold = 1
  TopK = 2
  MaxPerAngle = 1
  Margin = 1
  MaxFinalists = 3
  CardSets <- MCCards
  Verdict <- MCVerdict
  Extra <- UnknownId
  LoopCards <- SpareIds
  MaxBatch = 2
  Options <- MCOptions
  MaxFaults = 2
  MaxEdits = 1
  MaxReruns = 1
  MaxLoops = 1
INVARIANTS TypeOK  ShortlistWithinRules
PROPERTIES ScreeningSettles
CHECK_DEADLOCK FALSE
