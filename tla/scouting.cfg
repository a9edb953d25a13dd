SPECIFICATION FairSpec
CONSTANTS
  Angles <- MCAngles
  Weight <- MCWeight
  Weights <- AllWeights
  Budget = 8
  Floor = 1
  CapPct = 60
  StopPct = 40
  Found <- MCFound
  Missed <- MCMissed
  Reviews <- MCReviews
  MaxFaults = 2
  MaxReruns = 1
INVARIANTS TypeOK IdsUnique UnitsConserved FilesAttest
PROPERTIES ScoutingSettles
CHECK_DEADLOCK FALSE
