SPECIFICATION FairSpec
CONSTANTS
  Finalists <- Two
  Claims <- MCClaims
  Criteria <- MCCriteria
  Section <- MCSection
  Scores = {0, 1}
  Baseline <- MCBaseline
  Drafts <- MCDrafts
  Screens <- MCScreens
  Cap = 2
  Stop = 1
  Move = 1
  MaxContradicted = 1
  MaxFaults = 2
  MaxReruns = 1
INVARIANTS TypeOK DepthBounded CapStaysVisible SettledIsWhole
PROPERTIES DiveSettles
CHECK_DEADLOCK FALSE
