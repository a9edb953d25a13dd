SPECIFICATION Spec
CONSTANTS
  Options <- FourOptions
  Scores <- LowScores
  Boards <- MCBoards
  WD = 3
  WP = 2
  CrashPoints = {"gather", "settle", "slots", "merged", "inv"}
  MaxMoves = 1
  MaxKept = 1
  MaxFeedback = 1
  MaxFaults = 0
  MaxReruns = 0
CHECK_DEADLOCK FALSE
INVARIANT ReportCanStart
