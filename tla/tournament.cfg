SPECIFICATION FairSpec
CONSTANTS
  Options <- FourOptions
  Scores <- LowScores
  Boards <- MCBoards
  WD = 3
  WP = 2
  CrashPoints = {"gather", "settle", "slots", "merged", "inv"}
  MaxMoves = 1
  MaxKept = 1
  MaxFeedback = 1
  MaxFaults = 1
  MaxReruns = 1
INVARIANTS TypeOK TournamentExplained DrawnCasesMade
PROPERTIES JudgeSawAll TournamentSettles
CHECK_DEADLOCK FALSE
