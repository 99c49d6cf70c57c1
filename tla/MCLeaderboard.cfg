SPECIFICATION Spec
CONSTANTS
  Runs = {r1, r2}
  Scores <- FewScores
  CallsFail = TRUE
  MaxLosses = 1
  MaxStarts = 1
INVARIANT TypeOK
PROPERTY ListedAgain
CHECK_DEADLOCK FALSE
