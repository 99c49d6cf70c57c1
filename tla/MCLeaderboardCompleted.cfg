SPECIFICATION Spec
CONSTANTS
  Runs = {r1, r2}
  Scores <- FewScores
  CallsFail = FALSE
  MaxLosses = 0
  MaxStarts = 0
INVARIANT BoardIsBestCompleted
CHECK_DEADLOCK FALSE
