SPECIFICATION FairSpec
CONSTANTS
  Hooks = {h1}
  Scenarios <- Nothing
  MaxCrashes = 1
PROPERTIES ActiveSetIsCleared
CHECK_DEADLOCK FALSE
