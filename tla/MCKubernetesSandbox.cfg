SPECIFICATION Spec
CONSTANTS
  Attempts = {a1, a2, a3}
  MaxLive = 2
  Stops = {c1, c2}
SYMMETRY Alike
INVARIANTS TypeOK BuildIsHonest NothingLeft
CHECK_DEADLOCK FALSE
