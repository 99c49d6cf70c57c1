SPECIFICATION FairSpec
CONSTANTS
  Runs = {run1, run2}
  Tests = {t1, t2}
  NoTest = NoTest
  NoRun = NoRun
  Workers = {w1, w2}
  MaxOrders = 1
INVARIANTS TypeOK ExpectedIsPublished EntryIsLive StoppableUntilReused
PROPERTIES EveryTestEnds
CHECK_DEADLOCK FALSE
