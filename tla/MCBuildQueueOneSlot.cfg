SPECIFICATION FairSpec
CONSTANTS
  Jobs = {j1, j2}
  Workers = {w1, w2}
  Slots = {s1}
  MaxAttempts = 3
  NoJob = NoJob
  NoWorker = NoWorker
PROPERTY EverySubmissionLeavesTheQueue
CHECK_DEADLOCK FALSE
