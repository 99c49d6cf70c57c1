SPECIFICATION FairSpec
CONSTANTS
  Jobs = {j1}
  Workers = {w1, w2}
  Slots = {s1}
  MaxAttempts = 2
  NoJob = NoJob
  NoWorker = NoWorker
PROPERTIES EverySubmissionSettles
CHECK_DEADLOCK FALSE
