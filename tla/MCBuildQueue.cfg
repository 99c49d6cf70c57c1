SPECIFICATION Spec
CONSTANTS
  Jobs = {j1, j2}
  Workers = {w1, w2}
  Slots = {s1, s2}
  MaxAttempts = 2
  NoJob = NoJob
  NoWorker = NoWorker
SYMMETRY Symmetry
INVARIANTS TypeOK TablesAgree NoPoisonedJob SourceKeptUntilDone AttemptsAreUnique NoForgottenJob
PROPERTIES ImplementsLifecycle ExhaustedByLapseOrStaleError
CHECK_DEADLOCK FALSE
