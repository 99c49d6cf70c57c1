SPECIFICATION FairSpec
CONSTANTS
  Replicas = {r1, r2}
  NoReplica = NoReplica
  Scenarios <- AllOrBroker
INVARIANTS TypeOK VerdictMatchesCount ReportedOnce LatenciesHeard NoTickAfterVerdict
PROPERTY EveryLoadIsReported
CHECK_DEADLOCK FALSE
