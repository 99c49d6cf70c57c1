SPECIFICATION FairSpec
CONSTANTS
  Hooks = {h1, h2}
  Scenarios <- AnyOrSome
  MaxCrashes = 2
INVARIANTS TypeOK CompletedOnlyAfterLoad
INVARIANTS SettledMeansReleased KeysOutliveSandbox SomebodyWillStop
PROPERTIES VerdictIsFinal ImplementsRunLifecycle EveryRunEnds
CHECK_DEADLOCK FALSE
