SPECIFICATION FairSpec
CONSTANTS
  Teams = {t1}
  NoTeam = NoTeam
  MaxSubs = 2
  MaxRuns = 2
  MaxInFlight = 2
INVARIANTS TypeOK ChartMatchesRun BusyFlags
PROPERTY ButtonsComeBack
CHECK_DEADLOCK FALSE
