SPECIFICATION FairSpec
CONSTANTS
  Runs <- MCRuns
  Tables = 2
  Interval = 5
  RetryDelay = 2
  WatchdogInterval = 3
  StuckTimeout = 1
  ReportLimit = 1
INVARIANTS
  StaleRunsCovered
  AttemptsOnSchedule
PROPERTIES
  OldestIsNamed
  OnlyTablesBehindStarve
