CONSTANTS
  Window = 2
  FailureThreshold = 2
  SprayThreshold = 2
  Poller = poller
  Backfills = {operator}
  Ranges <- PastRanges
  Uploads <- Failures
  Lookback = 2
  Interval = 1
  RetryDelay = 1
  ScanLimit = 4
  CommitRetries = 1
  MaxNow = 3
  MaxFaults = 1
SPECIFICATION Spec
INVARIANTS
  OneFindingPerBucket
  MissedOnlyInOutage
PROPERTIES
  FirstEvidenceStands
  HealthFollowsFindings
\* the clock ends
CHECK_DEADLOCK FALSE
