CONSTANTS
  w1 = w1
  w2 = w2
  p1 = p1
  p2 = p2
  Workers <- OneWorker
  Partitions <- OnePartition
  LogEnd <- OneLogEnd
  InvalidRecords <- MCInvalid
  RefusedRecords <- FirstRefused
  MaxPollRecords = 2
  MaxFaults = 0
SPECIFICATION FairSpec
PROPERTY
  InvalidRecordsAreDeadLettered
\* the log is finite: an idle worker polls nothing
CHECK_DEADLOCK FALSE
