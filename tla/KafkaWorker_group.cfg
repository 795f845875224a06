CONSTANTS
  w1 = w1
  w2 = w2
  p1 = p1
  p2 = p2
  Workers <- MCWorkers
  Partitions <- MCPartitions
  LogEnd <- MCLogEnd
  InvalidRecords <- MCInvalid
  RefusedRecords <- NoneRefused
  MaxPollRecords = 2
  MaxFaults = 3
SPECIFICATION FairSpec
INVARIANTS
  CommittedIsHandled
PROPERTIES
  OffsetsNeverRegress
  EverythingCommitted
\* the log is finite: an idle worker polls nothing
CHECK_DEADLOCK FALSE
