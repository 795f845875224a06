CONSTANTS
  w1 = w1
  w2 = w2
  p1 = p1
  Workers <- MCWorkers
  Partitions <- MCPartitions
  LogEnd <- MCLogEnd
  InvalidRecords <- MCInvalid
  MaxPollRecords = 2
  MaxDisturbances = 1
  InsertBatchSize = 2
  CommitRetries = 0
  MaxRuns = 2
  MaxFaults = 1
SPECIFICATION Spec
SYMMETRY WorkerSymmetry
INVARIANTS
  CommittedIsInTables
PROPERTY
  ImplementsWorker
\* the log is finite, and the runs of the bound are used up
CHECK_DEADLOCK FALSE
