CONSTANTS
  w1 = w1
  w2 = w2
  a = a
  b = b
  c = c
  d = d
  blank = blank
  BlankId = blank
  Writers <- TwoWriters
  Events <- MCEvents
  Inputs <- RetryInputs
  Fits <- SizeAsserted
  Mergeable <- SizeMerged
  InsertBatchSize = 2
  CommitRetries = 1
  MaxRuns = 2
  MaxFaults = 1
SPECIFICATION FairSpec
INVARIANTS
  ReturnedResultStands
PROPERTIES
  EveryCallReturns
\* the runs of the bound are used up
CHECK_DEADLOCK FALSE
