CONSTANTS
  w1 = w1
  w2 = w2
  a = a
  b = b
  c = c
  d = d
  blank = blank
  BlankId = blank
  Writers <- OneWriter
  Events <- MCEvents
  Inputs <- GapInputs
  Fits <- SizeAsserted
  Mergeable <- SizeMerged
  InsertBatchSize = 2
  CommitRetries = 1
  MaxRuns = 1
  MaxFaults = 0
SPECIFICATION Spec
INVARIANT
  OversizedWritesNothing
CHECK_DEADLOCK FALSE
