CONSTANTS
  w1 = w1
  w2 = w2
  a = a
  b = b
  c = c
  d = d
  blank = blank
  BlankId = blank
  Writers <- TwoWriters
  Events <- MCEvents
  Inputs <- RaceInputs
  Fits <- AllFit
  Mergeable <- AllFit
  InsertBatchSize = 1
  CommitRetries = 1
  MaxRuns = 2
  MaxFaults = 1
SPECIFICATION Spec
SYMMETRY WriterSymmetry
INVARIANTS
  TypeOK
  OneRowPerEvent
  CompletedRunAccounts
  CompletedRunIsStored
  SnapshotCoversRun
PROPERTY
  ImplementsEventStore
\* the runs of the bound are used up
CHECK_DEADLOCK FALSE
