CONSTANTS
  s1 = s1
  s2 = s2
  a = a
  b = b
  c = c
  blank = blank
  BlankId = blank
  Nobody = Nobody
  Sessions <- TwoSessions
  Events <- MCEvents
  Inputs <- MCInputs
  InsertBatchSize = 2
  MaxRuns = 2
  MaxFaults = 2
SPECIFICATION FairSpec
INVARIANTS
  BatchIsAtomic
  FramesAgree
PROPERTIES
  ImplementsEventStore
  LockIsReleased
