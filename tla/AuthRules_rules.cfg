CONSTANTS
  Window = 2
  FailureThreshold = 2
  SprayThreshold = 2
  EvidenceLimit = 2
  Start = 1
  End = 4
  MaxEvents = 4
  MaxLogons = 4
  NoUser = ""
  Inputs <- MCInputs
  Times <- MCTimes
  Scopes <- TwoScopes
  Users <- TwoUsers
SPECIFICATION Spec
INVARIANTS
  FindsWhatTheRulesSay
  EvidenceSupportsFinding
\* the call has ended
CHECK_DEADLOCK FALSE
