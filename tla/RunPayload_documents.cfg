SPECIFICATION Spec
CONSTANTS
  Documents <- MCDocuments
  MaxLines = 5
  MaxEvents = 3
INVARIANTS
  EveryRecordIsOneEvent
  BudgetIsExact
  EventsAreTraces
  InvalidFieldsAreQuarantined
  NumericTimesAreNotMistaken
  LogonOutcomeIsExplicit
  OnlyEvidenceIsMissing
  ContextSurvivesExport
\* run_payload ends
CHECK_DEADLOCK FALSE
