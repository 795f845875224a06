SPECIFICATION Spec
CONSTANTS
  SqlTexts <- MCStatements
  Characters <- FieldChars
  Headers <- MCHeaders
  Table <- MCTable
  Batches <- MCBatches
  InsertBatchSize = 3
  MaxQueryBytes = 3000
INVARIANTS
  ScrubbedIsSyntax
  OneStatementIsRun
  FieldsSurviveEscaping
  StatementsWithinBudget
  StatementsCarryEvents
\* a loop ends
CHECK_DEADLOCK FALSE
