SPECIFICATION Spec
CONSTANTS
  Runner = {r1, r2}
  Version <- MCVersion
  Statement <- MCStatement
  Statements <- MCStatements
  MaxRuns = 2
INVARIANTS
  RecordedComplete
  RecordedInOrder
  RecordedOnce
  SummaryTruthful
PROPERTIES
  ImplementsLedger
  EveryRunReturns
\* Every process ends, after at most MaxRuns calls.
CHECK_DEADLOCK FALSE
