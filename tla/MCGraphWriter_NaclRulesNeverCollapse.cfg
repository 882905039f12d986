SPECIFICATION Spec
CONSTANTS
  None = None
  KeyOrder <- MCKeyOrder
  Batch <- MCBatch
  Content <- MCContent
  BATCH_SIZE = 2
INVARIANT
  NaclRulesNeverCollapse
