SPECIFICATION IngestSpec
CONSTANTS
  None = None
  Malformed = Malformed
  KeyOrder <- MCKeyOrder
  AccountId = "own"
  MaxU16 = 65535
  Batch <- MCBatch
  Content <- MCContent
  BATCH_SIZE = 500
  Account <- MCAccount
  Listing <- MCListing
  Succ <- MCSucc
  MaxRuns = 2
INVARIANTS
  OnlyCompleteReads
  QuietRunsFailForCause
  NothingSilentlyDropped
  ZeroMeansResolved
CHECK_DEADLOCK FALSE
