SPECIFICATION Spec
CONSTANTS
  None = None
  Malformed = Malformed
  KeyOrder <- MCKeyOrder
  AccountId = "own"
  MaxU16 = 65535
  Account <- MCAccount
  Listed <- MCListed
  VpcIds <- MCVpcIds
  Address <- MCAddress
  MaxIngests = 2
INVARIANTS
  NothingForgotten
  FirstAccountIsExact
  
  RoutesAreTheAccounts
CHECK_DEADLOCK FALSE
