CONSTANTS
  V4Bits = 3
  V6Bits = 4
  MaxPort = 3
  Group = {}
  ExtraPrefix = 1
  None = None
  Malformed = Malformed
  KeyOrder <- MCKeyOrder
  AccountId = "own"
  MaxU16 = 2
SPECIFICATION RulesSpec
INVARIANTS
  ContainsIsSharedPrefix
  AllProtocolsIsBroadest
  PermissionsKeepTheirMeaning
  RoutesStayInAccount
CHECK_DEADLOCK FALSE
