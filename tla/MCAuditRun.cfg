CONSTANTS
  Proc = {p1, p2}
  MaxRuns = 2
  Configs <- MCConfigs
  PlausibleRegions <- MCRegions
  Env <- MCEnv
  AccountOf <- MCAccountOf
  AWS_PROFILE = "default"
  Codes <- MCCodes
  Versions = 2
  MaxCandidates = 2
SPECIFICATION FairSpec
INVARIANTS
  TypeOK
  OrderingIsLoadBearing
  ToldWhatFailed
PROPERTIES
  ImplementsAudit
  EveryRunExits
CHECK_DEADLOCK FALSE
