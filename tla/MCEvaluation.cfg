SPECIFICATION Spec
CONSTANTS
  V4Bits = 2
  V6Bits = 2
  MaxPort = 2
  Group <- MCGroup
  Eni <- MCEni
  Subnet <- MCSubnet
  Candidates <- MCCandidates
INVARIANTS
  TypeOK
  EvidenceSound
  EvidenceExplains
PROPERTY ImplementsReachability
\* evaluate_candidate returns.
CHECK_DEADLOCK FALSE
