CONSTANTS
  Layers <- MCLayers
  Causes = {group}
  Findings <- MCFindings
  Times <- MCTimes
  Accounts = {a1}
  Regions = {r1}
  References = {0}
  MaxFindings = 2
  MaxEdits = 2
SPECIFICATION Spec
INVARIANTS
  AgreesWithItself
  RoundTrips
  OneEditIsSeen
