SPECIFICATION FairSpec
CONSTANTS
  icp = icp
  membership = membership
  memberships = memberships
  Manifest <- Contract
  Objects = {icp, membership}
  Source <- SourceOf
  Target <- TargetOf
  PageOf <- PageOfObject
  Pages = 2
  Runners = {r1, r2}
  MaxMishaps = 1
  MaxEdits = 2
INVARIANTS
  GateSound
  ForeignUntouched
PROPERTIES
  Converges
CHECK_DEADLOCK FALSE
