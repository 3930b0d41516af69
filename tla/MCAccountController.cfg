SPECIFICATION LiveSpec
CONSTANTS
  Configs = {c1, c2}
  Requests = {q1, q2}
  Reconcilers = {r1, r2}
  None = None
  MaxRevision = 2
  MaxLeases = 2
  MaxFailures = 1
  MaxQueue = 1
INVARIANTS
  OneFreshJob
PROPERTIES
  PolicyInForce
  Replenished
CHECK_DEADLOCK FALSE
