SPECIFICATION LiveSpec
CONSTANTS
  Jobs = {j1}
  Workers = {w1}
  Plan <- TwoRecords
  None = None
  c1 = c1
  c2 = c2
  MaxAttempts = 2
  MaxRetries = 0
  MaxGrants = 2
  MaxEdits = 2
INVARIANTS
  CompleteMeansPublished
PROPERTIES
  PendingSettles
CHECK_DEADLOCK FALSE
