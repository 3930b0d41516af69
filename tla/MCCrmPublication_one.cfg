SPECIFICATION Spec
CONSTANTS
  Jobs = {j1}
  Workers = {w1, w2}
  Plan <- OneRecord
  None = None
  c1 = c1
  c2 = c2
  MaxAttempts = 2
  MaxRetries = 1
  MaxGrants = 2
  MaxEdits = 1
SYMMETRY Symmetry
INVARIANTS
  Journaled
  ConfirmedReferenced
  CompleteMeansPublished
PROPERTIES
  JournalSpec
CHECK_DEADLOCK FALSE
