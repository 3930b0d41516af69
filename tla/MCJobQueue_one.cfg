SPECIFICATION Spec
CONSTANTS
  Jobs = {j1}
  Workers = {w1, w2}
  Stages = {research, publication}
  PublicationStage = publication
  Inputs = {i1, i2}
  None = None
  MaxAttempts = 3
  LeaseTime = 2
  WorkflowTime = 1
  CooldownTime = 1
  Skew = 1
  MaxRetries = 1
  MaxRevisions = 2
SYMMETRY Symmetry
INVARIANTS
  RevisionsInClaimOrder
PROPERTIES
  LostForGood
CHECK_DEADLOCK FALSE
