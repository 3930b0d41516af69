SPECIFICATION RoutesSpec
CONSTANTS
  Jobs = {j1}
  Workers = {w1, w2}
  Stages = {research, publication}
  PublicationStage = publication
  Inputs = {i1, i2}
  None = None
  MaxAttempts = 1
  LeaseTime = 2
  WorkflowTime = 1
  CooldownTime = 1
  Skew = 1
  MaxRetries = 2
  MaxRevisions = 2
  Requests = {q1, q2}
SYMMETRY Symmetry
INVARIANTS
  AttemptBudget
  RevisionsInClaimOrder
PROPERTIES
  LostForGood
  DeadlineFixed
  LifecycleSpec
CHECK_DEADLOCK FALSE
