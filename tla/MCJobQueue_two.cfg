SPECIFICATION LiveSpec
CONSTANTS
  Jobs = {j1, j2}
  Workers = {w1, w2}
  Stages = {publication}
  PublicationStage = publication
  Inputs = {i1}
  None = None
  MaxAttempts = 2
  LeaseTime = 1
  WorkflowTime = 1
  CooldownTime = 1
  Skew = 0
  MaxRetries = 0
  MaxRevisions = 1
PROPERTIES
  EveryJobSettles
CHECK_DEADLOCK FALSE
