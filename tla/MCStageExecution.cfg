SPECIFICATION LiveSpec
CONSTANTS
  MaxClaims = 2
  Limit = 1
INVARIANTS
  TypeOK
  ResultIsDurable
  NoWorkAfterReap
  FailureReported
PROPERTIES
  CheckpointImmutable
  StageEnds
CHECK_DEADLOCK FALSE
