SPECIFICATION Spec
CONSTANTS
  u1 = u1
  u2 = u2
  Urls <- TwoUrls
  Inputs <- FirstUrl
  Queries = {q1, q2}
  NoUrl = NoUrl
  MaxTurns = 3
  MaxIdle = 2
  MaxRetries = 1
  MaxClaims = 2
  MaxActions = 2
  Allowance = 3
  Limit <- Limits
INVARIANTS
  HonestEnd
  MeasuredOnce
PROPERTIES
  OutageContained
CHECK_DEADLOCK FALSE
