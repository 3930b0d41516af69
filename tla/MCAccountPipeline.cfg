SPECIFICATION Spec
CONSTANTS
  Kinds = {"account", "icp", "campaign"}
  None = None
  a1 = a1
  a2 = a2
  d1 = d1
  l1 = l1
  p1 = p1
  p2 = p2
  k1 = k1
  n1 = n1
  t1 = t1
  t2 = t2
  i1 = i1
  i2 = i2
  g1 = g1
  x1 = x1
  Accounts <- Descriptions
  DomainOf <- DomainOfAll
  LinkOf <- LinkOfAll
  People <- Persons
  TokenOf <- TokenOfAll
  NameOf <- NameOfAll
  Texts = {t1}
  Icps <- TwoIcps
  TargetOf <- TargetOfAll
  Strangers <- OneStranger
  Target = 2
  PerCompany = 1
  Candidates = 2
  Attempts = 1
  MaxClaims = 2
  MaxEdits = 1
INVARIANTS
  BundlesPublished
  OneBundlePerCompany
  NoDuplicates
  ScopeWindow
PROPERTIES
  DenialSticks
CHECK_DEADLOCK FALSE
