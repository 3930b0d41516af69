SPECIFICATION Spec
CONSTANTS
  Order <- OneField
  Workers = {w1, w2}
  f1 = f1
  MaxRetries = 1
  MaxClaims = 2
  MaxEdits = 2
SYMMETRY Symmetry
INVARIANTS
  OutcomesObserved
PROPERTIES
  PeopleWin
  JournalSpec
CHECK_DEADLOCK FALSE
