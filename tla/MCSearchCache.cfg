SPECIFICATION CacheLiveSpec
CONSTANTS
  Callers = {c1, c2, c3}
  MaxSearches = 1
INVARIANTS
  SingleFlight
PROPERTIES
  PublishedByNewestLease
  SearchEnds
CHECK_DEADLOCK FALSE
