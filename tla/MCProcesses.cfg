CONSTANTS
  N = 3
  Linked = {1, 3}
  Parallel = {1, 2}
  MaxCalls = 2
SPECIFICATION FairSpec
INVARIANTS LinksComplete CancelledStops FamilyGone
PROPERTIES CancelledEnds CleanupEnds
CHECK_DEADLOCK FALSE
