SPECIFICATION Spec
CONSTANTS
  TTL = 2
  MaxTime = 5
  MaxUpdates = 3
  MaxFaults = 2
INVARIANTS TypeOK LeaksAreHealed RecentIsCounted
CHECK_DEADLOCK FALSE
