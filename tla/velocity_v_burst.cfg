SPECIFICATION Spec
CONSTANTS
  Containers = {"c1"}
  Priorities <- BehaviorIds
  Window = 2
  MaxDelay = 0
  MaxAhead = 0
  MaxTime = 3
  MaxEvents = 3
INVARIANT BurstIsScored
CHECK_DEADLOCK FALSE
