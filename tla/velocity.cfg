SPECIFICATION Spec
CONSTANTS
  Containers = {"c1"}
  Priorities <- BehaviorIds
  Window = 2
  MaxDelay = 1
  MaxAhead = 1
  MaxTime = 7
  MaxEvents = 5
INVARIANTS TypeOK SetIsBounded
PROPERTIES WindowIsExact WindowIsComplete
CHECK_DEADLOCK FALSE
