SPECIFICATION Spec
CONSTANTS
  EventsCap = 2
  AlertCap = 1
  InputCap = 1
  NumChains = 1
  MaxEvents = 2
INVARIANT NoPanic
CHECK_DEADLOCK FALSE
