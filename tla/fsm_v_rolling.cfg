SPECIFICATION Spec
CONSTANTS
  A = A  B = B  C = C  v1 = v1  v2 = v2
  Brains = {b1, b2}
  Containers = {c1}
  Tactics = {A, B, C}
  Versions = {v1}
  NumChains = 1
  Sequence <- FourSteps
  MaxDuration <- TwoTicks
  PromoteMaxRetries = 2
  Faults = {}
  Missing = Missing
  MaxTime = 3
  MaxEvents = 6
PROPERTY PromoteAdvances
CHECK_DEADLOCK FALSE
