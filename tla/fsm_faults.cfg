SPECIFICATION Spec
CONSTANTS
  A = A  B = B  C = C  v1 = v1  v2 = v2
  Brains = {b1}
  Containers = {c1}
  Tactics = {A, B, C}
  Versions = {v1, v2}
  NumChains = 2
  Sequence <- Rewritten
  MaxDuration <- TwoTicks
  PromoteMaxRetries = 2
  Faults = {"get", "set", "expire", "promote", "crash"}
  Missing = Missing
  MaxTime = 4
  MaxEvents = 4
INVARIANTS TypeOK EvidenceBacked DisjointEvidence
PROPERTIES BeyondIsFrozen ImplementsAttackChain
CHECK_DEADLOCK FALSE
