SPECIFICATION EvaluateSpec
CONSTANTS
  Kinds <- MCKinds
  MaxSignals = 12
  Pods <- MCPods
  Searches = {"c4a1", "c2ff", "b7d", "0000", ""}
  NoId = ""
  Containing <- MCContaining
INVARIANTS AtLeastStrongest ChainIsCritical OrderIsIrrelevant IncidentNamesOwner
PROPERTY RiskIsMonotone
CHECK_DEADLOCK FALSE
