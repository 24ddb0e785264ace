SPECIFICATION Spec
CONSTANTS
  Tactics = {"TA0001", "TA0002"}
  Techniques = {"T1078"}
  SubTechniques = {"T1078.001", "T1078.002"}
  SemanticTags = {"mitre_execution"}
  NoiseTags = {"maturity_stable"}
  OtherTags = {"shell"}
  NoId = ""
  MaxTechniques = 3
  MaxSubs = 1
  MaxTags = 3
INVARIANTS TypeOK LastTacticWins FirstMostSpecific MappedAsWritten
CHECK_DEADLOCK FALSE
