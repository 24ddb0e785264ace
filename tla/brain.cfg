SPECIFICATION FairSpec
CONSTANTS
  EventsCap = 1
  AlertCap = 1
  InputCap = 2
  NumChains = 2
  MaxEvents = 3
INVARIANTS TypeOK DetectionsAreKept AlertsAreAccounted ChainIsNotOvertaken
PROPERTY AcceptedIsTaken
CHECK_DEADLOCK FALSE
