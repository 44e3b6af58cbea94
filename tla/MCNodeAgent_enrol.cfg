SPECIFICATION FairSpec
CONSTANTS
  None = none
  MaxDrawn = 20
  MaxActs = 2
  MaxFaults = 2
PROPERTIES KeepsItsPromise ReturnsOnline
CHECK_DEADLOCK FALSE
