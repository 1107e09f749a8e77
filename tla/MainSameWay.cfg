CONSTANTS
  Files <- SameWayTwice
  BadTime = BadTime
  MaxReads = 1
  UintRange = 128
  MaxLength = 120
  CHANGING_TIME = 5
  SWITCHING_TIME = 5
  StartStation = "z"
  NoStart = NoStart
SPECIFICATION Spec
CHECK_DEADLOCK FALSE
INVARIANT NoArcIsNeededTwice
