CONSTANTS
  Files <- SomeFiles
  BadTime = BadTime
  MaxReads = 2
  UintRange = 8
SPECIFICATION Spec
CHECK_DEADLOCK FALSE
INVARIANTS
  TypeOK
  OneStopAtMostIsHalfRead
  NetworkIsConsistent
  RideTimesSurvive
PROPERTIES
  FinishedLinesStay
  ImplementsTransportFile
