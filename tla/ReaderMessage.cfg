CONSTANTS
  Files <- SomeFiles
  BadTime = BadTime
  MaxReads = 1
  UintRange = 8
SPECIFICATION Spec
CHECK_DEADLOCK FALSE
INVARIANT MessageNamesStation
