CONSTANTS
  LineMaps <- ShortLines
  UintRange = 64
  change_cost = 5
  switch_cost = 7
SPECIFICATION StationSpec
CHECK_DEADLOCK FALSE
INVARIANT DegreeAssertion
