CONSTANTS
  LineMaps <- SomeLines
  UintRange = 64
  change_cost = 5
  switch_cost = 7
SPECIFICATION Spec
CHECK_DEADLOCK FALSE
INVARIANTS
  TypeOK
  DegreeAssertion
  ChainAssertions
  TwinOfItself
  StronglyConnected
  RemovedStationsAreVisited
PROPERTY
  ImplementsTransportGraph
