CONSTANTS
  Tours <- SomeTours
  NoStart = NoStart
  Missing = Missing
  UintRange = 16
SPECIFICATION Spec
CHECK_DEADLOCK FALSE
INVARIANTS
  TypeOK
  ContinuityAssertion
  RowsAreRides
  TableIsClosed
PROPERTY
  ImplementsTourTable
