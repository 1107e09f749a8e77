CONSTANTS
  Node <- SmallNode
  Arc <- SmallArc
  Source <- SmallSource
  Target <- SmallTarget
  Dist <- NoLength
  NoNode = NoNode
  NoArc = NoArc
SPECIFICATION Spec
CHECK_DEADLOCK FALSE
INVARIANTS
  TypeOK
  ListsAreWalks
  BalancedGivesComponent
PROPERTY
  ImplementsEulerTour
