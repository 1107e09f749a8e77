CONSTANTS
  Node <- ParallelNode
  Arc <- ParallelArc
  Source <- ParallelSource
  Target <- ParallelTarget
  Dist <- ParallelDist
  Far = 100
  StationMaps <- AllMaps
SPECIFICATION Spec
CHECK_DEADLOCK FALSE
INVARIANTS
  TypeOK
  CutsKeepTours
  RowsCutOffCandidate
  CallbackAssertions
  SolutionIsOptimalTour
  InfeasibleIsRight
PROPERTIES
  SolveEnds
  ImplementsTourProblem
