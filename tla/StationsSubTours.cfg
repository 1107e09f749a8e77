CONSTANTS
  Node <- TrunkNode
  Arc <- TrunkArc
  Source <- TrunkSource
  Target <- TrunkTarget
  Dist <- TrunkDist
  Far = 100
  StationMaps <- TrunkMaps
SPECIFICATION Spec
CHECK_DEADLOCK FALSE
INVARIANT
  NoSubTours
