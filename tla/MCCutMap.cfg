SPECIFICATION Spec
CONSTANTS
  e1 = e1
  e2 = e2
  e3 = e3
  Endpoint <- MCEndpoint
  Node <- MCNode
  Cone <- MCCone
  StageCounts <- MCStageCounts
  InitialDivision = 4
  TrialFloor = 0
  TrialDivisor = 8
  FirstStride = 1
  MaxParts = 4
  MaxStageDegrad = 1
INVARIANTS TypeOK EndpointsOnce MergeCostSound StageBudget
PROPERTIES MergingEnds ImplementsClustering
