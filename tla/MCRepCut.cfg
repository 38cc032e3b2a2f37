SPECIFICATION SpecRC
CONSTANTS
  Pins <- MCPins
  Endpoints <- MCEndpoints
  Designs <- MCDesigns
  Splits <- MCSplits
  BlockSize = 2
  EdgeLimit = 2
  NumPins = 5
  NumEndpoints = 2
  Shapes <- AllShapes
INVARIANTS LiveAreWanted PanicOnlyIdle EndpointsOnce StagedAsCut HypergraphExact
CHECK_DEADLOCK FALSE
