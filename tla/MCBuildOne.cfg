SPECIFICATION Spec
CONSTANTS
  Pins <- MCPins
  Nets <- MCNets
  Depth = 2
  Roomy = FALSE
  NumPins = 6
  Shapes <- AllShapes
INVARIANTS LiveWhenShared DemandedLive NeverEmpty EndpointsWritten StagesBounded
