SPECIFICATION Spec
CONSTANTS
  Pins <- MCPins
  Nets <- MCNets
  Depth = 2
  Roomy = TRUE
  NumPins = 3
  Shapes <- MacroFeedsState
INVARIANTS StageReadsLive
