SPECIFICATION Spec
CONSTANTS
  Pins <- MCPins
  Nets <- MCNets
  Depth = 2
  Roomy = TRUE
  NumPins = 4
  Shapes <- OneGateOnHold
INVARIANTS StageReadsLive
