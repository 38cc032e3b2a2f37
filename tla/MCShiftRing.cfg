SPECIFICATION Spec
CONSTANTS
  Macro <- Three
  Gate <- MCGate
  Bases <- ShiftRing
  Nets <- RingNets
  MaxWires = 0
  MaxLanes = 2
  MaxDepth = 8
INVARIANTS DepthBounded

