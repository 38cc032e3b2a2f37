SPECIFICATION Spec
CONSTANTS
  Macro <- Three
  Gate <- MCGate
  Bases <- EarlyOutput
  Nets <- EarlyNets
  MaxWires = 0
  MaxLanes = 2
  MaxDepth = 8
INVARIANTS WavesOrdered

