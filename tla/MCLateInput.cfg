SPECIFICATION Spec
CONSTANTS
  Macro <- Three
  Gate <- MCGate
  Bases <- LateInput
  Nets <- MCNets
  MaxWires = 0
  MaxLanes = 2
  MaxDepth = 8
INVARIANTS WavesOrdered

