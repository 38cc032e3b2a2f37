SPECIFICATION Spec
CONSTANTS
  Macro <- Four
  Gate <- MCGate
  Bases <- AllBases
  Nets <- MCNets
  MaxWires = 2
  MaxLanes = 2
  MaxDepth = 8
INVARIANTS PlacedOnce OrderedWhenKeyed
PROPERTIES Terminates
