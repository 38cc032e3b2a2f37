SPECIFICATION Spec
CONSTANTS
  b1 = b1
  b2 = b2
  b3 = b3
  in = in
  x = x
  y = y
  z = z
  s = s
  t = t
  ram = ram
  srl = srl
  Block <- MCBlock
  NumStages = 2
  NumCycles = 2
  Word <- MCWord
  InputWord <- MCInputWord
  Memory <- MCMemory
  Script <- MCScript
  Capacities <- MCCapacities
INVARIANTS RowsExact
PROPERTIES UpdatedOncePerCycle StoredOnce Completes ImplementsCircuit
