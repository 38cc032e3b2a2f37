SPECIFICATION Spec
CONSTANTS
  Designs <- SramDesigns
  NumBlocks = 2
  WordBits = 2
  InputWords = 1
  SramWords = 2
  DescRange = 16
  MaxEnds = 2
  Zeros = FALSE
  MaxSrams = 8
INVARIANTS StateApart
CHECK_DEADLOCK FALSE
