SPECIFICATION Spec
CONSTANTS
  Designs <- MCDesigns
  NumBlocks = 2
  WordBits = 2
  InputWords = 1
  SramWords = 2
  DescRange = 16
  MaxEnds = 2
  Zeros = TRUE
  MaxSrams = 8
INVARIANTS ZeroFlopsPlaced
CHECK_DEADLOCK FALSE
