SPECIFICATION Spec
CONSTANTS
  Designs <- MCDesigns
  NumBlocks = 2
  WordBits = 2
  InputWords = 1
  SramWords = 2
  DescRange = 16
  MaxEnds = 3
  Zeros = FALSE
  MaxSrams = 8
INVARIANTS NoWordShared GatherApart FlopsCommitted MemoriesCommitted OutputsCommitted StateApart
CHECK_DEADLOCK FALSE
