SPECIFICATION Spec
CONSTANTS
  Plan <- OnePhaseBefore
  MaxParts = 1
INVARIANTS ReadsInOrder
