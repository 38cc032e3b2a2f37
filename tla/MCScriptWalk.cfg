SPECIFICATION Spec
CONSTANTS
  Plan <- PlanOf
  MaxParts = 2
INVARIANTS ReadsInOrder ConsumesAll PrefetchInBounds
