SPECIFICATION Spec
CONSTANTS
  Netlists <- MCTwoClocks
  Stimulus <- AllSignals
  Driven <- MCDriven
  MaxTime = 3
INVARIANTS FlagsOfTimestamp
CHECK_DEADLOCK FALSE
