SPECIFICATION Spec
CONSTANTS
  Netlists <- MCShift
  Stimulus <- AllSignals
  Driven <- MCDriven
  MaxTime = 3
PROPERTIES ShiftsOnItsClock
CHECK_DEADLOCK FALSE
