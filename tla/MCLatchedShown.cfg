SPECIFICATION Spec
CONSTANTS
  Netlists <- MCNetlists
  Stimulus <- MCStimulus
  Driven <- AllDriven
  MaxTime = 6
PROPERTIES GemImplementsEventSim
CHECK_DEADLOCK FALSE
