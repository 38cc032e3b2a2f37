SPECIFICATION Spec
CONSTANTS
  Netlists <- MCNetlists
  Stimulus <- MCStimulus
  Driven <- MCDriven
  MaxTime = 6
INVARIANTS BuiltWhenLegal AigExact NaiveFollowsGem
PROPERTIES GemImplementsEventSim
CHECK_DEADLOCK FALSE
