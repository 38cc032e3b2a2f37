SPECIFICATION ScanSpec
CONSTANTS
  Lanes = 4
  LaneInputs <- MCLaneInputs
INVARIANTS ScanTypeOK ScanAgrees ScanInvariant
