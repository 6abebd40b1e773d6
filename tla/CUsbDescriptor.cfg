SPECIFICATION ReportsSpec
CONSTANTS
  MaxDeltas = {5}
  Sample = {0, 1}
INVARIANTS
  EveryPartIsAccepted
CHECK_DEADLOCK FALSE
