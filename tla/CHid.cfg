SPECIFICATION ReportsSpec
CONSTANTS
  MaxDeltas <- MCMaxDeltas
  Sample <- MCSample
INVARIANTS
  JiggleSeenAndUndone
PROPERTIES
  KeystrokesArrive
CHECK_DEADLOCK FALSE
