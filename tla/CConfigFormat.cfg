SPECIFICATION ConfigSpec
CONSTANTS
  Section <- MCSection
  Handled <- MCHandled
  Key <- MCKey
  Value <- MCValue
  MaxPrompts = 1
  MaxEvents = 9
INVARIANTS
  SameFormat
CHECK_DEADLOCK FALSE
