SPECIFICATION ConfigSpec
CONSTANTS
  Section <- MCSection
  Handled <- MCHandled
  Key <- MCKey
  Value <- MCValue
  MaxPrompts = 1
  MaxEvents = 12
INVARIANTS
  ConfigTypeOK
  ReadAsWritten
CHECK_DEADLOCK FALSE
