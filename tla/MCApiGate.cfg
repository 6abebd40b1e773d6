SPECIFICATION GateSpec
CONSTANTS
  c1 = c1
  c2 = c2
  Client = {c1, c2}
  MaxRequests = 2
  Window = 3
  MaxTime = 7
  MaxCalls = 5
SYMMETRY Clients
INVARIANTS
  RateBound
PROPERTIES
  RefusalIsEarned
CHECK_DEADLOCK FALSE
