SPECIFICATION Spec
CONSTANTS
  Addr = {a1, a2}
  Ip = {i1}
  Nobody = Nobody
  MaxRequests = 1
  TableSize = 1
  TicksPerSecond = 2
  MaxTime = 3
  MaxCalls = 3
  MaxSteps = 1
  Piece = {"jiggle", "type", "space", "end"}
  Bodies <- MCBodies
  Mode = {"jiggle", "type"}
  End = "end"
  MaxPost = 3
  MaxBodies = 2
  None = None
INVARIANTS
  TypeOK
  FixedWindowBound
  BodiesAccounted
PROPERTIES
  RefusalIsEarned
  StateFollowsRequests
CHECK_DEADLOCK FALSE
