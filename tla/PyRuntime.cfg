SPECIFICATION FairSpec
CONSTANTS
  Main = "main"
  Requests = {"r1", "r2"}
  None = "none"
  MaxDrops = 1
  Workers = {"typer"}
INVARIANTS
  ConnectedMeansOpen
  StartsClean
PROPERTIES
  ReplyIsTruthful
  ReconnectHeals
  EveryCallReturns
  ShutdownEnds
CHECK_DEADLOCK FALSE
