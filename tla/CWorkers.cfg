SPECIFICATION FairSpec
CONSTANTS
  Worker = {"jiggler", "typer"}
  Sigs = {"INT"}
  MaxSignals = 3
INVARIANTS
  TornDownInOrder
  NoStrayJoin
PROPERTIES
  ShutdownEnds
CHECK_DEADLOCK FALSE
