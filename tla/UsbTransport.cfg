SPECIFICATION FairSpec
CONSTANTS
  Ports = {"py", "rs", "c"}
  Main = Main
  Requests = {r1}
  MaxFaults = 2
  MaxCrashes = 2
INVARIANTS
  TypeOK
  ReadyWhenConnected
  FailureIsEarned
  TidyAfterDisconnect
PROPERTIES
  ComesUp
