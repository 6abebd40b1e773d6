SPECIFICATION FairSpec
CONSTANTS
  Char <- MCChar
  Mapped <- MCMapped
  Near <- MCNear
  NoKey = "none"
  Backspace = "backspace"
  Blank <- MCBlank
  Answers <- MCAnswers
  Documents <- MCDocuments
  Faulty = {"press", "release"}
  MaxFaults = 1
  MaxSessions = 2
INVARIANTS
  TypeOK
  DamageBounded
  KeyDownOnlyIfLost
  
PROPERTIES
  TypesTheText
  ShutdownEnds
CHECK_DEADLOCK FALSE
