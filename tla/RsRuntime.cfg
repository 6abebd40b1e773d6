SPECIFICATION FairSpec
CONSTANTS
  Char <- MCChar
  Mapped <- MCMapped
  Near <- MCNear
  Texts <- MCTexts
  NoKey = "none"
  Backspace = "backspace"
  MaxSessions = 2
  MaxLinks = 1
INVARIANTS
  LeavesHostTidy
PROPERTIES
  TypesTheText
  ShutdownEnds
CHECK_DEADLOCK FALSE
