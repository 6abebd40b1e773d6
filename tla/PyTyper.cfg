SPECIFICATION FairSpec
CONSTANTS
  Char <- MCChar
  Mapped <- MCMapped
  Near <- MCNear
  Texts <- MCTexts
  NoKey = "none"
  Backspace = "backspace"
  MaxAttempts = 3
  Faulty = {"press", "release"}
  MaxSessions = 2
  MaxLinks = 1
INVARIANTS
  IdleReleased
PROPERTIES
  TypesTheText
  SessionEnds
  ShutdownReleases
CHECK_DEADLOCK FALSE
