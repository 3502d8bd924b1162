SPECIFICATION Spec
CONSTANTS
  None = None
  Oversize = Oversize
  ListLimit = 1
  MaxTime = 2
  Sessions <- SomeSessions
CHECK_DEADLOCK FALSE
INVARIANTS SameRows KnownSplits SameCodes RetryIsAnswered
PROPERTIES TerminalIsFrozen
