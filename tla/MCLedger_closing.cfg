SPECIFICATION Spec
CONSTANTS
  c1 = c1 c2 = c2
  Client <- TwoClients
  NewProject = {"ready_for_generation"}
  MaxShots = 2
  MaxAttempts = 2
  MaxAttemptsPerShot = 2
  Budget = 2
  MaxVersion = 0
SYMMETRY AnyClient
INVARIANT CompletedIsAccepted
PROPERTY ClosedIsFinal
