SPECIFICATION Spec
CONSTANTS
  c1 = c1 c2 = c2
  Client <- TwoClients
  NewProject = {"draft", "ready_for_generation"}
  MaxShots = 1
  MaxAttempts = 3
  MaxAttemptsPerShot = 2
  Budget = 3
  MaxVersion = 5
SYMMETRY AnyClient
INVARIANTS OnePendingPerShot AttemptLimit AcceptedIsUnique
PROPERTY PinsSurvive
