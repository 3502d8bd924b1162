SPECIFICATION Spec
CONSTANTS
  c1 = c1 c2 = c2
  Client <- TwoClients
  NewProject = {"draft", "ready_for_generation"}
  MaxShots = 3
  MaxAttempts = 3
  MaxAttemptsPerShot = 2
  Budget = 2
  MaxVersion = 0
SYMMETRY AnyClient
INVARIANT BudgetGoverns
