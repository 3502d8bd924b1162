SPECIFICATION Spec
CONSTANTS
  None = None
  Oversize = Oversize
  ListLimit = 1
  Clients = {ann, ben}
  MaxCommands = 3
  MaxFaults = 1
SYMMETRY Interchangeable
INVARIANT CommittedIsAnswered
PROPERTIES EditsAreSeen
CHECK_DEADLOCK FALSE
