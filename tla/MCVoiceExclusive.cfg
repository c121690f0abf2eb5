SPECIFICATION Spec
CONSTANTS
  Size = 1
  Clients = {c1, c2}
  MaxSessions = 2
  Null = Null
CHECK_DEADLOCK FALSE
INVARIANT ExclusiveWorker
