CONSTANTS
  N = 3
  NeedGuard = 3
  ActiveTimeout = 4
  HeartbeatTimeout = 2
  MessageValid = 2
  Prompt = TRUE
  Callers = {}
  StartTime = 5
  MaxTime = 14
  MaxRestarts = 0
  MaxNonces = 20
  None = None
SPECIFICATION Spec
CHECK_DEADLOCK FALSE
INVARIANTS
  AllRegistered
  EnoughActive
PROPERTIES
  StaysActive
