CONSTANTS
  N = 2
  NeedGuard = 2
  ActiveTimeout = 2
  HeartbeatTimeout = 1
  MessageValid = 1
  Prompt = FALSE
  Callers = {0}
  StartTime = 2
  MaxTime = 6
  MaxRestarts = 1
  MaxNonces = 2
  None = None
SPECIFICATION Spec
CHECK_DEADLOCK FALSE
INVARIANTS
  TypeOK
  ActiveAlive
  NobodyWaits
PROPERTIES
  PeerForward
