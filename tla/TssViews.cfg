CONSTANTS
  N = 3
  Msgs = {m1}
  Peers = {"p", "old"}
  Views <- MixedView
  Threshold = 2
  ThresholdMayFail = FALSE
  TurnDuration = 2
  TurnNoWork = 1
  Timeout = 2
  ResponseDelay = 1
  MessageValid = 1
  SignPerRoundLimit = 1
  StartTime = 3
  MaxTime = 5
  MaxFaults = 0
  None = None
SPECIFICATION Spec
INVARIANTS
  TypeOK
  SamePeers
  StartedTogether
  RoundLimit
  OneCeremony
PROPERTIES
  Implements
