CONSTANTS
  N = 2
  Msgs = {m1}
  Peers = {"p"}
  Views <- FullView
  Threshold = 2
  ThresholdMayFail = FALSE
  TurnDuration = 1
  TurnNoWork = 0
  Timeout = 4
  ResponseDelay = 1
  MessageValid = 1
  SignPerRoundLimit = 1
  StartTime = 1
  MaxTime = 3
  MaxFaults = 1
  None = None
SPECIFICATION Spec
INVARIANTS
  PeersAgreed
  CacheSigned
  QuorumStart
PROPERTIES
  AcceptedInRound
