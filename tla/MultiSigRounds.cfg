SPECIFICATION Spec
CONSTANTS
  N = 3
  Required = 2
  TxTimeout = 1
  Slack = 1
  Known = {TRUE, FALSE}
  ContextFails = TRUE
  SignFailing = {2}
  UnfitThrows = TRUE
  PromptFrom = 1
  SignAgain = {"timed out"}
  MaxTurn = 2
  MaxGen = 3
  MaxCalls = 1
INVARIANTS
  TypeOK
  OpenPromiseQueued
PROPERTIES
  Recovers
  Implements
CHECK_DEADLOCK FALSE
