SPECIFICATION FairSpec
CONSTANTS
  N = 3
  Required = 2
  TxTimeout = 1
  Slack = 0
  Known = {TRUE}
  ContextFails = FALSE
  SignFailing = {}
  UnfitThrows = FALSE
  PromptFrom = 0
  SignAgain = {}
  MaxTurn = 2
  MaxGen = 3
  MaxCalls = 1
PROPERTY CleanedUp
CHECK_DEADLOCK FALSE
