SPECIFICATION Spec
CONSTANTS
  p1 = p1
  p2 = p2
  r1 = r1
  u1 = u1
  Listeners = {p1, p2}
  Relays = {r1}
  Urls = {u1}
  GuardsCount = 3
  MaxRetries = 1
  MaxMessages = 2
  MaxFaults = 1
INVARIANTS
  TypeOK
  RelaysWatched
  IdentityKept
PROPERTIES
  Implements
  NoSilentLoss
  Settles
  KeygenCalled
CHECK_DEADLOCK FALSE
