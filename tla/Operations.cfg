SPECIFICATION Spec
CONSTANTS
  keygen = keygen
  m1 = m1
  Signs = {m1}
  Keygen = keygen
  Capacity = 1
  MaxOps = 2
  MaxMessages = 2
INVARIANTS
  TypeOK
  OneOperation
  CallerCalled
PROPERTIES
  Ends
CHECK_DEADLOCK FALSE
