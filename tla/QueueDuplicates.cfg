CONSTANTS
  N = 2
  Me = 0
  Threshold = 2
  Msgs = {m1, m2}
  Life = 2
  SignPerRoundLimit = 2
  Overlapping = TRUE
  Tasks = {t1, t2, t3, t4, t5}
  Quota <- TwoEach
  MaxRound = 2
  None = None
SPECIFICATION Spec
CHECK_DEADLOCK FALSE
SYMMETRY Symmetry
INVARIANTS
  NoDuplicates
