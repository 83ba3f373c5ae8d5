SPECIFICATION Spec
CONSTANTS
  t1 = t1
  t2 = t2
  c1 = c1
  c2 = c2
  Caller = {t1, t2}
  CPU = {c1, c2}
  MaxConfig = 2
SYMMETRY MCSymmetry
CHECK_DEADLOCK FALSE
INVARIANTS
  MemorySafe
  ConfigAnswers
