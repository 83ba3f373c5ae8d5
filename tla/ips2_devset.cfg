SPECIFICATION Spec
CONSTANTS
  n1 = n1
  n2 = n2
  n3 = n3
  n4 = n4
  n5 = n5
  NoDev = NoDev
  Name <- MCName
  jhash <- MChash
  Configs <- MCConfigs
CHECK_DEADLOCK FALSE
INVARIANTS
  Ordered
  WindowHolds
  VerdictRight
