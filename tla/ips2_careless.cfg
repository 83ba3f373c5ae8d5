SPECIFICATION NeverFetches
CONSTANTS
  P1 = P1
  P2 = P2
  NCpu = 2
  Start <- MCStart
  End <- MCEnd
  Cap <- MCCap
  Total = 4
  Batch = 1
  Producer <- MCProducer
  MaxPkt = 4
  Careless = TRUE
  Beyond = 1
SYMMETRY Symmetry
PROPERTIES
  InUseStable
CHECK_DEADLOCK FALSE
