SPECIFICATION TestSpec
CONSTANTS
  Tester = Tester
  NCpu = 3
  Start <- MCStart
  End <- MCEnd
  Cap <- MCCap
  Total = 12
  Batch = 4
  Producer <- MCProducer
  MaxPkt = 4
  Careless = FALSE
  Beyond = 0
INVARIANTS
  IdxNumIsK
CHECK_DEADLOCK FALSE
