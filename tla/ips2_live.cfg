SPECIFICATION FairSpec
CONSTANTS
  P1 = P1
  P2 = P2
  NCpu = 2
  Start <- MCStart
  End <- MCEnd
  Cap <- MCCap
  Total = 4
  Batch = 2
  Producer <- MCOneProducer
  MaxPkt = 3
  Careless = FALSE
  Beyond = 0
PROPERTIES
  Fetched
  Recycled
CHECK_DEADLOCK FALSE
