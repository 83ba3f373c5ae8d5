SPECIFICATION Spec
CONSTANTS
  P1 = P1
  P2 = P2
  NCpu = 2
  Start <- MCStart
  End <- MCEnd
  Cap <- MCCap
  Total = 4
  Batch = 2
  Producer <- MCProducer
  MaxPkt = 3
  Careless = FALSE
  Beyond = 0
SYMMETRY Symmetry
INVARIANTS
  TypeOK
  SlotConservation
  BatchFits
  NoLostWakeup
PROPERTIES
  LoanStable
  ImplementsChannel
CHECK_DEADLOCK FALSE
