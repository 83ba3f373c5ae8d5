SPECIFICATION Spec
CONSTANTS
  NCpu = 2
  IP_FIFO_SIZE = 2
  Enough = 1
  MaxFetch = 4
  MaxPkts = 3
  MaxFaults = 1
  First = 2
  Part = 2
  Block = 2
  Buffers = {"b1", "b2"}
INVARIANTS
  TypeOK
  InOrderOnce
  TakesAll
  BatchFits
PROPERTIES
  StopReturns
  KeepsFetching
