SPECIFICATION Spec
CONSTANTS
  t1 = t1
  t2 = t2
  e1 = e1
  e2 = e2
  Caller = {t1, t2}
  NCpu = 2
  Addr = {"v4", "v6", "len0", "len255"}
  Empty = {"len0"}
  Long = {"len255"}
  Stored <- MCStored
  Nums = {1, 2}
  TypeIdx = {0, 1}
  Entries = {e1, e2}
  MaxPkts = 1
SYMMETRY MCSymmetry
CHECK_DEADLOCK FALSE
INVARIANTS
  TypeOK
  MemorySafe
  ReadRegular
  CountsKept
  OneEntry
