SPECIFICATION Spec
CONSTANTS
  NCpu = 3
  Word = 16
  Tables <- MCTables
  Sizes <- MCSizes
INVARIANTS
  TypeOK
  RangesPartition
  HandsOver
  NothingLeft
