SPECIFICATION Spec
CONSTANTS
  t1 = t1
  t2 = t2
  Thread <- MCThread
  Rules <- UniformRules
  Packets <- UniformPackets
  MaxRules = 4
SYMMETRY Threads
INVARIANTS
  TypeOK
  WalkInTree
  NothingBehind
  FoundIfMatches
PROPERTIES
  ImplementsTable
