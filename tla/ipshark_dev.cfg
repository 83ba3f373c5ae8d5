SPECIFICATION Spec
CONSTANTS
  Thread = {"t1", "t2"}
  Ctx = {"c0"}
  Dev = {"eth0", "lo"}
  NoDev = "NULL"
  Paths <- MCPaths
  Lists <- MCLists
  Cap = 2
  Enough = 1
  MaxFetch = 1
CHECK_DEADLOCK FALSE
INVARIANTS
  TypeOK
  MemorySafe
  OpenMeansReady
  SingleFetcher
  StateMatchesSet
  ListHonoured
