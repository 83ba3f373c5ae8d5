SPECIFICATION MixedSpec
CONSTANTS
  t1 = t1
  t2 = t2
  Thread <- MCThread
  Rules <- MixedRules
  Packets <- MixedPackets
  MaxRules = 2
INVARIANTS
  FoundIfMatches
