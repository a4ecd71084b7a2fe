CONSTANTS
  Hubs = {a, b}
  Conns = {c1, c2}
  MaxGeneration = 4
SPECIFICATION FairSpec
INVARIANTS SingleWriter CleanRelease
PROPERTIES ExclusiveEpochs SuccessorPasses
