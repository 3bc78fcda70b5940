SPECIFICATION SetupSpec
CONSTANTS
  Affinity <- MCAffinity
  MainCore = 1
  IBATThread = 3
  Threads <- MCThreads
  Detached = {}
  KernelPages = {1}
INVARIANTS
  SegmentOnAllCores
CHECK_DEADLOCK FALSE
