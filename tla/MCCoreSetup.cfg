SPECIFICATION SetupSpec
CONSTANTS
  Affinity <- MCAffinity
  MainCore = 1
  IBATThread = 3
  Threads <- MCThreads
  Detached = {}
  KernelPages = {1}
INVARIANTS
  SetupTypeOK
  SyscallFindsItsCode
  EveryCoreServed
  FaultOnlyWhenIncomplete
  KernelPagesKept
  DefaultHeapCleanAfterwards
PROPERTIES
  SetupReturns
CHECK_DEADLOCK FALSE
