SPECIFICATION Spec
CONSTANTS
  t1 = t1
  t2 = t2
  t3 = t3
  Threads <- MCThreads
  Detached <- MCDetached
INVARIANTS
  ThreadInv
  ThreadKeepsItsMemory
  DefaultHeapClean
PROPERTIES
  CallbackRunsOnce
  DestructorReturns
