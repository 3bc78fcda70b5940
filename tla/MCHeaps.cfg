SPECIFICATION Spec
CONSTANTS
  mem_mapping <- MCMapping
  MEMORY_START_VIDEO = 17
  MEMORY_END_VIDEO = 22
  HeapHeader = 1
  BlockHeader = 1
  AddressSpace = 32
  Threads = {t1, t2}
  Requests <- MCRequests
  ForeignPointers = {0, 8}
INVARIANTS
  HeapsTypeOK
  EveryBlockOwned
  FailureIsTruthful
  AnswersBounded
  BlockFoundInItsHeap
PROPERTIES
  AllocatorPromise
