SPECIFICATION LifecycleSpec
CONSTANTS
  mem_mapping <- MCMapping
  EaOffset <- MCOffset
  BatEaStart = 4
  BatEaEnd = 6
  BatPaStart = 28
  KernelMap <- MCKernelMap
  SegmentPages = 8
  MEMORY_START_BASE = 8
  CodeStart = 4
  CodeEnd = 6
  Cores = {c0, c1}
  MainCore = c1
  Blocks = {b1}
  Debug = TRUE
INVARIANTS
  LifecycleTypeOK
  BlocksSurvive
  HeapsExistWhenRead
  TranslatedIsMapped
  TranslationsAgree
  ChecksAgree
CHECK_DEADLOCK FALSE
