SPECIFICATION Spec
CONSTANTS
  mem_mapping <- MCMapping
  EaOffset <- MCEaOffset
  BatEaStart = 1
  BatEaEnd = 3
  BatPaStart = 50
  EffPages <- MCEffPages
  AddressPages = 32
  SegmentPages = 8
  SRTable <- MCSRTable
  PTEGs <- MCPTEGs
  PTEGSize = 4
  PTEG1 <- PrimaryGroup
  PTEG2 <- SecondaryGroup
  API <- PageApi
  ForeignPTEs <- MCForeignPTEs
  HashBits = 3
  LowGroups = 2
  HTABMASK = 0
  ApiPages = 2
INVARIANTS
  FailsOnlyOnValidEntries
CHECK_DEADLOCK FALSE
