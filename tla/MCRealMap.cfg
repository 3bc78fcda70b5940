SPECIFICATION Spec
CONSTANTS
  mem_mapping <- RealMapping
  EaOffset <- RealEaOffset
  BatEaStart = 64
  BatEaEnd = 128
  BatPaStart = 6208
  EffPages <- RealEffPages
  AddressPages = 32768
  SegmentPages = 2048
  SRTable <- RealSRTable
  PTEGs <- RealPTEGs
  PTEGSize = 8
  PTEG1 <- RealPTEG1
  PTEG2 <- RealPTEG2
  API <- RealAPI
  ForeignPTEs <- EmptyTable
  HashBits = 19
  LowGroups = 1024
  HTABMASK = 1
  ApiPages = 32
INVARIANTS
  PlacedPagesTranslate
  OwnEntriesSpread
CHECK_DEADLOCK FALSE
