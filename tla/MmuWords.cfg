SPECIFICATION Spec
CONSTANTS
  ENTRY_BITS = 6
  INDEX_1_BITS = 1
  INDEX_2_BITS = 1
  OFFSET_BITS = 1
  FRAME_BITS = 3
  WORD_BITS = 2
  num_page_frames = 4
  num_tlb_entries = 2
  Accessed <- MCAccessed
  TlbGarbage <- MCTlbGarbage
  BitmapGarbage <- MCBitmapGarbage
  TableGarbage <- MCCleanTables
  NULL = NULL
  NO_FREE_PAGEFRAME <- MCNoFreePageFrame
  NO_PAGE = NO_PAGE
INVARIANTS TypeOK MappingsAgree NoAliasing
PROPERTIES ImplementsRecords
CHECK_DEADLOCK FALSE
