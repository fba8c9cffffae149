SPECIFICATION FairSpec
CONSTANTS
  MMU = "mmu.o"
  PAGE = "page.c"
  MallocZeroes = FALSE
  num_page_frames = 2
  WORD_BITS = 2
  num_tlb_entries = 2
  PAGES_1 = {0, 1}
  PAGES_2 = {0, 1}
  TlbGarbage <- MCTlbGarbage
  VPages <- MCThreePages
  NO_FREE_PAGEFRAME <- MCNoFreePageFrame
  NULL = NULL
  NO_PAGE = NO_PAGE
  NO_FRAME = NO_FRAME
  Stored <- MCOneDatum
INVARIANTS AbsentPagesFault
