SPECIFICATION FairSpec
CONSTANTS
  MMU = "mmu.c"
  PAGE = "page.o"
  MallocZeroes = TRUE
  num_page_frames = 3
  WORD_BITS = 2
  num_tlb_entries = 2
  PAGES_1 = {0, 1}
  PAGES_2 = {0, 1}
  TlbGarbage <- MCTlbGarbage
  VPages <- MCFourPages
  NO_FREE_PAGEFRAME <- MCNoFreePageFrame
  NULL = NULL
  NO_PAGE = NO_PAGE
  NO_FRAME = NO_FRAME
  Stored <- MCOneDatum
INVARIANTS EvictionFindsPages
