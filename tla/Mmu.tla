-------------------------------- MODULE Mmu ---------------------------------
(***************************************************************************)
(* Address translation: mmu.c of "Project 2 Honors", which mmu.o of the    *)
(* other builds follows but for the bits of an entry it inserts.  One call *)
(* of mmu_translate is one action, with the calls it makes to the TLB and  *)
(* the page table.                                                         *)
(***************************************************************************)
EXTENDS Tlb, PageTable

ASSUME VPagesAssumption == VPages \subseteq VPage

mmuVars == <<bitmaps, tlbVars, first_level_page_table>>

mmu_initialize == BitmapsInit /\ TlbInit /\ pt_initialize_page_table

\* Mutant of mmu_clear_rbits: the TLB keeps its R bits.
mmu_clear_rbits_bitmap_only ==
  /\ rbit_bitmap' = [f \in MappedFrames |-> 0]
  /\ UNCHANGED <<tlb, next_vpage_to_check, mbit_bitmap, pageframe_bitmap, first_level_page_table>>

mmu_clear_rbits ==
  /\ rbit_bitmap' = [f \in MappedFrames |-> 0]
  /\ tlb_clear_R_bits
  /\ UNCHANGED <<next_vpage_to_check, mbit_bitmap, pageframe_bitmap, first_level_page_table>>

\* The bits a page comes into the TLB with: mmu.c copies the bitmaps.  mmu.o is
\* taken to count the access that is being translated, as tlb.c does on a hit.
CountedRBit(pframe) == 1
CountedMBit(pframe, op) == IF op = "STORE" THEN 1 ELSE mbit_bitmap[pframe]

InsertedRBit(pframe) == IF MMU = "mmu.c" THEN rbit_bitmap[pframe] ELSE CountedRBit(pframe)

\* Mutant of InsertedMBit: the wrong bitmap.
InsertedMBit_from_R(pframe, op) == rbit_bitmap[pframe]

InsertedMBit(pframe, op) ==
  IF MMU = "mmu.c" THEN mbit_bitmap[pframe] ELSE CountedMBit(pframe, op)

\* The page frame mmu_translate answers with: of the TLB, or of the page table.
TranslatedFrame(vpage) ==
  IF tlb_miss(vpage) THEN pt_get_pframe_number(vpage) ELSE tlb[HitSlot(vpage)].pframe

\* TLB hit.
TranslateByTlb(vpage, op) ==
  /\ ~ tlb_miss(vpage)
  /\ tlb_lookup_vpage(vpage, op)
  /\ UNCHANGED <<next_vpage_to_check, bitmaps, first_level_page_table>>

\* TLB miss, and the page is in memory.
TranslateByPageTable(vpage, op) ==
  /\ tlb_miss(vpage)
  /\ ~ page_fault(vpage)
  /\ LET pframe == pt_get_pframe_number(vpage) IN
     tlb_insert_vpage(vpage, pframe, InsertedRBit(pframe), InsertedMBit(pframe, op))
  /\ UNCHANGED <<pageframe_bitmap, first_level_page_table>>

\* Neither: the bits are written back and the page fault trap is issued.
PageFault(vpage) ==
  /\ tlb_miss(vpage)
  /\ page_fault(vpage)
  /\ tlb_write_back_r_m_bits
  /\ UNCHANGED <<tlbVars, pageframe_bitmap, first_level_page_table>>

-----------------------------------------------------------------------------
\* The calls the kernel makes to bring a page in: mmu_get_free_page_frame,
\* which marks the frame, pt_update_pagetable and tlb_insert_vpage.
InstallPage(vpage) ==
  /\ mmu_get_free_page_frame # NO_FREE_PAGEFRAME
  /\ LET pframe == mmu_get_free_page_frame IN
     /\ pageframe_bitmap' = ModifiedBit(pageframe_bitmap, pframe, 1)
     /\ pt_update_pagetable(vpage, pframe)
     /\ tlb_insert_vpage(vpage, pframe, 0, 0)

\* Those it makes to evict a page: pt_clear_page_table_entry, tlb_clear_entry
\* and mmu_modify_pageframe_bitmap.
RemovePage(page, pframe) ==
  /\ mmu_get_free_page_frame = NO_FREE_PAGEFRAME
  /\ pt_clear_page_table_entry(page)
  /\ tlb' = tlb_clear_entry(page)
  /\ pageframe_bitmap' = ModifiedBit(pageframe_bitmap, pframe, 0)
  /\ UNCHANGED <<next_vpage_to_check, rbit_bitmap, mbit_bitmap>>
=============================================================================
