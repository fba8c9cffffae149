------------------------- MODULE VirtualMemoryProofs -------------------------
(***************************************************************************)
(* Theorems about VirtualMemory, for any number of page frames, TLB slots  *)
(* and pages.                                                              *)
(***************************************************************************)
EXTENDS VirtualMemory, Arithmetic

(***************************************************************************)
(* What the operators of Bitmaps, Tlb and PageTable return and change.     *)
(***************************************************************************)
\* The word and the bit of a page frame.
LEMMA WordAndBit ==
  ASSUME NEW f \in Nat
  PROVE  /\ f \div WORD_BITS \in Nat
         /\ f = WORD_BITS * (f \div WORD_BITS) + (f % WORD_BITS)
         /\ f % WORD_BITS \in 0 .. WORD_BITS - 1
<1>1. f % WORD_BITS \in 0 .. WORD_BITS - 1
  BY ModRange, WordAssumption
<1>2. f \div WORD_BITS \in Nat /\ f = WORD_BITS * (f \div WORD_BITS) + (f % WORD_BITS)
  BY Quotient, WordAssumption
<1> QED
  BY <1>1, <1>2

-----------------------------------------------------------------------------
(* The bitmaps.                                                            *)

\* mmu.o has a bit for every frame; mmu.c has if the frames fill its words.
LEMMA EveryFrameMapped ==
  ASSUME MMU = "mmu.o" \/ num_page_frames % WORD_BITS = 0
  PROVE  MappedFrames = Frames
<1>1. CASE MMU = "mmu.o"
  <2> DEFINE n == num_page_frames + WORD_BITS - 1
  <2>1. n \in Nat /\ bit_size = n \div WORD_BITS
    BY <1>1, FramesAssumption, WordAssumption DEF bit_size
  <2> HIDE DEF n
  <2>2. /\ n \div WORD_BITS \in Nat
        /\ n = WORD_BITS * (n \div WORD_BITS) + (n % WORD_BITS)
        /\ n % WORD_BITS \in 0 .. WORD_BITS - 1
    BY <2>1, WordAndBit
  <2>3. bit_size * WORD_BITS = n - (n % WORD_BITS)
    BY <2>1, <2>2, WordAssumption
  <2>4. bit_size * WORD_BITS >= num_page_frames
    BY <2>2, <2>3, FramesAssumption, WordAssumption DEF n
  <2>5. bit_size * WORD_BITS \in Int
    BY <2>1, <2>2, WordAssumption
  <2> QED
    BY <2>4, <2>5, FramesAssumption DEF MappedFrames, Frames
<1>2. CASE MMU = "mmu.c" /\ num_page_frames % WORD_BITS = 0
  <2>1. bit_size = num_page_frames \div WORD_BITS
    BY <1>2 DEF bit_size
  <2>2. /\ num_page_frames \div WORD_BITS \in Nat
        /\ num_page_frames = WORD_BITS * (num_page_frames \div WORD_BITS) + (num_page_frames % WORD_BITS)
    BY WordAndBit, FramesAssumption
  <2>3. bit_size * WORD_BITS = num_page_frames
    BY <1>2, <2>1, <2>2, WordAssumption
  <2> QED
    BY <2>3, FramesAssumption DEF MappedFrames, Frames
<1> QED
  BY <1>1, <1>2, MmuAssumption

\* Frames below each other in a word: where the search of mmu.c looks first.
LEMMA SearchOrder ==
  ASSUME NEW f \in Frames, NEW g \in Frames, f # g, MMU = "mmu.c",
         WORD_BITS * (f \div WORD_BITS) + (WORD_BITS - 1 - (f % WORD_BITS))
           <= WORD_BITS * (g \div WORD_BITS) + (WORD_BITS - 1 - (g % WORD_BITS))
  PROVE  TriedBefore(f, g)
<1>1. /\ f \in Nat /\ g \in Nat
      /\ f \div WORD_BITS \in Nat /\ g \div WORD_BITS \in Nat
      /\ f = WORD_BITS * (f \div WORD_BITS) + (f % WORD_BITS)
      /\ g = WORD_BITS * (g \div WORD_BITS) + (g % WORD_BITS)
      /\ f % WORD_BITS \in 0 .. WORD_BITS - 1
      /\ g % WORD_BITS \in 0 .. WORD_BITS - 1
  <2>1. f \in Nat /\ g \in Nat
    BY FramesAssumption DEF Frames
  <2> QED
    BY <2>1, WordAndBit
<1>2. WORD_BITS - 1 - (f % WORD_BITS) \in 0 .. WORD_BITS - 1 /\ WORD_BITS - 1 - (g % WORD_BITS) \in 0 .. WORD_BITS - 1
  BY <1>1, WordAssumption
<1>3. \/ f \div WORD_BITS < g \div WORD_BITS
      \/ f \div WORD_BITS = g \div WORD_BITS /\ WORD_BITS - 1 - (f % WORD_BITS) <= WORD_BITS - 1 - (g % WORD_BITS)
  BY <1>1, <1>2, TwoDigits, WordAssumption
<1>4. CASE f \div WORD_BITS < g \div WORD_BITS
  BY <1>4 DEF TriedBefore
<1>5. CASE f \div WORD_BITS = g \div WORD_BITS
  <2>1. f % WORD_BITS >= g % WORD_BITS
    BY <1>1, <1>3, <1>5, WordAssumption
  <2>2. f > g
    BY <1>1, <1>5, <2>1, WordAssumption
  <2> QED
    BY <1>5, <2>2 DEF TriedBefore
<1> QED
  BY <1>1, <1>3, <1>4, <1>5

\* mmu_get_free_page_frame returns a free frame if one has a bit.
LEMMA FreeFrameFound ==
  ASSUME FreeFrames # {}
  PROVE  mmu_get_free_page_frame \in FreeFrames
<1>1. FreeFrames \subseteq Frames /\ Frames \subseteq Nat
  BY FramesAssumption DEF FreeFrames, MappedFrames, Frames
<1>2. \E f \in FreeFrames : \A g \in FreeFrames \ {f} : TriedBefore(f, g)
  <2>1. CASE MMU = "mmu.o"
    <3>1. PICK f \in FreeFrames : \A g \in FreeFrames : f <= g
      BY <1>1, NaturalMinimum
    <3>2. \A g \in FreeFrames \ {f} : f < g
      BY <1>1, <3>1
    <3> QED
      BY <2>1, <3>2 DEF TriedBefore
  <2>2. CASE MMU = "mmu.c"
    <3> DEFINE Place(f) == WORD_BITS * (f \div WORD_BITS) + (WORD_BITS - 1 - (f % WORD_BITS))
               places == {Place(f) : f \in FreeFrames}
    <3>1. ASSUME NEW f \in FreeFrames
          PROVE  Place(f) \in Nat
      <4>1. f \in Nat
        BY <1>1
      <4>2. f \div WORD_BITS \in Nat /\ f % WORD_BITS \in 0 .. WORD_BITS - 1
        BY <4>1, WordAndBit
      <4>3. WORD_BITS * (f \div WORD_BITS) \in Nat
        BY <4>2, WordAssumption
      <4> QED
        BY <4>2, <4>3, WordAssumption
    <3>2. places \in SUBSET Nat /\ places # {}
      BY <3>1
    <3>3. PICK f \in FreeFrames : \A g \in FreeFrames : Place(f) <= Place(g)
      <4>1. PICK x \in places : \A y \in places : x <= y
        BY <3>2, NaturalMinimum
      <4> QED
        BY <4>1
    <3>4. \A g \in FreeFrames \ {f} : TriedBefore(f, g)
      BY <1>1, <2>2, <3>3, SearchOrder
    <3> QED
      BY <3>4
  <2> QED
    BY <2>1, <2>2, MmuAssumption
<1> QED
  BY <1>2 DEF mmu_get_free_page_frame

\* It says that there is none only if none has a bit.
LEMMA NoFreeFrame ==
  mmu_get_free_page_frame = NO_FREE_PAGEFRAME <=> FreeFrames = {}
<1>1. FreeFrames \subseteq Nat
  BY FramesAssumption DEF FreeFrames, MappedFrames, Frames
<1> QED
  BY <1>1, FreeFrameFound, NoFreeAssumption DEF mmu_get_free_page_frame

-----------------------------------------------------------------------------
(* The TLB.                                                                *)

\* The search for a slot ends on a slot.
LEMMA FoundIsSlot ==
  ASSUME TlbTypeOK
  PROVE  found \in Slots
<1> DEFINE slots == {i \in Slots : Replaceable(i)}
           distances == {Distance(i) : i \in slots}
<1>1. CASE slots = {}
  BY <1>1 DEF found, TlbTypeOK
<1>2. CASE slots # {}
  <2>1. \A i \in slots : Distance(i) \in Nat
    BY ModRange, TlbSizeAssumption DEF Distance, TlbTypeOK, Slots
  <2>2. distances \in SUBSET Nat /\ distances # {}
    BY <1>2, <2>1
  <2>3. PICK d \in distances : \A e \in distances : d <= e
    BY <2>2, NaturalMinimum
  <2>4. \E i \in slots : \A j \in slots : Distance(i) <= Distance(j)
    BY <2>3
  <2> QED
    BY <1>2, <2>4 DEF found
<1> QED
  BY <1>1, <1>2

\* tlb_lookup_vpage hits a valid entry of the page.
LEMMA HitSlotHolds ==
  ASSUME NEW v, ~ tlb_miss(v)
  PROVE  HitSlot(v) \in HitSlots(v)
<1>1. HitSlots(v) \in SUBSET Nat /\ HitSlots(v) # {}
  BY TlbSizeAssumption DEF HitSlots, Slots, tlb_miss
<1>2. \E i \in HitSlots(v) : \A j \in HitSlots(v) : i <= j
  BY <1>1, NaturalMinimum
<1> QED
  BY <1>2 DEF HitSlot

\* A hit changes the R and M bits of one slot.
LEMMA HitEffect ==
  ASSUME TlbTypeOK, NEW v, ~ tlb_miss(v), NEW o, tlb_lookup_vpage(v, o)
  PROVE  /\ HitSlot(v) \in Slots
         /\ tlb[HitSlot(v)].valid = 1 /\ tlb[HitSlot(v)].vpage = v
         /\ tlb' \in [Slots -> Entries]
         /\ \A j \in Slots : /\ tlb'[j].valid = tlb[j].valid
                             /\ tlb'[j].vpage = tlb[j].vpage
                             /\ tlb'[j].pframe = tlb[j].pframe
                             /\ tlb'[j].r = IF j = HitSlot(v) THEN 1 ELSE tlb[j].r
                             /\ tlb'[j].m = IF j = HitSlot(v) /\ o = "STORE" THEN 1 ELSE tlb[j].m
<1>1. HitSlot(v) \in Slots /\ tlb[HitSlot(v)].valid = 1 /\ tlb[HitSlot(v)].vpage = v
  BY HitSlotHolds DEF HitSlots
<1>2. tlb' = [tlb EXCEPT ![HitSlot(v)].r = 1, ![HitSlot(v)].m = IF o = "STORE" THEN 1 ELSE @]
  BY DEF tlb_lookup_vpage
<1>3. tlb' \in [Slots -> Entries]
  BY <1>1, <1>2 DEF TlbTypeOK, Entries, Bits
<1> QED
  BY <1>1, <1>2, <1>3 DEF TlbTypeOK, Entries

\* An insertion changes one slot, and leaves the bits of its old entry in the
\* bitmaps.
LEMMA InsertionEffect ==
  ASSUME TlbTypeOK, NEW v \in VPages, NEW f \in Frames, NEW r \in Bits, NEW m \in Bits,
         rbit_bitmap \in Bitmap, mbit_bitmap \in Bitmap, tlb_insert_vpage(v, f, r, m)
  PROVE  /\ TlbTypeOK'
         /\ rbit_bitmap' \in Bitmap /\ mbit_bitmap' \in Bitmap
         /\ found \in Slots
         /\ tlb'[found] = [valid |-> 1, vpage |-> v, r |-> r, m |-> m, pframe |-> f]
         /\ \A i \in Slots \ {found} : tlb'[i] = tlb[i]
         /\ \A g \in MappedFrames :
              LET written == tlb[found].valid = 1 /\ tlb[found].pframe = g IN
              /\ rbit_bitmap'[g] = IF written THEN tlb[found].r ELSE rbit_bitmap[g]
              /\ mbit_bitmap'[g] = IF written THEN tlb[found].m ELSE mbit_bitmap[g]
<1>1. found \in Slots
  BY FoundIsSlot
<1>2. tlb[found] \in Entries
  BY <1>1 DEF TlbTypeOK
<1>3. /\ WriteBackEntry(tlb[found])
      /\ tlb' = [tlb EXCEPT ![found] = [valid |-> 1, vpage |-> v, r |-> r, m |-> m, pframe |-> f]]
      /\ next_vpage_to_check' = SlotAfter(found)
  BY DEF tlb_insert_vpage, Inserted
<1>4. next_vpage_to_check' \in Slots
  BY <1>1, <1>3, ModRange, TlbSizeAssumption DEF SlotAfter, Slots
<1>5. TlbTypeOK'
  BY <1>1, <1>3, <1>4 DEF TlbTypeOK, Entries, Bits
<1>6. rbit_bitmap' \in Bitmap /\ mbit_bitmap' \in Bitmap
  BY <1>2, <1>3 DEF WriteBackEntry, ModifiedBit, Bitmap, Entries, Bits
<1>7. \A g \in MappedFrames :
        LET written == tlb[found].valid = 1 /\ tlb[found].pframe = g IN
        /\ rbit_bitmap'[g] = IF written THEN tlb[found].r ELSE rbit_bitmap[g]
        /\ mbit_bitmap'[g] = IF written THEN tlb[found].m ELSE mbit_bitmap[g]
  BY <1>3 DEF WriteBackEntry, ModifiedBit, Bitmap
<1> QED
  BY <1>1, <1>3, <1>5, <1>6, <1>7 DEF TlbTypeOK

-----------------------------------------------------------------------------
(* The page table.                                                         *)

\* Bringing a page in maps it and no other page, although it may need a table
\* that others will share.
LEMMA UpdateEffect ==
  ASSUME PageTableTypeOK, PAGE = "page.o" \/ MallocZeroes,
         NEW v \in VPages, NEW f \in Frames, pt_update_pagetable(v, f)
  PROVE  /\ PageTableTypeOK'
         /\ ~ page_fault(v)'
         /\ pt_get_pframe_number(v)' = f
         /\ \A w \in VPages \ {v} :
              /\ page_fault(w)' <=> page_fault(w)
              /\ ~ page_fault(w) => pt_get_pframe_number(w)' = pt_get_pframe_number(w)
<1> DEFINE old == first_level_page_table[v[1]]
           clean == [i2 \in PAGES_2 |-> [present |-> 0, pframe |-> 0]]
           entry == [present |-> 1, pframe |-> f]
<1>1. v = <<v[1], v[2]>> /\ v[1] \in PAGES_1 /\ v[2] \in PAGES_2
  BY VPagesAssumption DEF VPage
<1>2. clean \in [PAGES_2 -> PT_ENTRY]
  BY FramesAssumption DEF PT_ENTRY, Bits, Frames
<1>3. PICK table \in [PAGES_2 -> PT_ENTRY] :
        /\ table = IF old = NULL THEN clean ELSE old
        /\ first_level_page_table' = [first_level_page_table EXCEPT ![v[1]] = [table EXCEPT ![v[2]] = entry]]
  BY <1>1, <1>2 DEF pt_update_pagetable, NewTables, Mapped, PageTableTypeOK
<1>4. entry \in PT_ENTRY
  BY DEF PT_ENTRY, Bits
<1>5. PageTableTypeOK'
  BY <1>1, <1>3, <1>4 DEF PageTableTypeOK
<1>6. first_level_page_table'[v[1]] # NULL
  BY <1>1, <1>3, <1>4, NullAssumption DEF PageTableTypeOK
<1>7. ~ page_fault(v)' /\ pt_get_pframe_number(v)' = f
  BY <1>1, <1>3, <1>6 DEF PageTableTypeOK, page_fault, pt_get_pframe_number
<1>8. ASSUME NEW w \in VPages \ {v}
      PROVE  /\ page_fault(w)' <=> page_fault(w)
             /\ ~ page_fault(w) => pt_get_pframe_number(w)' = pt_get_pframe_number(w)
  <2>1. w = <<w[1], w[2]>> /\ w[1] \in PAGES_1 /\ w[2] \in PAGES_2
    BY VPagesAssumption DEF VPage
  <2>2. CASE w[1] # v[1]
    BY <1>1, <1>3, <2>1, <2>2 DEF PageTableTypeOK, page_fault, pt_get_pframe_number
  <2>3. CASE w[1] = v[1]
    <3>1. w[2] # v[2]
      BY <1>1, <2>1, <2>3
    <3>2. first_level_page_table'[w[1]][w[2]] = table[w[2]]
      BY <1>1, <1>3, <2>1, <2>3, <3>1 DEF PageTableTypeOK
    <3>3. old = NULL => table[w[2]].present = 0
      BY <1>3, <2>1
    <3> QED
      BY <1>3, <1>6, <2>3, <3>2, <3>3 DEF page_fault, pt_get_pframe_number
  <2> QED
    BY <2>2, <2>3
<1> QED
  BY <1>5, <1>7, <1>8

\* Evicting a page unmaps it and no other page.
LEMMA ClearEffect ==
  ASSUME PageTableTypeOK, NEW v \in VPages, ~ page_fault(v), pt_clear_page_table_entry(v)
  PROVE  /\ PageTableTypeOK'
         /\ page_fault(v)'
         /\ \A w \in VPages \ {v} :
              /\ page_fault(w)' <=> page_fault(w)
              /\ ~ page_fault(w) => pt_get_pframe_number(w)' = pt_get_pframe_number(w)
<1> DEFINE table == first_level_page_table[v[1]]
<1>1. v = <<v[1], v[2]>> /\ v[1] \in PAGES_1 /\ v[2] \in PAGES_2
  BY VPagesAssumption DEF VPage
<1>2. table # NULL /\ table \in [PAGES_2 -> PT_ENTRY]
  BY <1>1 DEF page_fault, PageTableTypeOK
<1>3. first_level_page_table' = [first_level_page_table EXCEPT ![v[1]] =
                                  [table EXCEPT ![v[2]] = [table[v[2]] EXCEPT !.present = 0]]]
  BY <1>1, <1>2 DEF pt_clear_page_table_entry, PageTableTypeOK
<1>4. [table[v[2]] EXCEPT !.present = 0] \in PT_ENTRY
  BY <1>1, <1>2 DEF PT_ENTRY, Bits
<1>5. PageTableTypeOK'
  BY <1>1, <1>2, <1>3, <1>4 DEF PageTableTypeOK
<1>6. page_fault(v)'
  BY <1>1, <1>2, <1>3 DEF PageTableTypeOK, page_fault, PT_ENTRY
<1>7. ASSUME NEW w \in VPages \ {v}
      PROVE  /\ page_fault(w)' <=> page_fault(w)
             /\ ~ page_fault(w) => pt_get_pframe_number(w)' = pt_get_pframe_number(w)
  <2>1. w = <<w[1], w[2]>> /\ w[1] \in PAGES_1 /\ w[2] \in PAGES_2
    BY VPagesAssumption DEF VPage
  <2>2. CASE w[1] # v[1]
    BY <1>1, <1>3, <2>1, <2>2 DEF PageTableTypeOK, page_fault, pt_get_pframe_number
  <2>3. CASE w[1] = v[1]
    <3>1. w[2] # v[2]
      BY <1>1, <2>1, <2>3
    <3>2. first_level_page_table'[w[1]][w[2]] = table[w[2]]
      BY <1>1, <1>2, <1>3, <2>1, <2>3, <3>1 DEF PageTableTypeOK
    <3>3. first_level_page_table'[w[1]] # NULL
      BY <1>1, <1>2, <1>3, <1>4, <2>3, NullAssumption DEF PageTableTypeOK
    <3> QED
      BY <1>2, <2>3, <3>2, <3>3 DEF page_fault, pt_get_pframe_number
  <2> QED
    BY <2>2, <2>3
<1> QED
  BY <1>5, <1>6, <1>7

-----------------------------------------------------------------------------
(***************************************************************************)
(* The tables that map pages to frames.                                    *)
(***************************************************************************)

\* What the sources rely on: a page table and an occupied bitmap that are
\* never cleared happen to be zero.  The build of Project 2 clears both.
CleanMemory ==
  /\ MMU = "mmu.o" \/ MallocZeroes
  /\ PAGE = "page.o" \/ MallocZeroes

\* A frame that holds a page has a bit, so that it was found by the search.
FramesMapped == \A f \in Frames : inverse_page_table[f] # NO_PAGE => f \in MappedFrames

\* The page the kernel brings in is not in memory, while it evicts others too.
FaultPending == state = "fault" => page_fault(vpage)

\* The inductive invariant of the tables.
TablesInv == TypeOK /\ TablesAgree /\ FramesMapped /\ FaultPending

-----------------------------------------------------------------------------
\* The frame of a page in memory exists, has a bit, and holds no other page.
LEMMA ResidentPage ==
  ASSUME TablesInv, NEW v \in VPages, InMemory(v)
  PROVE  /\ pt_get_pframe_number(v) \in Frames
         /\ pt_get_pframe_number(v) \in MappedFrames
         /\ inverse_page_table[pt_get_pframe_number(v)] = v
         /\ \A w \in VPages : InMemory(w) /\ pt_get_pframe_number(w) = pt_get_pframe_number(v) => w = v
<1>1. v = <<v[1], v[2]>> /\ v[1] \in PAGES_1 /\ v[2] \in PAGES_2
  BY VPagesAssumption DEF VPage
<1>2. pt_get_pframe_number(v) \in Frames
  BY <1>1 DEF TablesInv, TypeOK, PageTableTypeOK, PT_ENTRY, InMemory, page_fault, pt_get_pframe_number
<1>3. \A w \in VPages : InMemory(w) => inverse_page_table[pt_get_pframe_number(w)] = w
  BY DEF TablesInv, TablesAgree
<1> QED
  BY <1>2, <1>3, NoPageAssumption DEF TablesInv, FramesMapped

\* A frame with its bit clear holds no page.
LEMMA FreeFrame ==
  ASSUME TablesInv, mmu_get_free_page_frame # NO_FREE_PAGEFRAME
  PROVE  /\ mmu_get_free_page_frame \in Frames
         /\ mmu_get_free_page_frame \in MappedFrames
         /\ inverse_page_table[mmu_get_free_page_frame] = NO_PAGE
<1>1. mmu_get_free_page_frame \in FreeFrames
  BY FreeFrameFound, NoFreeFrame
<1> QED
  BY <1>1 DEF FreeFrames, MappedFrames, TablesInv, TablesAgree

\* A page that is not in memory is not in the TLB.
LEMMA FaultedPage ==
  ASSUME TablesInv, state = "fault"
  PROVE  /\ vpage \in VPages
         /\ ~ InMemory(vpage)
         /\ \A f \in Frames : inverse_page_table[f] # vpage
         /\ \A i \in Slots : Valid(i) => tlb[i].vpage # vpage
<1>1. vpage \in VPages /\ page_fault(vpage)
  BY DEF TablesInv, TypeOK, FaultPending
<1> QED
  BY <1>1, NoPageAssumption DEF TablesInv, TablesAgree, InMemory

-----------------------------------------------------------------------------
(* The steps keep the tables in agreement.                                 *)

\* The tables agree as long as they and the mappings in the TLB stay.
LEMMA SameMappings ==
  ASSUME TablesAgree,
         UNCHANGED <<inverse_page_table, pageframe_bitmap, first_level_page_table>>,
         \A i \in Slots : /\ tlb'[i].valid = tlb[i].valid
                          /\ tlb'[i].vpage = tlb[i].vpage
                          /\ tlb'[i].pframe = tlb[i].pframe
  PROVE  TablesAgree'
BY DEF TablesAgree, Valid, InMemory, page_fault, pt_get_pframe_number

\* A hit in the TLB is a hit of the page table.
LEMMA HitIsResident ==
  ASSUME TablesInv, NEW v \in VPages, ~ tlb_miss(v)
  PROVE  InMemory(v) /\ TranslatedFrame(v) = pt_get_pframe_number(v)
<1>1. HitSlot(v) \in Slots /\ Valid(HitSlot(v)) /\ tlb[HitSlot(v)].vpage = v
  BY HitSlotHolds DEF HitSlots, Valid
<1> QED
  BY <1>1 DEF TablesInv, TablesAgree, TranslatedFrame

\* What the access itself writes.
LEMMA AccessType ==
  ASSUME TypeOK, state = "translate", NEW f \in Frames, AccessData(f)
  PROVE  memory' \in [Frames -> Values] /\ disk' \in [VPages -> Values] /\ loaded' \in Values
<1>1. vpage \in VPages
  BY DEF TypeOK
<1>2. Stored[vpage] \subseteq Values
  BY <1>1 DEF Values
<1> QED
  BY <1>2 DEF TypeOK, AccessData

\* A translation by the TLB sets bits and leaves the mappings alone.
LEMMA TranslateByTlbTables ==
  ASSUME TablesInv, Translate, TranslateByTlb(vpage, op), UNCHANGED misses
  PROVE  TablesInv'
<1>1. /\ TypeOK /\ state = "translate" /\ vpage \in VPages /\ op \in Operations
      /\ ~ tlb_miss(vpage)
  BY DEF TablesInv, TypeOK, Translate, TranslateByTlb
<1>2. /\ tlb' \in [Slots -> Entries]
      /\ \A j \in Slots : /\ tlb'[j].valid = tlb[j].valid
                          /\ tlb'[j].vpage = tlb[j].vpage
                          /\ tlb'[j].pframe = tlb[j].pframe
  BY <1>1, HitEffect DEF TranslateByTlb, TypeOK
<1>3. TranslatedFrame(vpage) \in Frames
  BY <1>1, HitIsResident, ResidentPage
<1>4. /\ UNCHANGED <<next_vpage_to_check, bitmaps, first_level_page_table, kernelVars, misses>>
      /\ state' = "ready" /\ op' = "none" /\ vpage' = NO_PAGE
      /\ referenced' \in SUBSET VPages /\ modified' \in SUBSET VPages
  BY <1>1 DEF Translate, TranslateByTlb, TypeOK
<1>5. memory' \in [Frames -> Values] /\ disk' \in [VPages -> Values] /\ loaded' \in Values
  BY <1>1, <1>3, AccessType DEF Translate
<1>6. TypeOK'
  BY <1>1, <1>2, <1>4, <1>5 DEF TypeOK, BitmapsTypeOK, TlbTypeOK, PageTableTypeOK, bitmaps, kernelVars, Bitmap
<1>7. TablesAgree'
  BY <1>2, <1>4, SameMappings DEF TablesInv, bitmaps, kernelVars
<1> QED
  BY <1>4, <1>6, <1>7 DEF TablesInv, FramesMapped, FaultPending, kernelVars

\* A translation after a TLB miss replaces an entry: the mapping it inserts is
\* the one of the page table, and the bits of the entry that leaves go to the
\* bitmaps of a frame that has a bit.
LEMMA TranslateByPageTableTables ==
  ASSUME TablesInv, Translate, TranslateByPageTable(vpage, op), CountMiss
  PROVE  TablesInv'
<1> DEFINE f == pt_get_pframe_number(vpage)
<1>1. /\ TypeOK /\ state = "translate" /\ vpage \in VPages /\ op \in Operations
      /\ tlb_miss(vpage) /\ InMemory(vpage)
  BY DEF TablesInv, TypeOK, Translate, TranslateByPageTable, InMemory
<1>2. f \in Frames /\ f \in MappedFrames
  BY <1>1, ResidentPage
<1>3. InsertedRBit(f) \in Bits /\ InsertedMBit(f, op) \in Bits
  BY <1>1, <1>2 DEF InsertedRBit, InsertedMBit, CountedRBit, CountedMBit, TypeOK, BitmapsTypeOK, Bitmap, Bits
<1>4. /\ TlbTypeOK'
      /\ rbit_bitmap' \in Bitmap /\ mbit_bitmap' \in Bitmap
      /\ found \in Slots
      /\ tlb'[found].valid = 1 /\ tlb'[found].vpage = vpage /\ tlb'[found].pframe = f
      /\ \A i \in Slots \ {found} : tlb'[i] = tlb[i]
  <2>1. /\ TlbTypeOK /\ rbit_bitmap \in Bitmap /\ mbit_bitmap \in Bitmap
        /\ tlb_insert_vpage(vpage, f, InsertedRBit(f), InsertedMBit(f, op))
    BY <1>1 DEF TypeOK, BitmapsTypeOK, TranslateByPageTable
  <2> HIDE DEF f
  <2>2. /\ TlbTypeOK'
        /\ rbit_bitmap' \in Bitmap /\ mbit_bitmap' \in Bitmap
        /\ found \in Slots
        /\ tlb'[found] = [valid |-> 1, vpage |-> vpage, r |-> InsertedRBit(f), m |-> InsertedMBit(f, op), pframe |-> f]
        /\ \A i \in Slots \ {found} : tlb'[i] = tlb[i]
    BY <1>1, <1>2, <1>3, <2>1, InsertionEffect
  <2> QED
    BY <2>2
<1>5. /\ UNCHANGED <<pageframe_bitmap, first_level_page_table, kernelVars>>
      /\ state' = "ready" /\ op' = "none" /\ vpage' = NO_PAGE
      /\ misses' \in 0 .. MaxMisses
      /\ referenced' \in SUBSET VPages /\ modified' \in SUBSET VPages
  BY <1>1 DEF Translate, TranslateByPageTable, CountMiss, MaxMisses, TypeOK
<1>6. memory' \in [Frames -> Values] /\ disk' \in [VPages -> Values] /\ loaded' \in Values
  <2>1. TranslatedFrame(vpage) = f
    BY <1>1 DEF TranslatedFrame
  <2> QED
    BY <1>1, <1>2, <2>1, AccessType DEF Translate
<1>7. TypeOK'
  BY <1>1, <1>4, <1>5, <1>6 DEF TypeOK, BitmapsTypeOK, PageTableTypeOK, kernelVars, Bitmap
<1>8. UNCHANGED <<inverse_page_table, pageframe_bitmap, first_level_page_table>>
  BY <1>5 DEF kernelVars
<1>9. \A i \in Slots : Valid(i)' =>
        InMemory(tlb'[i].vpage) /\ pt_get_pframe_number(tlb'[i].vpage) = tlb'[i].pframe
  BY <1>1, <1>4 DEF TablesInv, TablesAgree, Valid
<1>10. \A i, j \in Slots : Valid(i)' /\ Valid(j)' /\ tlb'[i].vpage = tlb'[j].vpage => i = j
  <2>1. \A i \in Slots : Valid(i) => tlb[i].vpage # vpage
    BY <1>1 DEF tlb_miss, HitSlots, Valid
  <2> QED
    BY <1>4, <2>1 DEF TablesInv, TablesAgree, Valid
<1>11. TablesAgree'
  BY <1>8, <1>9, <1>10 DEF TablesInv, TablesAgree, InMemory, page_fault, pt_get_pframe_number
<1> QED
  BY <1>5, <1>7, <1>8, <1>11 DEF TablesInv, FramesMapped, FaultPending

\* A page fault writes bits back; no mapping changes.
LEMMA FaultTables ==
  ASSUME TablesInv, Fault
  PROVE  TablesInv'
<1>1. /\ state' = "fault" /\ page_fault(vpage)
      /\ UNCHANGED <<tlbVars, pageframe_bitmap, first_level_page_table, instruction, kernelVars, data, history>>
      /\ misses' \in 0 .. MaxMisses
  BY DEF TablesInv, TypeOK, Fault, PageFault, CountMiss, MaxMisses
<1>2. ASSUME NEW f \in MappedFrames, HoldingSlots(f) # {}
      PROVE  LastEntry(f).m \in Bits /\ LastEntry(f).r \in Bits
  <2>1. PICK i \in HoldingSlots(f) : TRUE
    BY <1>2
  <2>2. \A j \in HoldingSlots(f) : j = i
    BY <2>1 DEF HoldingSlots, TablesInv, TablesAgree, Valid, TypeOK, TlbTypeOK, Entries, Bits
  <2>3. \A j \in HoldingSlots(f) : j <= i
    BY <2>1, <2>2, TlbSizeAssumption DEF HoldingSlots, Slots
  <2>4. LastEntry(f) = tlb[i] /\ i \in Slots
    BY <2>1, <2>2, <2>3 DEF LastEntry, HoldingSlots
  <2> QED
    BY <2>4 DEF TablesInv, TypeOK, TlbTypeOK, Entries
<1>3. rbit_bitmap' \in Bitmap /\ mbit_bitmap' \in Bitmap
  BY <1>2 DEF Fault, PageFault, tlb_write_back_r_m_bits, TablesInv, TypeOK, BitmapsTypeOK, Bitmap
<1>4. TypeOK'
  BY <1>1, <1>3 DEF Fault, TablesInv, TypeOK, BitmapsTypeOK, TlbTypeOK, PageTableTypeOK,
                    tlbVars, kernelVars, instruction, data, history
<1>5. TablesAgree'
  BY <1>1, SameMappings DEF TablesInv, tlbVars, kernelVars
<1> QED
  BY <1>1, <1>4, <1>5 DEF TablesInv, FramesMapped, FaultPending, page_fault, kernelVars, instruction

\* The page that comes in is mapped to a frame that nobody maps, and takes one
\* slot of the TLB.
LEMMA BringInTables ==
  ASSUME CleanMemory, TablesInv, BringIn
  PROVE  TablesInv'
<1> DEFINE f == mmu_get_free_page_frame
<1>1. /\ state = "fault" /\ f # NO_FREE_PAGEFRAME
      /\ pageframe_bitmap' = [pageframe_bitmap EXCEPT ![f] = 1]
      /\ pt_update_pagetable(vpage, f)
      /\ tlb_insert_vpage(vpage, f, 0, 0)
      /\ inverse_page_table' = [inverse_page_table EXCEPT ![f] = vpage]
      /\ memory' = [memory EXCEPT ![f] = disk[vpage]]
      /\ state' = "translate"
      /\ UNCHANGED <<op, vpage, next_victim, misses, disk, loaded, modified, referenced>>
  BY DEF BringIn, InstallPage, ModifiedBit, instruction, history
<1>2. f \in Frames /\ f \in MappedFrames /\ inverse_page_table[f] = NO_PAGE
  BY <1>1, FreeFrame
<1>3. /\ vpage \in VPages /\ ~ InMemory(vpage)
      /\ \A g \in Frames : inverse_page_table[g] # vpage
      /\ \A i \in Slots : Valid(i) => tlb[i].vpage # vpage
  BY <1>1, FaultedPage
<1> HIDE DEF f
<1>4. /\ TlbTypeOK'
      /\ rbit_bitmap' \in Bitmap /\ mbit_bitmap' \in Bitmap
      /\ found \in Slots
      /\ tlb'[found].valid = 1 /\ tlb'[found].vpage = vpage /\ tlb'[found].pframe = f
      /\ \A i \in Slots \ {found} : tlb'[i] = tlb[i]
  <2>1. TlbTypeOK /\ rbit_bitmap \in Bitmap /\ mbit_bitmap \in Bitmap /\ 0 \in Bits
    BY DEF TablesInv, TypeOK, BitmapsTypeOK, Bits
  <2>2. /\ TlbTypeOK'
        /\ rbit_bitmap' \in Bitmap /\ mbit_bitmap' \in Bitmap
        /\ found \in Slots
        /\ tlb'[found] = [valid |-> 1, vpage |-> vpage, r |-> 0, m |-> 0, pframe |-> f]
        /\ \A i \in Slots \ {found} : tlb'[i] = tlb[i]
    BY <1>1, <1>2, <1>3, <2>1, InsertionEffect
  <2> QED
    BY <2>2
<1>5. /\ PageTableTypeOK'
      /\ ~ page_fault(vpage)'
      /\ pt_get_pframe_number(vpage)' = f
      /\ \A w \in VPages \ {vpage} :
           /\ page_fault(w)' <=> page_fault(w)
           /\ ~ page_fault(w) => pt_get_pframe_number(w)' = pt_get_pframe_number(w)
  BY <1>1, <1>2, <1>3, UpdateEffect DEF TablesInv, TypeOK, CleanMemory
<1>6. TypeOK'
  BY <1>1, <1>2, <1>3, <1>4, <1>5 DEF TablesInv, TypeOK, BitmapsTypeOK, Bitmap, Bits
<1>7. \A g \in Frames : inverse_page_table'[g] = IF g = f THEN vpage ELSE inverse_page_table[g]
  BY <1>1 DEF TablesInv, TypeOK
<1>8. \A w \in VPages : InMemory(w) =>
        w # vpage /\ pt_get_pframe_number(w) \in Frames /\ pt_get_pframe_number(w) # f
  BY <1>2, <1>3, ResidentPage, NoPageAssumption
<1>9. ASSUME NEW w \in VPages, InMemory(w)'
      PROVE  (inverse_page_table[pt_get_pframe_number(w)] = w)'
  <2>1. CASE w = vpage
    BY <1>1, <1>2, <1>5, <1>7, <2>1
  <2>2. CASE w # vpage
    <3>1. InMemory(w) /\ pt_get_pframe_number(w)' = pt_get_pframe_number(w)
      BY <1>5, <1>9, <2>2 DEF InMemory
    <3>2. inverse_page_table[pt_get_pframe_number(w)] = w
      BY <3>1 DEF TablesInv, TablesAgree
    <3> QED
      BY <1>7, <1>8, <3>1, <3>2
  <2> QED
    BY <2>1, <2>2
<1>10. ASSUME NEW g \in Frames, NEW w, w = inverse_page_table'[g], w # NO_PAGE
       PROVE  (InMemory(w) /\ pt_get_pframe_number(w) = g)'
  <2>1. CASE g = f
    BY <1>1, <1>5, <1>7, <1>10, <2>1 DEF InMemory
  <2>2. CASE g # f
    <3>1. w = inverse_page_table[g] /\ w \in VPages \ {vpage}
      BY <1>3, <1>7, <1>10, <2>2 DEF TablesInv, TypeOK
    <3>2. InMemory(w) /\ pt_get_pframe_number(w) = g
      BY <1>10, <3>1 DEF TablesInv, TablesAgree
    <3> QED
      BY <1>5, <3>1, <3>2 DEF InMemory
  <2> QED
    BY <2>1, <2>2
<1>11. \A g \in MappedFrames : pageframe_bitmap'[g] = 1 <=> inverse_page_table'[g] # NO_PAGE
  BY <1>1, <1>3, <1>7, NoPageAssumption DEF TablesInv, TablesAgree, TypeOK, BitmapsTypeOK, Bitmap, MappedFrames
<1>12. ASSUME NEW i \in Slots, Valid(i)', NEW w, w = tlb'[i].vpage
       PROVE  (InMemory(w) /\ pt_get_pframe_number(w) = tlb[i].pframe)'
  <2>1. CASE i = found
    BY <1>1, <1>4, <1>5, <1>12, <2>1 DEF InMemory
  <2>2. CASE i # found
    <3>1. tlb'[i] = tlb[i] /\ Valid(i) /\ w \in VPages \ {vpage}
      BY <1>3, <1>4, <1>12, <2>2 DEF Valid, TablesInv, TypeOK, TlbTypeOK, Entries
    <3>2. InMemory(w) /\ pt_get_pframe_number(w) = tlb[i].pframe
      BY <1>12, <3>1 DEF TablesInv, TablesAgree
    <3> QED
      BY <1>5, <3>1, <3>2 DEF InMemory
  <2> QED
    BY <2>1, <2>2
<1>13. ASSUME NEW i \in Slots, NEW j \in Slots, Valid(i)', Valid(j)', tlb'[i].vpage = tlb'[j].vpage
       PROVE  i = j
  BY <1>3, <1>4, <1>13 DEF TablesInv, TablesAgree, Valid
<1>14. TablesAgree'
  BY <1>9, <1>10, <1>11, <1>12, <1>13 DEF TablesAgree
<1> QED
  BY <1>1, <1>2, <1>6, <1>7, <1>14 DEF TablesInv, FramesMapped, FaultPending

\* The kernel's choice: of the frames of the lowest class, the first one from
\* next_victim on.
LEMMA VictimIsLowest ==
  ASSUME TablesInv, \A f \in Frames : inverse_page_table[f] # NO_PAGE
  PROVE  /\ victim \in Frames
         /\ \A g \in Frames : Class(victim) <= Class(g)
<1>1. Frames # {} /\ Frames \subseteq Nat /\ Frames \subseteq MappedFrames
  BY FramesAssumption DEF TablesInv, FramesMapped, Frames
<1>2. ASSUME NEW f \in Frames
      PROVE  Class(f) \in Nat /\ ScanDistance(f) \in 0 .. num_page_frames - 1
  <2>1. rbit_bitmap[f] \in {0, 1} /\ mbit_bitmap[f] \in {0, 1}
    BY <1>1 DEF TablesInv, TypeOK, BitmapsTypeOK, Bitmap, Bits
  <2>2. f - next_victim \in Int
    BY FramesAssumption DEF TablesInv, TypeOK, Frames
  <2>3. Class(f) \in Nat
    BY <2>1 DEF Class
  <2>4. ScanDistance(f) \in 0 .. num_page_frames - 1
    BY <2>2, ModRange, FramesAssumption DEF ScanDistance
  <2> QED
    BY <2>3, <2>4
<1> DEFINE Rank(f) == num_page_frames * Class(f) + ScanDistance(f)
           ranks == {Rank(f) : f \in Frames}
<1>3. \A f \in Frames : Rank(f) \in Nat
  BY <1>2, FramesAssumption
<1>4. ranks \in SUBSET Nat /\ ranks # {}
  BY <1>1, <1>3
<1>5. PICK f \in Frames : \A g \in Frames : Rank(f) <= Rank(g)
  <2>1. PICK x \in ranks : \A y \in ranks : x <= y
    BY <1>4, NaturalMinimum
  <2> QED
    BY <2>1
<1>6. \A g \in Frames :
        Class(f) < Class(g) \/ (Class(f) = Class(g) /\ ScanDistance(f) <= ScanDistance(g))
  BY <1>2, <1>5, TwoDigits, FramesAssumption
<1>7. /\ victim \in Frames
      /\ \A g \in Frames :
           Class(victim) < Class(g)
             \/ (Class(victim) = Class(g) /\ ScanDistance(victim) <= ScanDistance(g))
  BY <1>6 DEF victim
<1> QED
  BY <1>2, <1>7

\* The page that is evicted leaves all three tables and the TLB.
LEMMA EvictTables ==
  ASSUME TablesInv, Evict
  PROVE  TablesInv'
<1> DEFINE f == victim
           page == inverse_page_table[f]
<1>1. /\ state = "fault" /\ \A g \in Frames : inverse_page_table[g] # NO_PAGE
      /\ pt_clear_page_table_entry(page)
      /\ tlb' = tlb_clear_entry(page)
      /\ pageframe_bitmap' = [pageframe_bitmap EXCEPT ![f] = 0]
      /\ UNCHANGED <<next_vpage_to_check, rbit_bitmap, mbit_bitmap>>
      /\ inverse_page_table' = [inverse_page_table EXCEPT ![f] = NO_PAGE]
      /\ disk' = IF mbit_bitmap[f] = 1 THEN [disk EXCEPT ![page] = memory[f]] ELSE disk
      /\ modified' = IF mbit_bitmap[f] = 1 THEN modified \ {page} ELSE modified
      /\ referenced' = referenced \ {page}
      /\ next_victim' = (f + 1) % num_page_frames
      /\ UNCHANGED <<state, op, vpage, misses, memory, loaded>>
  BY DEF Evict, RemovePage, ModifiedBit, instruction
<1>2. f \in Frames /\ f \in MappedFrames
  BY <1>1, VictimIsLowest DEF TablesInv, FramesMapped
<1> HIDE DEF f
<1>3. page \in VPages /\ InMemory(page) /\ pt_get_pframe_number(page) = f
  BY <1>1, <1>2 DEF TablesInv, TablesAgree, TypeOK
<1>4. vpage \in VPages /\ ~ InMemory(vpage) /\ vpage # page
  BY <1>1, <1>3, FaultedPage
<1>5. PICK q \in VPages : q = page
  BY <1>3
<1>6. /\ PageTableTypeOK'
      /\ page_fault(q)'
      /\ \A w \in VPages \ {q} :
           /\ page_fault(w)' <=> page_fault(w)
           /\ ~ page_fault(w) => pt_get_pframe_number(w)' = pt_get_pframe_number(w)
  <2>1. PageTableTypeOK /\ ~ page_fault(q) /\ pt_clear_page_table_entry(q)
    BY <1>1, <1>3, <1>5 DEF TablesInv, TypeOK, InMemory
  <2> QED
    BY <2>1, ClearEffect
<1>7. \A i \in Slots : /\ tlb[i].vpage = q => tlb'[i] = [tlb[i] EXCEPT !.valid = 0]
                       /\ tlb[i].vpage # q => tlb'[i] = tlb[i]
  BY <1>1, <1>5 DEF tlb_clear_entry
<1>8. TlbTypeOK'
  <2>1. ASSUME NEW i \in Slots
        PROVE  tlb'[i] \in Entries
    <3>1. tlb[i] \in Entries
      BY DEF TablesInv, TypeOK, TlbTypeOK
    <3>2. [tlb[i] EXCEPT !.valid = 0] \in Entries
      BY <3>1 DEF Entries, Bits
    <3> QED
      BY <1>7, <3>1, <3>2
  <2> QED
    BY <1>1, <2>1 DEF TablesInv, TypeOK, TlbTypeOK, tlb_clear_entry
<1>9. ASSUME NEW i \in Slots, Valid(i)'
      PROVE  tlb'[i] = tlb[i] /\ Valid(i) /\ tlb[i].vpage \in VPages \ {q}
  <2>1. tlb[i] \in Entries
    BY DEF TablesInv, TypeOK, TlbTypeOK
  <2>2. tlb[i].vpage = q => tlb'[i].valid = 0
    BY <1>7, <2>1 DEF Entries
  <2>3. tlb'[i].valid = 1
    BY <1>9 DEF Valid
  <2>4. tlb[i].vpage # q
    BY <2>2, <2>3
  <2>5. tlb'[i] = tlb[i]
    BY <1>7, <2>4
  <2> QED
    BY <2>1, <2>3, <2>4, <2>5 DEF Valid, Entries
<1>10. next_victim' \in Frames
  BY <1>1, <1>2, ModRange, FramesAssumption DEF Frames
<1>11. disk' \in [VPages -> Values]
  BY <1>1, <1>2, <1>3 DEF TablesInv, TypeOK
<1>12. TypeOK'
  BY <1>1, <1>6, <1>8, <1>10, <1>11 DEF TablesInv, TypeOK, BitmapsTypeOK, Bitmap, Bits
<1>13. \A g \in Frames : inverse_page_table'[g] = IF g = f THEN NO_PAGE ELSE inverse_page_table[g]
  BY <1>1 DEF TablesInv, TypeOK
<1>14. ASSUME NEW w \in VPages, InMemory(w)'
       PROVE  (inverse_page_table[pt_get_pframe_number(w)] = w)'
  <2>1. w # q /\ InMemory(w) /\ pt_get_pframe_number(w)' = pt_get_pframe_number(w)
    BY <1>6, <1>14 DEF InMemory
  <2>2. /\ pt_get_pframe_number(w) \in Frames
        /\ inverse_page_table[pt_get_pframe_number(w)] = w
    BY <2>1, ResidentPage
  <2>3. pt_get_pframe_number(w) # f
    BY <1>5, <2>1, <2>2
  <2> QED
    BY <1>13, <2>1, <2>2, <2>3
<1>15. ASSUME NEW g \in Frames, NEW w, w = inverse_page_table'[g], w # NO_PAGE
       PROVE  (InMemory(w) /\ pt_get_pframe_number(w) = g)'
  <2>1. g # f /\ w = inverse_page_table[g] /\ w \in VPages
    BY <1>13, <1>15 DEF TablesInv, TypeOK
  <2>2. InMemory(w) /\ pt_get_pframe_number(w) = g
    BY <1>15, <2>1 DEF TablesInv, TablesAgree
  <2>3. w # q
    BY <1>3, <1>5, <2>1, <2>2
  <2> QED
    BY <1>6, <2>1, <2>2, <2>3 DEF InMemory
<1>16. \A g \in MappedFrames : pageframe_bitmap'[g] = 1 <=> inverse_page_table'[g] # NO_PAGE
  BY <1>1, <1>13 DEF TablesInv, TablesAgree, TypeOK, BitmapsTypeOK, Bitmap, MappedFrames
<1>17. ASSUME NEW i \in Slots, Valid(i)', NEW w, w = tlb'[i].vpage
       PROVE  (InMemory(w) /\ pt_get_pframe_number(w) = tlb[i].pframe)'
  <2>1. tlb'[i] = tlb[i] /\ Valid(i) /\ w \in VPages \ {q}
    BY <1>9, <1>17
  <2>2. InMemory(w) /\ pt_get_pframe_number(w) = tlb[i].pframe
    BY <1>17, <2>1 DEF TablesInv, TablesAgree
  <2> QED
    BY <1>6, <2>1, <2>2 DEF InMemory
<1>18. ASSUME NEW i \in Slots, NEW j \in Slots, Valid(i)', Valid(j)', tlb'[i].vpage = tlb'[j].vpage
       PROVE  i = j
  BY <1>9, <1>18 DEF TablesInv, TablesAgree
<1>19. TablesAgree'
  BY <1>14, <1>15, <1>16, <1>17, <1>18 DEF TablesAgree
<1>20. FaultPending'
  <2>1. PICK v \in VPages : v = vpage
    BY <1>4
  <2>2. page_fault(v)'
    BY <1>4, <1>5, <1>6, <2>1 DEF InMemory
  <2> QED
    BY <1>1, <2>1, <2>2 DEF FaultPending
<1>21. FramesMapped'
  BY <1>13 DEF TablesInv, FramesMapped
<1> QED
  BY <1>12, <1>19, <1>20, <1>21 DEF TablesInv

\* A clock interrupt clears R bits only.
LEMMA ClockTables ==
  ASSUME TablesInv, ClockInterrupt
  PROVE  TablesInv'
<1>1. /\ rbit_bitmap' = [f \in MappedFrames |-> 0]
      /\ tlb' = [i \in Slots |-> [tlb[i] EXCEPT !.r = 0]]
      /\ UNCHANGED <<next_vpage_to_check, mbit_bitmap, pageframe_bitmap, first_level_page_table>>
      /\ referenced' = {}
      /\ UNCHANGED <<state, op, vpage, inverse_page_table, next_victim, misses, memory, disk, loaded, modified>>
  BY DEF ClockInterrupt, mmu_clear_rbits, tlb_clear_R_bits, instruction, kernelVars, data
<1>2. \A i \in Slots : /\ tlb'[i] \in Entries
                       /\ tlb'[i].valid = tlb[i].valid
                       /\ tlb'[i].vpage = tlb[i].vpage
                       /\ tlb'[i].pframe = tlb[i].pframe
  BY <1>1 DEF TablesInv, TypeOK, TlbTypeOK, Entries, Bits
<1>3. TypeOK'
  BY <1>1, <1>2 DEF TablesInv, TypeOK, BitmapsTypeOK, Bitmap, Bits, TlbTypeOK, PageTableTypeOK
<1>4. TablesAgree'
  BY <1>1, <1>2, SameMappings DEF TablesInv
<1> QED
  BY <1>1, <1>3, <1>4 DEF TablesInv, FramesMapped, FaultPending, page_fault

\* A fetch chooses the next instruction.
LEMMA FetchTables ==
  ASSUME TablesInv, Fetch
  PROVE  TablesInv'
<1>1. /\ state' = "translate" /\ op' \in Operations /\ vpage' \in VPages /\ misses' = 0
      /\ UNCHANGED <<tlb, next_vpage_to_check, rbit_bitmap, mbit_bitmap, pageframe_bitmap, first_level_page_table>>
      /\ UNCHANGED <<inverse_page_table, next_victim, memory, disk, loaded, modified, referenced>>
  BY DEF Fetch, mmuVars, bitmaps, tlbVars, kernelVars, data, history
<1>2. TypeOK'
  BY <1>1 DEF TablesInv, TypeOK, BitmapsTypeOK, Bitmap, TlbTypeOK, PageTableTypeOK, MaxMisses
<1>3. TablesAgree'
  BY <1>1, SameMappings DEF TablesInv
<1> QED
  BY <1>1, <1>2, <1>3 DEF TablesInv, FramesMapped, FaultPending

\* A stuttering step changes nothing.
LEMMA StutterTables ==
  ASSUME TablesInv, UNCHANGED vars
  PROVE  TablesInv'
<1>1. /\ UNCHANGED <<tlb, next_vpage_to_check, rbit_bitmap, mbit_bitmap, pageframe_bitmap, first_level_page_table>>
      /\ UNCHANGED <<state, op, vpage, inverse_page_table, next_victim, misses, memory, disk, loaded, modified, referenced>>
  BY DEF vars, mmuVars, bitmaps, tlbVars, instruction, kernelVars, data, history
<1>2. TypeOK'
  BY <1>1 DEF TablesInv, TypeOK, BitmapsTypeOK, Bitmap, TlbTypeOK, PageTableTypeOK, MaxMisses
<1>3. TablesAgree'
  BY <1>1, SameMappings DEF TablesInv
<1> QED
  BY <1>1, <1>2, <1>3 DEF TablesInv, FramesMapped, FaultPending, page_fault

\* At the start no page is in memory.
LEMMA InitTables ==
  ASSUME CleanMemory, Init
  PROVE  TablesInv
<1>1. /\ \A i1 \in PAGES_1 : first_level_page_table[i1] = NULL
      /\ first_level_page_table \in [PAGES_1 -> {NULL}]
      /\ state = "ready" /\ op = "none" /\ vpage = NO_PAGE
      /\ inverse_page_table = [f \in Frames |-> NO_PAGE]
      /\ next_victim = 0 /\ misses = 0
      /\ modified = {} /\ referenced = {}
  BY DEF Init, mmu_initialize, pt_initialize_page_table
<1>2. BitmapsTypeOK /\ \A f \in MappedFrames : pageframe_bitmap[f] = 0
  BY DEF CleanMemory, Init, mmu_initialize, BitmapsInit, BitmapsTypeOK, Bitmap, Bits
<1>3. TlbTypeOK /\ \A i \in Slots : ~ Valid(i)
  <2>1. PICK garbage \in [Slots -> Entries] : tlb = [i \in Slots |-> [garbage[i] EXCEPT !.valid = 0]]
    BY TlbGarbageAssumption DEF Init, mmu_initialize, TlbInit, tlb_clear_all
  <2>2. ASSUME NEW i \in Slots
        PROVE  [garbage[i] EXCEPT !.valid = 0] \in Entries /\ [garbage[i] EXCEPT !.valid = 0].valid = 0
    <3> PICK entry \in Entries : entry = garbage[i]
      OBVIOUS
    <3>1. [entry EXCEPT !.valid = 0] \in Entries /\ [entry EXCEPT !.valid = 0].valid = 0
      BY DEF Entries, Bits
    <3> QED
      BY <3>1
  <2>3. ASSUME NEW i \in Slots
        PROVE  ~ Valid(i)
    <3>1. tlb[i] = [garbage[i] EXCEPT !.valid = 0]
      BY <2>1
    <3>2. [garbage[i] EXCEPT !.valid = 0].valid = 0
      BY <2>2
    <3> QED
      BY <3>1, <3>2 DEF Valid
  <2>4. next_vpage_to_check \in Slots
    BY TlbSizeAssumption DEF Init, mmu_initialize, TlbInit, Slots
  <2> QED
    BY <2>1, <2>2, <2>3, <2>4 DEF TlbTypeOK
<1>4. memory \in [Frames -> Values] /\ loaded \in Values
  BY DEF Init
<1>5. disk \in [VPages -> Values]
  BY DEF Init
<1>6. TypeOK
  BY <1>1, <1>2, <1>3, <1>4, <1>5, FramesAssumption DEF TypeOK, PageTableTypeOK, MaxMisses, Frames
<1>7. \A v \in VPages : ~ InMemory(v)
  BY <1>1, VPagesAssumption DEF VPage, InMemory, page_fault
<1>8. TablesAgree
  BY <1>1, <1>2, <1>3, <1>7 DEF TablesAgree, MappedFrames
<1> QED
  BY <1>1, <1>6, <1>8 DEF TablesInv, FramesMapped, FaultPending

\* Every step keeps the invariant of the tables.
LEMMA NextTables ==
  ASSUME CleanMemory, TablesInv, [Next]_vars
  PROVE  TablesInv'
<1>1. CASE Fetch
  BY <1>1, FetchTables
<1>2. CASE Translate
  BY <1>2, TranslateByTlbTables, TranslateByPageTableTables DEF Translate
<1>3. CASE Fault
  BY <1>3, FaultTables
<1>4. CASE BringIn
  BY <1>4, BringInTables
<1>5. CASE Evict
  BY <1>5, EvictTables
<1>6. CASE ClockInterrupt
  BY <1>6, ClockTables
<1>7. CASE UNCHANGED vars
  BY <1>7, StutterTables
<1> QED
  BY <1>1, <1>2, <1>3, <1>4, <1>5, <1>6, <1>7 DEF Next

\* The tables agree in every reachable state, if a new second-level table is clear.
LEMMA TablesAlways ==
  ASSUME CleanMemory
  PROVE  Spec => []TablesInv
<1>1. Init => TablesInv
  BY InitTables
<1>2. TablesInv /\ [Next]_vars => TablesInv'
  BY NextTables
<1> QED
  BY <1>1, <1>2, PTL DEF Spec

\* The variables of the MMU, of the kernel and of the program stay in their
\* types: no frame number, slot or bit out of range is ever used.
THEOREM TypesKept ==
  ASSUME CleanMemory
  PROVE  Spec => []TypeOK
<1>1. TablesInv => TypeOK
  BY DEF TablesInv
<1> QED
  BY <1>1, TablesAlways, PTL

\* Page table, inverse page table, occupied bitmap and TLB agree in every
\* state, however many frames, TLB slots and pages there are.
THEOREM TablesKeptInAgreement ==
  ASSUME CleanMemory
  PROVE  Spec => []TablesAgree
<1>1. TablesInv => TablesAgree
  BY DEF TablesInv
<1> QED
  BY <1>1, TablesAlways, PTL

\* The kernel does not have to evict a page while a frame is free, if every
\* frame has a bit: where mmu_get_free_page_frame says there is none, each
\* frame holds a page.
THEOREM EvictionAlwaysFindsPages ==
  ASSUME CleanMemory, MMU = "mmu.o" \/ num_page_frames % WORD_BITS = 0
  PROVE  Spec => []EvictionFindsPages
<1>1. TablesInv => EvictionFindsPages
  <2>1. MappedFrames = Frames
    BY EveryFrameMapped
  <2> QED
    BY <2>1, NoFreeFrame DEF TablesInv, TablesAgree, TypeOK, BitmapsTypeOK, Bitmap, Bits,
                             FreeFrames, EvictionFindsPages
<1> QED
  BY <1>1, TablesAlways, PTL

-----------------------------------------------------------------------------
(* An instruction misses the TLB once.                                     *)

\* After a miss the page that is waited for is in the TLB when it is
\* translated again.
MissesInv ==
  /\ OneMissPerInstruction
  /\ state = "translate" /\ misses # 0 => ~ tlb_miss(vpage)

\* The kernel puts the page it brings in into the TLB, where the retry finds it.
LEMMA BringInHits ==
  ASSUME TablesInv, BringIn
  PROVE  ~ tlb_miss(vpage)'
<1>1. /\ state = "fault" /\ mmu_get_free_page_frame # NO_FREE_PAGEFRAME
      /\ tlb_insert_vpage(vpage, mmu_get_free_page_frame, 0, 0)
      /\ vpage' = vpage
  BY DEF BringIn, InstallPage, instruction
<1>2. mmu_get_free_page_frame \in Frames
  BY <1>1, FreeFrame
<1>3. /\ vpage \in VPages /\ TlbTypeOK /\ rbit_bitmap \in Bitmap /\ mbit_bitmap \in Bitmap
      /\ 0 \in Bits
  BY <1>1 DEF TablesInv, TypeOK, BitmapsTypeOK, Bits
<1>4. /\ found \in Slots
      /\ tlb'[found] = [valid |-> 1, vpage |-> vpage, r |-> 0, m |-> 0, pframe |-> mmu_get_free_page_frame]
  BY <1>1, <1>2, <1>3, InsertionEffect
<1>5. PICK i \in Slots : tlb'[i].valid = 1 /\ tlb'[i].vpage = vpage
  BY <1>4
<1> QED
  BY <1>1, <1>5 DEF tlb_miss, HitSlots

\* Every step keeps an instruction at one miss or none.
LEMMA NextMisses ==
  ASSUME TablesInv, MissesInv, [Next]_vars
  PROVE  MissesInv'
<1>1. misses \in {0, 1} /\ misses \in Nat
  BY DEF TablesInv, TypeOK, MissesInv, OneMissPerInstruction, MaxMisses
<1>2. CASE Fetch
  BY <1>2 DEF Fetch, MissesInv, OneMissPerInstruction
<1>3. CASE Translate
  <2>1. misses' <= 1
    BY <1>1, <1>3 DEF Translate, TranslateByPageTable, CountMiss, MissesInv, OneMissPerInstruction, MaxMisses
  <2> QED
    BY <1>3, <2>1 DEF Translate, MissesInv, OneMissPerInstruction
<1>4. CASE Fault
  BY <1>1, <1>4 DEF Fault, PageFault, CountMiss, MissesInv, OneMissPerInstruction, MaxMisses
<1>5. CASE BringIn
  BY <1>5, BringInHits DEF BringIn, MissesInv, OneMissPerInstruction
<1>6. CASE Evict
  BY <1>6 DEF Evict, MissesInv, OneMissPerInstruction
<1>7. CASE ClockInterrupt
  BY <1>7 DEF ClockInterrupt, MissesInv, OneMissPerInstruction
<1>8. CASE UNCHANGED vars
  BY <1>8 DEF vars, mmuVars, tlbVars, instruction, MissesInv, OneMissPerInstruction, tlb_miss, HitSlots
<1> QED
  BY <1>2, <1>3, <1>4, <1>5, <1>6, <1>7, <1>8 DEF Next

\* No instruction is counted as two TLB misses, although one that faults is
\* translated twice: whatever is evicted for it, the retry hits.
THEOREM MissesCountedOnce ==
  ASSUME CleanMemory
  PROVE  Spec => []OneMissPerInstruction
<1>1. Init => MissesInv
  BY DEF Init, MissesInv, OneMissPerInstruction
<1>2. TablesInv /\ MissesInv /\ [Next]_vars => MissesInv'
  BY NextMisses
<1>3. MissesInv => OneMissPerInstruction
  BY DEF MissesInv
<1> QED
  BY <1>1, <1>2, <1>3, TablesAlways, PTL DEF Spec
=============================================================================
