---------------------------- MODULE PagingProofs -----------------------------
(***************************************************************************)
(* The R and M bits of pages, whether TLB or bitmaps hold them, and the    *)
(* two specifications that VirtualMemory implements.                       *)
(***************************************************************************)
EXTENDS VirtualMemoryProofs

MBit(v) == CurrentBit(v, "m", mbit_bitmap)
RBit(v) == CurrentBit(v, "r", rbit_bitmap)

Cached(v) == \E i \in Slots : Valid(i) /\ tlb[i].vpage = v

\* The bits of a page are those of its only TLB entry, or of the bitmaps.
CurrentBitsFound ==
  \A v \in VPages :
    /\ \A i \in Slots : Valid(i) /\ tlb[i].vpage = v => MBit(v) = tlb[i].m /\ RBit(v) = tlb[i].r
    /\ ~ Cached(v) => /\ MBit(v) = mbit_bitmap[pt_get_pframe_number(v)]
                      /\ RBit(v) = rbit_bitmap[pt_get_pframe_number(v)]

-----------------------------------------------------------------------------
(* How each step changes the bits.                                         *)

\* As TablesAgree has it, no page has two entries.
LEMMA CurrentBits == TablesInv => CurrentBitsFound
<1> SUFFICES ASSUME TablesInv, NEW v \in VPages
             PROVE  /\ \A i \in Slots : Valid(i) /\ tlb[i].vpage = v =>
                         MBit(v) = tlb[i].m /\ RBit(v) = tlb[i].r
                    /\ ~ Cached(v) => /\ MBit(v) = mbit_bitmap[pt_get_pframe_number(v)]
                                      /\ RBit(v) = rbit_bitmap[pt_get_pframe_number(v)]
  BY DEF CurrentBitsFound
<1>1. ASSUME NEW i \in Slots, Valid(i), tlb[i].vpage = v
      PROVE  MBit(v) = tlb[i].m /\ RBit(v) = tlb[i].r
  <2>1. \A j \in Slots : Valid(j) /\ tlb[j].vpage = v => j = i
    BY <1>1 DEF TablesInv, TablesAgree
  <2>2. (CHOOSE j \in Slots : Valid(j) /\ tlb[j].vpage = v) = i
    BY <1>1, <2>1
  <2> QED
    BY <1>1, <2>2 DEF MBit, RBit, CurrentBit
<1>2. ASSUME ~ Cached(v)
      PROVE  /\ MBit(v) = mbit_bitmap[pt_get_pframe_number(v)]
             /\ RBit(v) = rbit_bitmap[pt_get_pframe_number(v)]
  BY <1>2 DEF Cached, MBit, RBit, CurrentBit
<1> QED
  BY <1>1, <1>2

\* They are bits.
LEMMA BitsAreBits ==
  ASSUME TablesInv, NEW v \in VPages, InMemory(v)
  PROVE  MBit(v) \in Bits /\ RBit(v) \in Bits
<1>1. CASE Cached(v)
  BY <1>1, CurrentBits DEF CurrentBitsFound, Cached, TablesInv, TypeOK, TlbTypeOK, Entries
<1>2. CASE ~ Cached(v)
  BY <1>2, CurrentBits, ResidentPage DEF CurrentBitsFound, TablesInv, TypeOK, BitmapsTypeOK, Bitmap
<1> QED
  BY <1>1, <1>2

\* Inserting a page into the TLB changes the bits of no other page, although
\* the entry that is replaced loses its own.
LEMMA InsertionBits ==
  ASSUME TablesInv, TablesInv',
         NEW v \in VPages, ~ Cached(v),
         NEW f \in Frames, NEW r \in Bits, NEW m \in Bits, tlb_insert_vpage(v, f, r, m)
  PROVE  /\ MBit(v)' = m /\ RBit(v)' = r
         /\ \A w \in VPages \ {v} :
              InMemory(w) /\ pt_get_pframe_number(w)' = pt_get_pframe_number(w) =>
                MBit(w)' = MBit(w) /\ RBit(w)' = RBit(w)
<1>1. /\ found \in Slots
      /\ tlb'[found] = [valid |-> 1, vpage |-> v, r |-> r, m |-> m, pframe |-> f]
      /\ \A i \in Slots \ {found} : tlb'[i] = tlb[i]
      /\ \A g \in MappedFrames :
           LET written == tlb[found].valid = 1 /\ tlb[found].pframe = g IN
           /\ rbit_bitmap'[g] = IF written THEN tlb[found].r ELSE rbit_bitmap[g]
           /\ mbit_bitmap'[g] = IF written THEN tlb[found].m ELSE mbit_bitmap[g]
  <2>1. TlbTypeOK /\ rbit_bitmap \in Bitmap /\ mbit_bitmap \in Bitmap
    BY DEF TablesInv, TypeOK, BitmapsTypeOK
  <2> QED
    BY <2>1, InsertionEffect
<1>2. PICK k \in Slots : k = found
  BY <1>1
<1>3. /\ tlb'[k].valid = 1 /\ tlb'[k].vpage = v /\ tlb'[k].r = r /\ tlb'[k].m = m
      /\ \A i \in Slots \ {k} : tlb'[i] = tlb[i]
  BY <1>1, <1>2
<1>4. CurrentBitsFound'
  <2>1. TablesInv' => CurrentBitsFound'
    BY CurrentBits, PTL
  <2> QED
    BY <2>1
<1>5. MBit(v)' = m /\ RBit(v)' = r
  <2>1. Valid(k)'
    BY <1>3 DEF Valid
  <2> QED
    BY <1>3, <1>4, <2>1 DEF CurrentBitsFound
<1>6. ASSUME NEW w \in VPages \ {v}, InMemory(w), pt_get_pframe_number(w)' = pt_get_pframe_number(w)
      PROVE  MBit(w)' = MBit(w) /\ RBit(w)' = RBit(w)
  <2> DEFINE g == pt_get_pframe_number(w)
  <2>1. /\ g \in MappedFrames
        /\ \A i \in Slots : Valid(i) /\ tlb[i].pframe = g => tlb[i].vpage = w
        /\ \A i \in Slots : Valid(i) /\ tlb[i].vpage = w => tlb[i].pframe = g
    <3>1. g \in MappedFrames /\ \A x \in VPages : InMemory(x) /\ pt_get_pframe_number(x) = g => x = w
      BY <1>6, ResidentPage
    <3> QED
      BY <3>1 DEF TablesInv, TablesAgree, TypeOK, TlbTypeOK, Entries
  <2>2. CASE \E i \in Slots \ {k} : Valid(i) /\ tlb[i].vpage = w
    <3>1. PICK i \in Slots \ {k} : Valid(i) /\ tlb[i].vpage = w
      BY <2>2
    <3>2. tlb'[i] = tlb[i] /\ Valid(i)'
      BY <1>3, <3>1 DEF Valid
    <3>3. MBit(w)' = tlb'[i].m /\ RBit(w)' = tlb'[i].r
      BY <1>4, <3>1, <3>2 DEF CurrentBitsFound
    <3> QED
      BY <3>1, <3>2, <3>3, CurrentBits DEF CurrentBitsFound
  <2>3. CASE ~ \E i \in Slots \ {k} : Valid(i) /\ tlb[i].vpage = w
    <3>1. ~ Cached(w)'
      BY <1>3, <2>3 DEF Cached, Valid
    <3>2. MBit(w)' = mbit_bitmap'[g] /\ RBit(w)' = rbit_bitmap'[g]
      BY <1>4, <1>6, <3>1 DEF CurrentBitsFound
    <3>3. CASE Valid(k) /\ tlb[k].vpage = w
      <4>1. MBit(w) = tlb[k].m /\ RBit(w) = tlb[k].r
        BY <3>3, CurrentBits DEF CurrentBitsFound
      <4>2. mbit_bitmap'[g] = tlb[k].m /\ rbit_bitmap'[g] = tlb[k].r
        BY <1>1, <1>2, <2>1, <3>3 DEF Valid
      <4> QED
        BY <3>2, <4>1, <4>2
    <3>4. CASE ~ (Valid(k) /\ tlb[k].vpage = w)
      <4>1. ~ Cached(w)
        BY <2>3, <3>4 DEF Cached
      <4>2. mbit_bitmap'[g] = mbit_bitmap[g] /\ rbit_bitmap'[g] = rbit_bitmap[g]
        BY <1>1, <1>2, <2>1, <3>4 DEF Valid
      <4> QED
        BY <3>2, <4>1, <4>2, CurrentBits DEF CurrentBitsFound
    <3> QED
      BY <3>3, <3>4
  <2> QED
    BY <2>2, <2>3
<1> QED
  BY <1>5, <1>6

\* A page keeps its bits if its entry, or without one the bitmaps, keep them.
LEMMA BitsKept ==
  ASSUME TablesInv, TablesInv',
         NEW w \in VPages, pt_get_pframe_number(w)' = pt_get_pframe_number(w),
         \A i \in Slots : tlb'[i].valid = 1 /\ tlb'[i].vpage = w <=> tlb[i].valid = 1 /\ tlb[i].vpage = w
  PROVE  /\ /\ \A i \in Slots : Valid(i) /\ tlb[i].vpage = w => tlb'[i].m = tlb[i].m
            /\ ~ Cached(w) => mbit_bitmap'[pt_get_pframe_number(w)] = mbit_bitmap[pt_get_pframe_number(w)]
            => MBit(w)' = MBit(w)
         /\ /\ \A i \in Slots : Valid(i) /\ tlb[i].vpage = w => tlb'[i].r = tlb[i].r
            /\ ~ Cached(w) => rbit_bitmap'[pt_get_pframe_number(w)] = rbit_bitmap[pt_get_pframe_number(w)]
            => RBit(w)' = RBit(w)
<1>1. CurrentBitsFound /\ CurrentBitsFound'
  <2>1. TablesInv' => CurrentBitsFound'
    BY CurrentBits, PTL
  <2> QED
    BY <2>1, CurrentBits
<1>2. CASE Cached(w)
  <2>1. PICK i \in Slots : Valid(i) /\ tlb[i].vpage = w
    BY <1>2 DEF Cached
  <2>2. (Valid(i) /\ tlb[i].vpage = w)'
    BY <2>1 DEF Valid
  <2>3. MBit(w)' = tlb'[i].m /\ RBit(w)' = tlb'[i].r
    BY <1>1, <2>2 DEF CurrentBitsFound
  <2>4. MBit(w) = tlb[i].m /\ RBit(w) = tlb[i].r
    BY <1>1, <2>1 DEF CurrentBitsFound
  <2> QED
    BY <2>1, <2>3, <2>4
<1>3. CASE ~ Cached(w)
  <2>1. ~ Cached(w)'
    BY <1>3 DEF Cached, Valid
  <2>2. /\ MBit(w)' = mbit_bitmap'[pt_get_pframe_number(w)]
        /\ RBit(w)' = rbit_bitmap'[pt_get_pframe_number(w)]
    BY <1>1, <2>1 DEF CurrentBitsFound
  <2>3. /\ MBit(w) = mbit_bitmap[pt_get_pframe_number(w)]
        /\ RBit(w) = rbit_bitmap[pt_get_pframe_number(w)]
    BY <1>1, <1>3 DEF CurrentBitsFound
  <2> QED
    BY <1>3, <2>2, <2>3
<1> QED
  BY <1>2, <1>3

\* A hit in the TLB sets the R bit of the page, and the M bit for a STORE.
LEMMA HitBits ==
  ASSUME TablesInv, TablesInv', NEW p \in VPages, NEW o \in Operations,
         ~ tlb_miss(p), tlb_lookup_vpage(p, o), UNCHANGED <<rbit_bitmap, mbit_bitmap, first_level_page_table>>
  PROVE  \A w \in VPages :
           /\ MBit(w)' = IF w = p /\ o = "STORE" THEN 1 ELSE MBit(w)
           /\ RBit(w)' = IF w = p THEN 1 ELSE RBit(w)
<1>1. PICK k \in Slots :
        /\ tlb[k].valid = 1 /\ tlb[k].vpage = p
        /\ \A j \in Slots : /\ tlb'[j].valid = tlb[j].valid
                            /\ tlb'[j].vpage = tlb[j].vpage
                            /\ tlb'[j].r = IF j = k THEN 1 ELSE tlb[j].r
                            /\ tlb'[j].m = IF j = k /\ o = "STORE" THEN 1 ELSE tlb[j].m
  <2>1. TlbTypeOK
    BY DEF TablesInv, TypeOK
  <2> QED
    BY <2>1, HitEffect
<1>2. CurrentBitsFound /\ CurrentBitsFound'
  <2>1. TablesInv' => CurrentBitsFound'
    BY CurrentBits, PTL
  <2> QED
    BY <2>1, CurrentBits
<1>3. /\ MBit(p)' = IF o = "STORE" THEN 1 ELSE MBit(p)
      /\ RBit(p)' = 1
  <2>1. (Valid(k) /\ tlb[k].vpage = p)'
    BY <1>1 DEF Valid
  <2>2. MBit(p)' = tlb'[k].m /\ RBit(p)' = tlb'[k].r
    BY <1>2, <2>1 DEF CurrentBitsFound
  <2>3. MBit(p) = tlb[k].m
    BY <1>1, <1>2 DEF CurrentBitsFound, Valid
  <2> QED
    BY <1>1, <2>2, <2>3
<1>4. ASSUME NEW w \in VPages, w # p
      PROVE  MBit(w)' = MBit(w) /\ RBit(w)' = RBit(w)
  <2>1. pt_get_pframe_number(w)' = pt_get_pframe_number(w)
    BY DEF pt_get_pframe_number
  <2>2. \A i \in Slots : tlb'[i].valid = 1 /\ tlb'[i].vpage = w <=> tlb[i].valid = 1 /\ tlb[i].vpage = w
    BY <1>1
  <2>3. \A i \in Slots : Valid(i) /\ tlb[i].vpage = w => tlb'[i].m = tlb[i].m /\ tlb'[i].r = tlb[i].r
    BY <1>1, <1>4
  <2> QED
    BY <2>1, <2>2, <2>3, BitsKept
<1> QED
  BY <1>3, <1>4

\* The access goes to the frame that the page table has for the page.
LEMMA AccessedFrame ==
  ASSUME TablesInv, Translate, NEW p \in VPages, p = vpage
  PROVE  /\ InMemory(p) /\ TranslatedFrame(vpage) = pt_get_pframe_number(p)
         /\ UNCHANGED first_level_page_table
<1>1. UNCHANGED first_level_page_table
  BY DEF Translate, TranslateByTlb, TranslateByPageTable
<1>2. CASE ~ tlb_miss(p)
  BY <1>1, <1>2, HitIsResident
<1>3. CASE tlb_miss(p)
  BY <1>1, <1>3 DEF Translate, TranslateByTlb, TranslateByPageTable, InMemory, TranslatedFrame
<1> QED
  BY <1>2, <1>3

\* mmu_translate sets no bit but those of the access; mmu.o sets them all.
LEMMA AccessBits ==
  ASSUME TablesInv, TablesInv', Translate, NEW p \in VPages, p = vpage,
         NEW w \in VPages, InMemory(w)
  PROVE  /\ MBit(w)' = 1 => MBit(w) = 1 \/ (w = p /\ op = "STORE")
         /\ RBit(w)' = 1 => RBit(w) = 1 \/ w = p
         /\ MMU = "mmu.o" => /\ MBit(w)' = IF w = p /\ op = "STORE" THEN 1 ELSE MBit(w)
                             /\ RBit(w)' = IF w = p THEN 1 ELSE RBit(w)
<1>1. op \in Operations /\ UNCHANGED first_level_page_table
  BY DEF Translate, TranslateByTlb, TranslateByPageTable, TablesInv, TypeOK
<1>2. CASE TranslateByTlb(p, op)
  <2>1. ~ tlb_miss(p) /\ tlb_lookup_vpage(p, op) /\ UNCHANGED <<rbit_bitmap, mbit_bitmap>>
    BY <1>2 DEF TranslateByTlb, bitmaps
  <2>2. /\ MBit(w)' = IF w = p /\ op = "STORE" THEN 1 ELSE MBit(w)
        /\ RBit(w)' = IF w = p THEN 1 ELSE RBit(w)
    BY <1>1, <2>1, HitBits
  <2> QED
    BY <2>2
<1>3. CASE TranslateByPageTable(p, op)
  <2> DEFINE f == pt_get_pframe_number(p)
  <2>1. tlb_miss(p) /\ InMemory(p) /\ tlb_insert_vpage(p, f, InsertedRBit(f), InsertedMBit(f, op))
    BY <1>3 DEF TranslateByPageTable, InMemory
  <2>2. f \in Frames /\ f \in MappedFrames
    BY <2>1, ResidentPage
  <2>3. ~ Cached(p)
    BY <2>1 DEF tlb_miss, HitSlots, Cached, Valid
  <2>4. MBit(p) = mbit_bitmap[f] /\ RBit(p) = rbit_bitmap[f]
    BY <2>3, CurrentBits DEF CurrentBitsFound
  <2>5. InsertedRBit(f) \in Bits /\ InsertedMBit(f, op) \in Bits
    BY <2>2 DEF InsertedRBit, InsertedMBit, CountedRBit, CountedMBit, TablesInv, TypeOK, BitmapsTypeOK, Bitmap, Bits
  <2>6. pt_get_pframe_number(w)' = pt_get_pframe_number(w)
    BY <1>1 DEF pt_get_pframe_number
  <2> HIDE DEF f
  <2>7. /\ MBit(p)' = InsertedMBit(f, op) /\ RBit(p)' = InsertedRBit(f)
        /\ w # p => MBit(w)' = MBit(w) /\ RBit(w)' = RBit(w)
    BY <2>1, <2>2, <2>3, <2>5, <2>6, InsertionBits
  <2> QED
    BY <2>1, <2>4, <2>7, MmuAssumption DEF InsertedRBit, InsertedMBit, CountedRBit, CountedMBit
<1> QED
  BY <1>2, <1>3 DEF Translate

\* A page fault trap changes no bit, but copies those of the TLB to the bitmaps.
LEMMA FaultBits ==
  ASSUME TablesInv, TablesInv', Fault, NEW w \in VPages, InMemory(w)
  PROVE  /\ InMemory(w)' /\ pt_get_pframe_number(w)' = pt_get_pframe_number(w)
         /\ MBit(w)' = MBit(w) /\ RBit(w)' = RBit(w)
         /\ mbit_bitmap'[pt_get_pframe_number(w)] = MBit(w)
         /\ rbit_bitmap'[pt_get_pframe_number(w)] = RBit(w)
<1> DEFINE g == pt_get_pframe_number(w)
<1>1. /\ UNCHANGED <<tlb, first_level_page_table>>
      /\ mbit_bitmap' = [f \in MappedFrames |->
           IF HoldingSlots(f) = {} THEN mbit_bitmap[f] ELSE LastEntry(f).m]
      /\ rbit_bitmap' = [f \in MappedFrames |->
           IF HoldingSlots(f) = {} THEN rbit_bitmap[f] ELSE LastEntry(f).r]
  BY DEF Fault, PageFault, tlb_write_back_r_m_bits, tlbVars
<1>2. InMemory(w)' /\ pt_get_pframe_number(w)' = pt_get_pframe_number(w)
  BY <1>1 DEF InMemory, page_fault, pt_get_pframe_number
<1>3. /\ g \in MappedFrames
      /\ \A i \in Slots : Valid(i) /\ tlb[i].pframe = g => tlb[i].vpage = w
      /\ \A i \in Slots : Valid(i) /\ tlb[i].vpage = w => tlb[i].pframe = g
  <2>1. g \in MappedFrames /\ \A x \in VPages : InMemory(x) /\ pt_get_pframe_number(x) = g => x = w
    BY ResidentPage
  <2> QED
    BY <2>1 DEF TablesInv, TablesAgree, TypeOK, TlbTypeOK, Entries
<1>4. mbit_bitmap'[g] = MBit(w) /\ rbit_bitmap'[g] = RBit(w)
  <2>1. CASE Cached(w)
    <3>1. PICK i \in Slots : Valid(i) /\ tlb[i].vpage = w
      BY <2>1 DEF Cached
    <3>2. HoldingSlots(g) = {i}
      BY <1>3, <3>1 DEF HoldingSlots, Valid, TablesInv, TablesAgree
    <3>3. i <= i
      BY <3>1, TlbSizeAssumption DEF Slots
    <3>4. LastEntry(g) = tlb[i]
      BY <3>2, <3>3 DEF LastEntry
    <3>5. MBit(w) = tlb[i].m /\ RBit(w) = tlb[i].r
      BY <3>1, CurrentBits DEF CurrentBitsFound
    <3> QED
      BY <1>1, <1>3, <3>2, <3>4, <3>5
  <2>2. CASE ~ Cached(w)
    <3>1. HoldingSlots(g) = {}
      BY <1>3, <2>2 DEF HoldingSlots, Cached, Valid
    <3>2. MBit(w) = mbit_bitmap[g] /\ RBit(w) = rbit_bitmap[g]
      BY <2>2, CurrentBits DEF CurrentBitsFound
    <3> QED
      BY <1>1, <1>3, <3>1, <3>2
  <2> QED
    BY <2>1, <2>2
<1>5. MBit(w)' = MBit(w) /\ RBit(w)' = RBit(w)
  <2>1. \A i \in Slots : tlb'[i].valid = 1 /\ tlb'[i].vpage = w <=> tlb[i].valid = 1 /\ tlb[i].vpage = w
    BY <1>1
  <2>2. \A i \in Slots : Valid(i) /\ tlb[i].vpage = w => tlb'[i].m = tlb[i].m /\ tlb'[i].r = tlb[i].r
    BY <1>1
  <2>3. ~ Cached(w) => mbit_bitmap'[g] = mbit_bitmap[g] /\ rbit_bitmap'[g] = rbit_bitmap[g]
    BY <1>4, CurrentBits DEF CurrentBitsFound
  <2> QED
    BY <1>2, <2>1, <2>2, <2>3, BitsKept
<1> QED
  BY <1>2, <1>4, <1>5

\* A page comes in with clear bits; the others keep frames and bits.
LEMMA BringInBits ==
  ASSUME CleanMemory, TablesInv, TablesInv', BringIn, NEW p \in VPages, p = vpage
  PROVE  /\ ~ InMemory(p)
         /\ InMemory(p)' /\ pt_get_pframe_number(p)' = mmu_get_free_page_frame
         /\ MBit(p)' = 0 /\ RBit(p)' = 0
         /\ \A w \in VPages \ {p} :
              /\ InMemory(w)' <=> InMemory(w)
              /\ InMemory(w) => /\ pt_get_pframe_number(w)' = pt_get_pframe_number(w)
                                /\ MBit(w)' = MBit(w) /\ RBit(w)' = RBit(w)
<1> DEFINE f == mmu_get_free_page_frame
<1>1. /\ state = "fault" /\ f # NO_FREE_PAGEFRAME
      /\ pt_update_pagetable(p, f)
      /\ tlb_insert_vpage(p, f, 0, 0)
  BY DEF BringIn, InstallPage
<1>2. f \in Frames
  BY <1>1, FreeFrame
<1>3. ~ InMemory(p) /\ ~ Cached(p)
  BY <1>1, FaultedPage DEF Cached
<1> HIDE DEF f
<1>4. /\ ~ page_fault(p)'
      /\ pt_get_pframe_number(p)' = f
      /\ \A w \in VPages \ {p} :
           /\ page_fault(w)' <=> page_fault(w)
           /\ ~ page_fault(w) => pt_get_pframe_number(w)' = pt_get_pframe_number(w)
  <2>1. PageTableTypeOK /\ (PAGE = "page.o" \/ MallocZeroes)
    BY DEF TablesInv, TypeOK, CleanMemory
  <2> QED
    BY <1>1, <1>2, <2>1, UpdateEffect
<1>5. /\ MBit(p)' = 0 /\ RBit(p)' = 0
      /\ \A w \in VPages \ {p} :
           InMemory(w) /\ pt_get_pframe_number(w)' = pt_get_pframe_number(w) =>
             MBit(w)' = MBit(w) /\ RBit(w)' = RBit(w)
  <2>1. 0 \in Bits
    BY DEF Bits
  <2> QED
    BY <1>1, <1>2, <1>3, <2>1, InsertionBits
<1> QED
  BY <1>3, <1>4, <1>5 DEF InMemory, f

\* The page that is evicted is gone; the others keep frames and bits.
LEMMA EvictBits ==
  ASSUME TablesInv, TablesInv', Evict, NEW q \in VPages, q = inverse_page_table[victim]
  PROVE  /\ victim \in Frames /\ victim \in MappedFrames
         /\ InMemory(q) /\ pt_get_pframe_number(q) = victim
         /\ ~ InMemory(q)'
         /\ \A w \in VPages \ {q} :
              /\ InMemory(w)' <=> InMemory(w)
              /\ InMemory(w) => /\ pt_get_pframe_number(w)' = pt_get_pframe_number(w)
                                /\ MBit(w)' = MBit(w) /\ RBit(w)' = RBit(w)
<1>1. /\ \A g \in Frames : inverse_page_table[g] # NO_PAGE
      /\ pt_clear_page_table_entry(q)
      /\ tlb' = tlb_clear_entry(q)
      /\ UNCHANGED <<rbit_bitmap, mbit_bitmap>>
  BY DEF Evict, RemovePage
<1>2. victim \in Frames /\ victim \in MappedFrames
  BY <1>1, VictimIsLowest DEF TablesInv, FramesMapped
<1>3. InMemory(q) /\ pt_get_pframe_number(q) = victim
  BY <1>1, <1>2 DEF TablesInv, TablesAgree
<1>4. /\ page_fault(q)'
      /\ \A w \in VPages \ {q} :
           /\ page_fault(w)' <=> page_fault(w)
           /\ ~ page_fault(w) => pt_get_pframe_number(w)' = pt_get_pframe_number(w)
  <2>1. PageTableTypeOK /\ ~ page_fault(q)
    BY <1>3 DEF TablesInv, TypeOK, InMemory
  <2> QED
    BY <1>1, <2>1, ClearEffect
<1>5. ASSUME NEW w \in VPages \ {q}, InMemory(w)
      PROVE  MBit(w)' = MBit(w) /\ RBit(w)' = RBit(w)
  <2>1. pt_get_pframe_number(w)' = pt_get_pframe_number(w)
    BY <1>4, <1>5 DEF InMemory
  <2>2. ASSUME NEW i \in Slots
        PROVE  /\ tlb'[i].vpage = tlb[i].vpage
               /\ tlb[i].vpage = w => tlb'[i] = tlb[i]
    <3>1. tlb[i] \in Entries
      BY DEF TablesInv, TypeOK, TlbTypeOK
    <3>2. [tlb[i] EXCEPT !.valid = 0].vpage = tlb[i].vpage
      BY <3>1 DEF Entries
    <3> QED
      BY <1>1, <3>2 DEF tlb_clear_entry
  <2>3. \A i \in Slots : tlb'[i].valid = 1 /\ tlb'[i].vpage = w <=> tlb[i].valid = 1 /\ tlb[i].vpage = w
    BY <2>2
  <2>4. \A i \in Slots : Valid(i) /\ tlb[i].vpage = w => tlb'[i].m = tlb[i].m /\ tlb'[i].r = tlb[i].r
    BY <2>2
  <2> QED
    BY <1>1, <2>1, <2>3, <2>4, BitsKept
<1> QED
  BY <1>2, <1>3, <1>4, <1>5 DEF InMemory

\* A clock interrupt clears every R bit and no M bit.
LEMMA ClockBits ==
  ASSUME TablesInv, TablesInv', ClockInterrupt, NEW w \in VPages, InMemory(w)
  PROVE  /\ InMemory(w)' /\ pt_get_pframe_number(w)' = pt_get_pframe_number(w)
         /\ MBit(w)' = MBit(w) /\ RBit(w)' = 0
<1>1. /\ rbit_bitmap' = [f \in MappedFrames |-> 0]
      /\ tlb' = [i \in Slots |-> [tlb[i] EXCEPT !.r = 0]]
      /\ UNCHANGED <<mbit_bitmap, first_level_page_table>>
  BY DEF ClockInterrupt, mmu_clear_rbits, tlb_clear_R_bits
<1>2. ASSUME NEW i \in Slots
      PROVE  /\ tlb'[i].valid = tlb[i].valid /\ tlb'[i].vpage = tlb[i].vpage
             /\ tlb'[i].m = tlb[i].m /\ tlb'[i].r = 0
  BY <1>1 DEF TablesInv, TypeOK, TlbTypeOK, Entries
<1>3. InMemory(w)' /\ pt_get_pframe_number(w)' = pt_get_pframe_number(w)
  BY <1>1 DEF InMemory, page_fault, pt_get_pframe_number
<1>4. MBit(w)' = MBit(w)
  <2>1. \A i \in Slots : tlb'[i].valid = 1 /\ tlb'[i].vpage = w <=> tlb[i].valid = 1 /\ tlb[i].vpage = w
    BY <1>2
  <2> QED
    BY <1>1, <1>2, <1>3, <2>1, BitsKept
<1>5. RBit(w)' = 0
  <2>1. CurrentBitsFound'
    <3>1. TablesInv' => CurrentBitsFound'
      BY CurrentBits, PTL
    <3> QED
      BY <3>1
  <2>2. CASE Cached(w)'
    <3>1. PICK i \in Slots : (Valid(i) /\ tlb[i].vpage = w)'
      BY <2>2 DEF Cached
    <3>2. RBit(w)' = tlb'[i].r
      BY <2>1, <3>1 DEF CurrentBitsFound
    <3> QED
      BY <1>2, <3>2
  <2>3. CASE ~ Cached(w)'
    <3>1. RBit(w)' = rbit_bitmap'[pt_get_pframe_number(w)]
      BY <1>3, <2>1, <2>3 DEF CurrentBitsFound
    <3>2. pt_get_pframe_number(w) \in MappedFrames
      BY ResidentPage
    <3> QED
      BY <1>1, <3>1, <3>2
  <2> QED
    BY <2>2, <2>3
<1> QED
  BY <1>3, <1>4, <1>5

\* The MMU's state decides the bits.
LEMMA SameBits ==
  ASSUME TablesInv, TablesInv', UNCHANGED <<tlb, rbit_bitmap, mbit_bitmap, first_level_page_table>>,
         NEW w \in VPages
  PROVE  /\ InMemory(w)' <=> InMemory(w)
         /\ pt_get_pframe_number(w)' = pt_get_pframe_number(w)
         /\ MBit(w)' = MBit(w) /\ RBit(w)' = RBit(w)
<1>1. /\ InMemory(w)' <=> InMemory(w)
      /\ pt_get_pframe_number(w)' = pt_get_pframe_number(w)
  BY DEF InMemory, page_fault, pt_get_pframe_number
<1> QED
  BY <1>1, BitsKept

-----------------------------------------------------------------------------
(* What the bits say.                                                      *)

\* The page of the instruction, which a step may replace.
LEMMA InstructionPage ==
  ASSUME TablesInv, state # "ready"
  PROVE  \E p \in VPages : p = vpage
BY DEF TablesInv, TypeOK

\* The page the kernel evicts.
LEMMA EvictedPage ==
  ASSUME TablesInv, Evict
  PROVE  \E q \in VPages : q = inverse_page_table[victim]
<1>1. /\ \A g \in Frames : inverse_page_table[g] # NO_PAGE
      /\ victim \in Frames
  BY VictimIsLowest DEF Evict
<1> QED
  BY <1>1 DEF TablesInv, TypeOK

\* One step with the page table and the MMU's other tables left alone.
LEMMA QuietStep ==
  ASSUME Fetch \/ UNCHANGED vars
  PROVE  /\ UNCHANGED <<tlb, rbit_bitmap, mbit_bitmap, pageframe_bitmap, first_level_page_table>>
         /\ UNCHANGED <<inverse_page_table, memory, disk, loaded, modified, referenced>>
         /\ state' = "fault" => state = "fault"
BY DEF Fetch, vars, mmuVars, bitmaps, tlbVars, kernelVars, data, history

\* No step lets a page look modified or referenced that is not.
LEMMA NextInvented ==
  ASSUME CleanMemory, TablesInv, TablesInv', BitsNotInvented, [Next]_vars
  PROVE  BitsNotInvented'
<1>1. \A v \in VPages : InMemory(v) =>
        /\ MBit(v) = 1 => v \in modified
        /\ RBit(v) = 1 => v \in referenced
  BY DEF BitsNotInvented, MBit, RBit
<1> SUFFICES ASSUME NEW v \in VPages, InMemory(v)'
             PROVE  /\ MBit(v)' = 1 => v \in modified'
                    /\ RBit(v)' = 1 => v \in referenced'
  BY DEF BitsNotInvented, MBit, RBit
<1>2. CASE Fetch \/ UNCHANGED vars
  BY <1>1, <1>2, QuietStep, SameBits
<1>3. CASE Translate
  <2>1. PICK p \in VPages : p = vpage
    BY <1>3, InstructionPage DEF Translate
  <2>2. InMemory(v)
    BY <1>3 DEF Translate, TranslateByTlb, TranslateByPageTable, InMemory, page_fault
  <2>3. /\ MBit(v)' = 1 => MBit(v) = 1 \/ (v = p /\ op = "STORE")
        /\ RBit(v)' = 1 => RBit(v) = 1 \/ v = p
    BY <1>3, <2>1, <2>2, AccessBits
  <2> QED
    BY <1>1, <1>3, <2>1, <2>2, <2>3 DEF Translate
<1>4. CASE Fault
  <2>1. InMemory(v)
    BY <1>4 DEF Fault, PageFault, InMemory, page_fault
  <2> QED
    BY <1>1, <1>4, <2>1, FaultBits DEF Fault, history
<1>5. CASE BringIn
  <2>1. PICK p \in VPages : p = vpage
    BY <1>5, InstructionPage DEF BringIn
  <2>2. UNCHANGED <<modified, referenced>>
    BY <1>5 DEF BringIn, history
  <2> QED
    BY <1>1, <1>5, <2>1, <2>2, BringInBits
<1>6. CASE Evict
  <2>1. PICK q \in VPages : q = inverse_page_table[victim]
    BY <1>6, EvictedPage
  <2>2. modified \ {q} \subseteq modified' /\ referenced' = referenced \ {q}
    BY <1>6, <2>1 DEF Evict
  <2> QED
    BY <1>1, <1>6, <2>1, <2>2, EvictBits
<1>7. CASE ClockInterrupt
  <2>1. InMemory(v) /\ UNCHANGED modified
    BY <1>7 DEF ClockInterrupt, mmu_clear_rbits, InMemory, page_fault
  <2> QED
    BY <1>1, <1>7, <2>1, ClockBits
<1> QED
  BY <1>2, <1>3, <1>4, <1>5, <1>6, <1>7 DEF Next

\* At the start no page is in memory.
LEMMA InitBits ==
  ASSUME Init
  PROVE  \A v \in VPages : ~ InMemory(v)
BY VPagesAssumption DEF Init, mmu_initialize, pt_initialize_page_table, VPage, InMemory, page_fault

\* With either MMU, and whatever the bitmaps start out with, no page has an R
\* or an M bit without the access that it stands for.
THEOREM BitsNeverInvented ==
  ASSUME CleanMemory
  PROVE  Spec => []BitsNotInvented
<1>1. Init => BitsNotInvented
  BY InitBits DEF BitsNotInvented
<1>2. TablesInv /\ TablesInv' /\ BitsNotInvented /\ [Next]_vars => BitsNotInvented'
  BY NextInvented
<1> QED
  BY <1>1, <1>2, TablesAlways, PTL DEF Spec

\* From the write-back of the bits to the choice of a victim nothing sets a bit.
WrittenBack ==
  state = "fault" => \A v \in VPages : InMemory(v) =>
    /\ mbit_bitmap[pt_get_pframe_number(v)] = MBit(v)
    /\ rbit_bitmap[pt_get_pframe_number(v)] = RBit(v)

\* The inductive invariant of the bits, with mmu.o.
BitsInv ==
  /\ MBitsTruthful /\ RBitsTruthful /\ WrittenBack
  /\ \A v \in modified \cup referenced : InMemory(v)

\* Each step keeps the R and M bits exact, wherever it moves them.
LEMMA NextBits ==
  ASSUME CleanMemory, MMU = "mmu.o", TablesInv, TablesInv', BitsInv, [Next]_vars
  PROVE  BitsInv'
<1>1. /\ \A v \in VPages : InMemory(v) =>
           /\ MBit(v) = 1 <=> v \in modified
           /\ RBit(v) = 1 <=> v \in referenced
      /\ WrittenBack
      /\ \A v \in modified \cup referenced : InMemory(v)
      /\ modified \subseteq VPages /\ referenced \subseteq VPages
      /\ modified' \subseteq VPages /\ referenced' \subseteq VPages
  BY DEF BitsInv, MBitsTruthful, RBitsTruthful, MBit, RBit, TablesInv, TypeOK
<1>2. ASSUME NEW v \in VPages
      PROVE  /\ InMemory(v)' => /\ MBit(v)' = 1 <=> v \in modified'
                                /\ RBit(v)' = 1 <=> v \in referenced'
             /\ v \in modified' \cup referenced' => InMemory(v)'
  <2>1. CASE Fetch \/ UNCHANGED vars
    BY <1>1, <2>1, QuietStep, SameBits
  <2>2. CASE Translate
    <3>1. PICK p \in VPages : p = vpage
      BY <2>2, InstructionPage DEF Translate
    <3>2. \A w \in VPages : InMemory(w)' <=> InMemory(w)
      BY <2>2 DEF Translate, TranslateByTlb, TranslateByPageTable, InMemory, page_fault
    <3>3. /\ referenced' = referenced \cup {p}
          /\ modified' = IF op = "STORE" THEN modified \cup {p} ELSE modified
      BY <2>2, <3>1 DEF Translate
    <3>4. CASE ~ InMemory(v)
      <4>1. v # p
        BY <2>2, <3>1, <3>4, AccessedFrame
      <4> QED
        BY <1>1, <3>2, <3>3, <3>4, <4>1
    <3>5. CASE InMemory(v)
      <4>1. /\ MBit(v)' = IF v = p /\ op = "STORE" THEN 1 ELSE MBit(v)
            /\ RBit(v)' = IF v = p THEN 1 ELSE RBit(v)
        BY <2>2, <3>1, <3>5, AccessBits
      <4> QED
        BY <1>1, <3>2, <3>3, <3>5, <4>1
    <3> QED
      BY <3>4, <3>5
  <2>3. CASE Fault
    <3>1. (InMemory(v)' <=> InMemory(v)) /\ UNCHANGED <<modified, referenced>>
      BY <2>3 DEF Fault, PageFault, InMemory, page_fault, history
    <3> QED
      BY <1>1, <2>3, <3>1, FaultBits
  <2>4. CASE BringIn
    <3>1. PICK p \in VPages : p = vpage
      BY <2>4, InstructionPage DEF BringIn
    <3>2. UNCHANGED <<modified, referenced>>
      BY <2>4 DEF BringIn, history
    <3> QED
      BY <1>1, <2>4, <3>1, <3>2, BringInBits
  <2>5. CASE Evict
    <3>1. PICK q \in VPages : q = inverse_page_table[victim]
      BY <2>5, EvictedPage
    <3>2. /\ modified' = IF mbit_bitmap[victim] = 1 THEN modified \ {q} ELSE modified
          /\ referenced' = referenced \ {q}
      BY <2>5, <3>1 DEF Evict
    <3>3. mbit_bitmap[victim] = 1 <=> q \in modified
      BY <1>1, <2>5, <3>1, EvictBits DEF Evict, WrittenBack
    <3>4. modified' = modified \ {q}
      BY <3>2, <3>3
    <3> QED
      BY <1>1, <2>5, <3>1, <3>2, <3>4, EvictBits
  <2>6. CASE ClockInterrupt
    <3>1. (InMemory(v)' <=> InMemory(v)) /\ UNCHANGED modified /\ referenced' = {}
      BY <2>6 DEF ClockInterrupt, mmu_clear_rbits, InMemory, page_fault
    <3> QED
      BY <1>1, <2>6, <3>1, ClockBits
  <2> QED
    BY <2>1, <2>2, <2>3, <2>4, <2>5, <2>6 DEF Next
<1>3. WrittenBack'
  <2> SUFFICES ASSUME state' = "fault", NEW v \in VPages, InMemory(v)'
               PROVE  (/\ mbit_bitmap[pt_get_pframe_number(v)] = MBit(v)
                       /\ rbit_bitmap[pt_get_pframe_number(v)] = RBit(v))'
    BY DEF WrittenBack
  <2>1. CASE Fetch \/ UNCHANGED vars
    BY <1>1, <2>1, QuietStep, SameBits DEF WrittenBack
  <2>2. CASE Fault
    <3>1. InMemory(v)
      BY <2>2 DEF Fault, PageFault, InMemory, page_fault
    <3> QED
      BY <2>2, <3>1, FaultBits
  <2>3. CASE Evict
    <3>1. PICK q \in VPages : q = inverse_page_table[victim]
      BY <2>3, EvictedPage
    <3>2. UNCHANGED <<rbit_bitmap, mbit_bitmap>> /\ state = "fault"
      BY <2>3 DEF Evict, RemovePage
    <3> QED
      BY <1>1, <2>3, <3>1, <3>2, EvictBits DEF WrittenBack
  <2> QED
    BY <2>1, <2>2, <2>3 DEF Next, Translate, BringIn, ClockInterrupt
<1> QED
  BY <1>1, <1>2, <1>3 DEF BitsInv, MBitsTruthful, RBitsTruthful, MBit, RBit

\* With mmu.o the bits are exact in every reachable state.
LEMMA BitsAlways ==
  ASSUME CleanMemory, MMU = "mmu.o"
  PROVE  Spec => []BitsInv
<1>1. Init => BitsInv
  BY InitBits DEF Init, BitsInv, MBitsTruthful, RBitsTruthful, WrittenBack
<1>2. TablesInv /\ TablesInv' /\ BitsInv /\ [Next]_vars => BitsInv'
  BY NextBits
<1> QED
  BY <1>1, <1>2, TablesAlways, PTL DEF Spec

\* Whether TLB or bitmap holds it, the M bit of a page says whether it was
\* stored to since it was brought in.
THEOREM MBitsAlwaysTruthful ==
  ASSUME CleanMemory, MMU = "mmu.o"
  PROVE  Spec => []MBitsTruthful
<1>1. BitsInv => MBitsTruthful
  BY DEF BitsInv
<1> QED
  BY <1>1, BitsAlways, PTL

\* ... and the R bit whether it was accessed since then and since the last
\* clock interrupt.
THEOREM RBitsAlwaysTruthful ==
  ASSUME CleanMemory, MMU = "mmu.o"
  PROVE  Spec => []RBitsTruthful
<1>1. BitsInv => RBitsTruthful
  BY DEF BitsInv
<1> QED
  BY <1>1, BitsAlways, PTL

\* A page that was stored to is not evicted without being written to disk.
THEOREM NoStoreEverLost ==
  ASSUME CleanMemory, MMU = "mmu.o"
  PROVE  Spec => []NoStoreLost
<1>1. BitsInv => NoStoreLost
  BY DEF BitsInv, NoStoreLost
<1> QED
  BY <1>1, BitsAlways, PTL

\* The kernel chooses its victim by bits that are up to date.
THEOREM VictimBitsAlwaysCurrent ==
  ASSUME CleanMemory, MMU = "mmu.o"
  PROVE  Spec => []VictimBitsCurrent
<1>1. TablesInv /\ BitsInv => VictimBitsCurrent
  <2> SUFFICES ASSUME TablesInv, BitsInv, state = "fault", NEW f \in Frames,
                      NEW v, v = inverse_page_table[f], v # NO_PAGE
               PROVE  /\ mbit_bitmap[f] = 1 <=> v \in modified
                      /\ rbit_bitmap[f] = 1 <=> v \in referenced
    BY DEF VictimBitsCurrent
  <2>1. v \in VPages /\ InMemory(v) /\ pt_get_pframe_number(v) = f
    BY DEF TablesInv, TypeOK, TablesAgree
  <2>2. mbit_bitmap[f] = MBit(v) /\ rbit_bitmap[f] = RBit(v)
    BY <2>1 DEF BitsInv, WrittenBack
  <2>3. (MBit(v) = 1 <=> v \in modified) /\ (RBit(v) = 1 <=> v \in referenced)
    BY <2>1 DEF BitsInv, MBitsTruthful, RBitsTruthful, MBit, RBit
  <2> QED
    BY <2>2, <2>3
<1> QED
  BY <1>1, BitsAlways, TablesAlways, PTL

-----------------------------------------------------------------------------
(* One memory.                                                             *)

\* A page that was not stored to is on disk as it is in memory.
CleanCopies == \A v \in VPages : InMemory(v) /\ v \notin modified => memory[pt_get_pframe_number(v)] = disk[v]

\* What the program sees in a page.
Content(v) == IF InMemory(v) THEN memory[pt_get_pframe_number(v)] ELSE disk[v]

\* The access of an instruction: the frame it writes holds no other page.
LEMMA AccessContents ==
  ASSUME TablesInv, CleanCopies, Translate, NEW p \in VPages, p = vpage
  PROVE  /\ CleanCopies'
         /\ \/ loaded' = Content(p) /\ \A w \in VPages : Content(w)' = Content(w)
            \/ /\ UNCHANGED loaded
               /\ \E val \in Values : \A w \in VPages : Content(w)' = IF w = p THEN val ELSE Content(w)
<1> DEFINE f == pt_get_pframe_number(p)
<1>1. InMemory(p) /\ TranslatedFrame(vpage) = f /\ UNCHANGED first_level_page_table
  BY AccessedFrame
<1>2. \A w \in VPages : /\ InMemory(w)' <=> InMemory(w)
                        /\ pt_get_pframe_number(w)' = pt_get_pframe_number(w)
  BY <1>1 DEF InMemory, page_fault, pt_get_pframe_number
<1>3. f \in Frames /\ \A w \in VPages : InMemory(w) /\ pt_get_pframe_number(w) = f => w = p
  BY <1>1, ResidentPage
<1> HIDE DEF f
<1>4. /\ AccessData(f)
      /\ modified' = IF op = "STORE" THEN modified \cup {p} ELSE modified
  BY <1>1 DEF Translate
<1>5. CASE op = "LOAD"
  <2>1. loaded' = memory[f] /\ UNCHANGED <<memory, disk, modified>>
    BY <1>4, <1>5 DEF AccessData
  <2>2. \A w \in VPages : Content(w)' = Content(w)
    BY <1>2, <2>1 DEF Content
  <2>3. loaded' = Content(p)
    BY <1>1, <2>1 DEF Content, f
  <2> QED
    BY <1>2, <2>1, <2>2, <2>3 DEF CleanCopies
<1>6. CASE op = "STORE"
  <2>1. PICK val \in Stored[vpage] : memory' = [memory EXCEPT ![f] = val]
    BY <1>4, <1>6 DEF AccessData
  <2>2. UNCHANGED <<disk, loaded>> /\ modified' = modified \cup {p}
    BY <1>4, <1>6 DEF AccessData
  <2>3. val \in Values
    BY <2>1 DEF Values
  <2>4. memory'[f] = val /\ \A g \in Frames \ {f} : memory'[g] = memory[g]
    BY <1>3, <2>1 DEF TablesInv, TypeOK
  <2>5. \A w \in VPages : InMemory(w) => pt_get_pframe_number(w) \in Frames
    BY ResidentPage
  <2>6. ASSUME NEW w \in VPages
        PROVE  Content(w)' = IF w = p THEN val ELSE Content(w)
    <3>1. CASE w = p
      BY <1>1, <1>2, <2>4, <3>1 DEF Content, f
    <3>2. CASE w # p
      BY <1>2, <1>3, <2>2, <2>4, <2>5, <3>2 DEF Content
    <3> QED
      BY <3>1, <3>2
  <2>7. CleanCopies'
    <3> SUFFICES ASSUME NEW w \in VPages, InMemory(w), w \notin modified \cup {p}
                 PROVE  memory'[pt_get_pframe_number(w)] = disk[w]
      BY <1>2, <2>2 DEF CleanCopies
    <3>1. pt_get_pframe_number(w) \in Frames \ {f}
      BY <1>3, <2>5
    <3> QED
      BY <2>4, <3>1 DEF CleanCopies
  <2> QED
    BY <2>2, <2>3, <2>6, <2>7
<1> QED
  BY <1>4, <1>5, <1>6 DEF AccessData

\* A page that is brought in or evicted takes its data along.
LEMMA MovedContents ==
  ASSUME CleanMemory, MMU = "mmu.o", TablesInv, TablesInv', BitsInv, CleanCopies, BringIn \/ Evict
  PROVE  /\ CleanCopies'
         /\ UNCHANGED loaded
         /\ \A w \in VPages : Content(w)' = Content(w)
<1>1. \A w \in VPages : InMemory(w) => pt_get_pframe_number(w) \in Frames
  BY ResidentPage
<1>2. CASE BringIn
  <2> DEFINE f == mmu_get_free_page_frame
  <2>1. PICK p \in VPages : p = vpage
    BY <1>2, InstructionPage DEF BringIn
  <2>2. f \in Frames /\ inverse_page_table[f] = NO_PAGE
    BY <1>2, FreeFrame DEF BringIn, InstallPage
  <2>3. /\ memory' = [memory EXCEPT ![f] = disk[p]]
        /\ UNCHANGED <<disk, loaded, modified>>
    BY <1>2, <2>1 DEF BringIn, history
  <2>4. /\ ~ InMemory(p)
        /\ InMemory(p)' /\ pt_get_pframe_number(p)' = f
        /\ \A w \in VPages \ {p} :
             /\ InMemory(w)' <=> InMemory(w)
             /\ InMemory(w) => pt_get_pframe_number(w)' = pt_get_pframe_number(w)
    BY <1>2, <2>1, BringInBits
  <2>5. \A w \in VPages : InMemory(w) => pt_get_pframe_number(w) # f
    BY <2>2, NoPageAssumption DEF TablesInv, TablesAgree
  <2> HIDE DEF f
  <2>6. memory'[f] = disk[p] /\ \A g \in Frames \ {f} : memory'[g] = memory[g]
    BY <2>2, <2>3 DEF TablesInv, TypeOK
  <2>7. ASSUME NEW w \in VPages
        PROVE  /\ Content(w)' = Content(w)
               /\ (InMemory(w) /\ w \notin modified => memory[pt_get_pframe_number(w)] = disk[w])'
    <3>1. CASE w = p
      BY <2>3, <2>4, <2>6, <3>1 DEF Content
    <3>2. CASE w # p
      BY <1>1, <2>3, <2>4, <2>5, <2>6, <3>2 DEF Content, CleanCopies
    <3> QED
      BY <3>1, <3>2
  <2> QED
    BY <2>3, <2>7 DEF CleanCopies
<1>3. CASE Evict
  <2>1. PICK q \in VPages : q = inverse_page_table[victim]
    BY <1>3, EvictedPage
  <2>2. /\ victim \in Frames
        /\ InMemory(q) /\ pt_get_pframe_number(q) = victim
        /\ ~ InMemory(q)'
        /\ \A w \in VPages \ {q} :
             /\ InMemory(w)' <=> InMemory(w)
             /\ InMemory(w) => pt_get_pframe_number(w)' = pt_get_pframe_number(w)
    BY <1>3, <2>1, EvictBits
  <2>3. /\ disk' = IF mbit_bitmap[victim] = 1 THEN [disk EXCEPT ![q] = memory[victim]] ELSE disk
        /\ modified \ {q} \subseteq modified'
        /\ UNCHANGED <<memory, loaded>>
    BY <1>3, <2>1 DEF Evict
  <2>4. mbit_bitmap[victim] = 1 <=> q \in modified
    BY <1>3, <2>2 DEF Evict, BitsInv, WrittenBack, MBitsTruthful, MBit
  <2>5. /\ disk'[q] = memory[victim]
        /\ \A w \in VPages \ {q} : disk'[w] = disk[w]
    BY <2>2, <2>3, <2>4 DEF CleanCopies, TablesInv, TypeOK
  <2>6. ASSUME NEW w \in VPages
        PROVE  /\ Content(w)' = Content(w)
               /\ (InMemory(w) /\ w \notin modified => memory[pt_get_pframe_number(w)] = disk[w])'
    <3>1. CASE w = q
      BY <2>2, <2>3, <2>5, <3>1 DEF Content
    <3>2. CASE w # q
      BY <2>2, <2>3, <2>5, <3>2 DEF Content, CleanCopies
    <3> QED
      BY <3>1, <3>2
  <2> QED
    BY <2>3, <2>6 DEF CleanCopies
<1> QED
  BY <1>2, <1>3

\* No other step touches the data or moves a page.
LEMMA QuietContents ==
  ASSUME TablesInv, CleanCopies, Fetch \/ Fault \/ ClockInterrupt \/ UNCHANGED vars
  PROVE  /\ CleanCopies'
         /\ UNCHANGED loaded
         /\ \A w \in VPages : Content(w)' = Content(w)
<1>1. UNCHANGED <<first_level_page_table, memory, disk, loaded, modified>>
  BY QuietStep DEF Fault, PageFault, ClockInterrupt, mmu_clear_rbits, data, history
<1>2. \A w \in VPages : /\ InMemory(w)' <=> InMemory(w)
                        /\ pt_get_pframe_number(w)' = pt_get_pframe_number(w)
  BY <1>1 DEF InMemory, page_fault, pt_get_pframe_number
<1> QED
  BY <1>1, <1>2 DEF CleanCopies, Content

\* The memory a program sees is one flat memory: page faults, evictions, the
\* TLB and the write-back of the bits are invisible to it.
THEOREM MemoryImplemented ==
  ASSUME CleanMemory, MMU = "mmu.o"
  PROVE  Spec => ImplementsMemory
<1> DEFINE contents == [p \in VPages |-> IF InMemory(p) THEN memory[pt_get_pframe_number(p)] ELSE disk[p]]
<1>1. contents = [p \in VPages |-> Content(p)]
  BY DEF Content
<1>2. Init => Flat!Init /\ CleanCopies
  <2> SUFFICES ASSUME Init
               PROVE  Flat!Init /\ CleanCopies
    OBVIOUS
  <2>1. \A v \in VPages : ~ InMemory(v)
    BY InitBits
  <2>2. disk \in [VPages -> Values] /\ loaded \in Values
    BY DEF Init
  <2> QED
    BY <2>1, <2>2 DEF Flat!Init, CleanCopies
<1>3. TablesInv /\ TablesInv' /\ BitsInv /\ CleanCopies /\ [Next]_vars =>
        [Flat!Next]_(Flat!flat) /\ CleanCopies'
  <2> SUFFICES ASSUME TablesInv, TablesInv', BitsInv, CleanCopies, [Next]_vars
               PROVE  [Flat!Next]_(Flat!flat) /\ CleanCopies'
    OBVIOUS
  <2>1. contents' = [p \in VPages |-> Content(p)']
    BY DEF Content
  <2>2. CASE Translate
    <3>1. PICK p \in VPages : p = vpage
      BY <2>2, InstructionPage DEF Translate
    <3>2. /\ CleanCopies'
          /\ \/ loaded' = Content(p) /\ \A w \in VPages : Content(w)' = Content(w)
             \/ /\ UNCHANGED loaded
                /\ \E val \in Values : \A w \in VPages : Content(w)' = IF w = p THEN val ELSE Content(w)
      BY <2>2, <3>1, AccessContents
    <3>3. CASE loaded' = Content(p) /\ \A w \in VPages : Content(w)' = Content(w)
      <4>1. contents' = contents /\ loaded' = contents[p]
        BY <1>1, <2>1, <3>3
      <4> QED
        BY <3>2, <4>1 DEF Flat!Next, Flat!Load
    <3>4. CASE /\ UNCHANGED loaded
               /\ \E val \in Values : \A w \in VPages : Content(w)' = IF w = p THEN val ELSE Content(w)
      <4>1. PICK val \in Values : \A w \in VPages : Content(w)' = IF w = p THEN val ELSE Content(w)
        BY <3>4
      <4>2. contents' = [contents EXCEPT ![p] = val]
        BY <1>1, <2>1, <4>1
      <4> QED
        BY <3>2, <3>4, <4>2 DEF Flat!Next, Flat!Store
    <3> QED
      BY <3>2, <3>3, <3>4
  <2>3. CASE ~ Translate
    <3>1. CleanCopies' /\ UNCHANGED loaded /\ \A w \in VPages : Content(w)' = Content(w)
      BY <2>3, MovedContents, QuietContents DEF Next
    <3>2. contents' = contents
      BY <1>1, <2>1, <3>1
    <3> QED
      BY <3>1, <3>2 DEF Flat!flat
  <2> QED
    BY <2>2, <2>3
<1> QED
  BY <1>2, <1>3, TablesAlways, BitsAlways, PTL DEF Spec, ImplementsMemory, Flat!Spec

-----------------------------------------------------------------------------
(* Demand paging with not recently used replacement.                       *)

FrameOf(p) == IF InMemory(p) THEN pt_get_pframe_number(p) ELSE NO_FRAME
Dirty == {p \in VPages : InMemory(p) /\ MBit(p) = 1}
Recent == {p \in VPages : InMemory(p) /\ RBit(p) = 1}
frame_of == [p \in VPages |-> FrameOf(p)]

\* The refinement mapping of Paging, by these names.
LEMMA PagingMapping ==
  /\ Paging!Init <=> frame_of = [p \in VPages |-> NO_FRAME] /\ Dirty = {} /\ Recent = {}
  /\ Paging!Resident = {p \in VPages : frame_of[p] # NO_FRAME}
  /\ Paging!FreeFrames = {f \in Frames : \A p \in VPages : frame_of[p] # f}
  /\ \A p \in VPages : Paging!Class(p) = (IF p \in Recent THEN 2 ELSE 0) + (IF p \in Dirty THEN 1 ELSE 0)
  /\ Paging!paging = <<frame_of, Dirty, Recent>>
BY DEF Paging!Init, Paging!Resident, Paging!FreeFrames, Paging!Class, Paging!paging,
       frame_of, FrameOf, Dirty, Recent, MBit, RBit

\* Resident pages are those in memory.
LEMMA ResidentPages ==
  ASSUME TablesInv
  PROVE  /\ Paging!Resident = {p \in VPages : InMemory(p)}
         /\ Paging!FreeFrames = {f \in Frames : \A p \in VPages : InMemory(p) => pt_get_pframe_number(p) # f}
<1>1. \A p \in VPages : InMemory(p) => pt_get_pframe_number(p) \in Frames
  BY ResidentPage
<1> QED
  BY <1>1, PagingMapping, NoFrameAssumption DEF frame_of, FrameOf

\* A translation is an access of the abstract pager to the same page.
LEMMA PagingTranslate ==
  ASSUME TablesInv, TablesInv', MMU = "mmu.o", Translate
  PROVE  Paging!Next
<1>1. PICK p \in VPages : p = vpage
  BY InstructionPage DEF Translate
<1>2. InMemory(p) /\ UNCHANGED first_level_page_table /\ op \in {"LOAD", "STORE"}
  BY <1>1, AccessedFrame DEF Translate, TablesInv, TypeOK, Operations
<1>3. \A w \in VPages : /\ InMemory(w)' <=> InMemory(w)
                        /\ pt_get_pframe_number(w)' = pt_get_pframe_number(w)
  BY <1>2 DEF InMemory, page_fault, pt_get_pframe_number
<1>4. \A w \in VPages : InMemory(w) =>
        /\ MBit(w)' = IF w = p /\ op = "STORE" THEN 1 ELSE MBit(w)
        /\ RBit(w)' = IF w = p THEN 1 ELSE RBit(w)
  BY <1>1, AccessBits
<1>5. frame_of' = frame_of
  BY <1>3 DEF frame_of, FrameOf
<1>6. Recent' = Recent \cup {p} /\ Dirty' = IF op = "STORE" THEN Dirty \cup {p} ELSE Dirty
  BY <1>2, <1>3, <1>4 DEF Recent, Dirty
<1>7. Paging!Access(p, op)
  BY <1>2, <1>5, <1>6, ResidentPages DEF Paging!Access, frame_of, FrameOf, Recent, Dirty, MBit, RBit
<1> QED
  BY <1>2, <1>7 DEF Paging!Next

\* BringIn is a page-in of the abstract pager, to a frame that holds no page.
LEMMA PagingBringIn ==
  ASSUME CleanMemory, TablesInv, TablesInv', BringIn
  PROVE  Paging!Next
<1> DEFINE f == mmu_get_free_page_frame
<1>1. PICK p \in VPages : p = vpage
  BY InstructionPage DEF BringIn
<1>2. f \in Frames /\ inverse_page_table[f] = NO_PAGE
  BY FreeFrame DEF BringIn, InstallPage
<1>3. /\ ~ InMemory(p)
      /\ InMemory(p)' /\ pt_get_pframe_number(p)' = f
      /\ MBit(p)' = 0 /\ RBit(p)' = 0
      /\ \A w \in VPages \ {p} :
           /\ InMemory(w)' <=> InMemory(w)
           /\ InMemory(w) => /\ pt_get_pframe_number(w)' = pt_get_pframe_number(w)
                             /\ MBit(w)' = MBit(w) /\ RBit(w)' = RBit(w)
  BY <1>1, BringInBits
<1>4. \A w \in VPages : InMemory(w) => pt_get_pframe_number(w) # f
  BY <1>2, NoPageAssumption DEF TablesInv, TablesAgree
<1> HIDE DEF f
<1>5. frame_of' = [frame_of EXCEPT ![p] = f]
  BY <1>3 DEF frame_of, FrameOf
<1>6. Recent' = Recent /\ Dirty' = Dirty
  BY <1>3 DEF Recent, Dirty
<1>7. Paging!PageIn(p, f)
  BY <1>2, <1>3, <1>4, <1>5, <1>6, ResidentPages
    DEF Paging!PageIn, frame_of, FrameOf, Recent, Dirty, MBit, RBit
<1> QED
  BY <1>2, <1>7 DEF Paging!Next

\* Evict is a page-out: the choice of victim looks at bits that were just written
\* back, so the class it sees is the class by what was really accessed.
LEMMA PagingEvict ==
  ASSUME TablesInv, TablesInv', BitsInv, Evict
  PROVE  Paging!Next
<1>1. PICK q \in VPages : q = inverse_page_table[victim]
  BY EvictedPage
<1>2. /\ victim \in Frames
      /\ InMemory(q) /\ pt_get_pframe_number(q) = victim
      /\ ~ InMemory(q)'
      /\ \A w \in VPages \ {q} :
           /\ InMemory(w)' <=> InMemory(w)
           /\ InMemory(w) => /\ pt_get_pframe_number(w)' = pt_get_pframe_number(w)
                             /\ MBit(w)' = MBit(w) /\ RBit(w)' = RBit(w)
  BY <1>1, EvictBits
<1>3. \A f \in Frames : \E p \in VPages : InMemory(p) /\ pt_get_pframe_number(p) = f
  BY DEF Evict, TablesInv, TablesAgree, TypeOK
<1>4. \A p \in VPages : InMemory(p) => Paging!Class(p) = Class(pt_get_pframe_number(p))
  <2> SUFFICES ASSUME NEW p \in VPages, InMemory(p)
               PROVE  Paging!Class(p) = Class(pt_get_pframe_number(p))
    OBVIOUS
  <2>1. /\ mbit_bitmap[pt_get_pframe_number(p)] = MBit(p)
        /\ rbit_bitmap[pt_get_pframe_number(p)] = RBit(p)
    BY DEF Evict, BitsInv, WrittenBack
  <2>2. MBit(p) \in {0, 1} /\ RBit(p) \in {0, 1}
    BY BitsAreBits DEF Bits
  <2>3. (p \in Recent <=> RBit(p) = 1) /\ (p \in Dirty <=> MBit(p) = 1)
    BY DEF Recent, Dirty
  <2> QED
    BY <2>1, <2>2, <2>3, PagingMapping DEF Class
<1>5. \A p \in VPages : InMemory(p) => Paging!Class(q) <= Paging!Class(p)
  <2>1. \A g \in Frames : Class(victim) <= Class(g)
    BY VictimIsLowest DEF Evict
  <2>2. \A p \in VPages : InMemory(p) => pt_get_pframe_number(p) \in Frames
    BY ResidentPage
  <2> QED
    BY <1>2, <1>4, <2>1, <2>2
<1>6. frame_of' = [frame_of EXCEPT ![q] = NO_FRAME]
  BY <1>2 DEF frame_of, FrameOf
<1>7. Recent' = Recent \ {q} /\ Dirty' = Dirty \ {q}
  BY <1>2 DEF Recent, Dirty
<1>8. Paging!PageOut(q)
  <2>1. q \in Paging!Resident /\ Paging!FreeFrames = {}
    BY <1>2, <1>3, ResidentPages
  <2>2. \A p \in Paging!Resident : Paging!Class(q) <= Paging!Class(p)
    BY <1>5, ResidentPages
  <2> QED
    BY <1>6, <1>7, <2>1, <2>2 DEF Paging!PageOut, frame_of, FrameOf, Recent, Dirty, MBit, RBit
<1> QED
  BY <1>8 DEF Paging!Next

\* A clock interrupt forgets the accesses, wherever they were remembered.
LEMMA PagingClock ==
  ASSUME TablesInv, TablesInv', ClockInterrupt
  PROVE  Paging!Next
<1>1. UNCHANGED first_level_page_table
  BY DEF ClockInterrupt, mmu_clear_rbits
<1>2. \A w \in VPages : /\ InMemory(w)' <=> InMemory(w)
                        /\ pt_get_pframe_number(w)' = pt_get_pframe_number(w)
  BY <1>1 DEF InMemory, page_fault, pt_get_pframe_number
<1>3. \A w \in VPages : InMemory(w) => MBit(w)' = MBit(w) /\ RBit(w)' = 0
  BY ClockBits
<1>4. frame_of' = frame_of /\ Dirty' = Dirty /\ Recent' = {}
  BY <1>2, <1>3 DEF frame_of, FrameOf, Dirty, Recent
<1>5. Paging!ClockTick
  BY <1>4 DEF Paging!ClockTick, frame_of, FrameOf, Recent, Dirty, MBit, RBit
<1> QED
  BY <1>5 DEF Paging!Next

\* A fetch or a fault, with the write-back it does, moves bits and no page:
\* the abstract pager stutters.
LEMMA PagingQuiet ==
  ASSUME TablesInv, TablesInv', Fetch \/ Fault \/ UNCHANGED vars
  PROVE  UNCHANGED Paging!paging
<1>1. \A w \in VPages :
        /\ InMemory(w)' <=> InMemory(w)
        /\ InMemory(w) => /\ pt_get_pframe_number(w)' = pt_get_pframe_number(w)
                          /\ MBit(w)' = MBit(w) /\ RBit(w)' = RBit(w)
  <2>1. CASE Fetch \/ UNCHANGED vars
    BY <2>1, QuietStep, SameBits
  <2>2. CASE Fault
    BY <2>2, FaultBits DEF Fault, PageFault, InMemory, page_fault
  <2> QED
    BY <2>1, <2>2
<1>2. frame_of' = frame_of /\ Dirty' = Dirty /\ Recent' = Recent
  BY <1>1 DEF frame_of, FrameOf, Dirty, Recent
<1> QED
  BY <1>2 DEF Paging!paging, frame_of, FrameOf, Recent, Dirty, MBit, RBit

\* The MMU and the kernel page on demand and replace by not recently used: a
\* page is evicted only if no frame is free, and no page in memory is of a
\* lower class, by the accesses the TLB and the bitmaps remember together.
THEOREM PagingImplemented ==
  ASSUME CleanMemory, MMU = "mmu.o"
  PROVE  Spec => ImplementsPaging
<1>1. Init => Paging!Init
  <2>1. Init => frame_of = [p \in VPages |-> NO_FRAME] /\ Dirty = {} /\ Recent = {}
    BY InitBits DEF frame_of, FrameOf, Dirty, Recent
  <2> QED
    BY <2>1, PagingMapping
<1>2. TablesInv /\ TablesInv' /\ BitsInv /\ [Next]_vars => [Paging!Next]_(Paging!paging)
  BY PagingTranslate, PagingBringIn, PagingEvict, PagingClock, PagingQuiet DEF Next
<1> QED
  BY <1>1, <1>2, TablesAlways, BitsAlways, PTL DEF Spec, ImplementsPaging, Paging!Spec
=============================================================================
