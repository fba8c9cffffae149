------------------------------ MODULE MmuWords -------------------------------
(***************************************************************************)
(* The data of tlb.c, page.c and mmu.c as the words they are: bitmaps      *)
(* packed into words, TLB and page table entries with their fields under   *)
(* masks and unused bits that hold what malloc returned, addresses that    *)
(* are split by masks and shifts, and the loops over them.  Mmu has        *)
(* records, sets and CHOOSE in their place; the steps of this module are   *)
(* shown to be steps of Mmu.                                               *)
(*                                                                         *)
(* A word is the set of the positions of its one bits: & is \cap, | is     *)
(* \cup, & ~ is \, and a shift moves every position.  Page numbers and     *)
(* addresses are words; page frame numbers, which are also divided and     *)
(* counted, are numbers.                                                   *)
(***************************************************************************)
EXTENDS Integers, FiniteSetsExt

CONSTANTS
  ENTRY_BITS,       \* bits of a TLB word or page table entry (32)
  INDEX_1_BITS,     \* of a first-level index (11)
  INDEX_2_BITS,     \* of a second-level index (10)
  OFFSET_BITS,      \* of an offset into a page (11)
  FRAME_BITS,       \* of a page frame number (21)
  WORD_BITS,        \* of a word of a bitmap (32)
  num_page_frames,
  num_tlb_entries,
  Accessed,         \* the virtual addresses the program uses
  TlbGarbage, BitmapGarbage, TableGarbage,  \* what malloc may return
  NULL, NO_FREE_PAGEFRAME, NO_PAGE

VPAGE_BITS == INDEX_1_BITS + INDEX_2_BITS
AllOnes(bits) == 0 .. bits - 1
Word(bits) == SUBSET AllOnes(bits)

Slots == 0 .. num_tlb_entries - 1
Frames == 0 .. num_page_frames - 1
Words == 0 .. num_page_frames \div WORD_BITS - 1

Entry == [vbit_and_vpage : Word(ENTRY_BITS), mr_pframe : Word(ENTRY_BITS)]
Bitmap == [Words -> Word(WORD_BITS)]
SecondLevelTable == [Word(INDEX_2_BITS) -> Word(ENTRY_BITS)]

ASSUME WidthAssumption ==
  /\ {ENTRY_BITS, INDEX_1_BITS, INDEX_2_BITS, OFFSET_BITS, FRAME_BITS, WORD_BITS} \subseteq Nat \ {0}
  /\ VPAGE_BITS < ENTRY_BITS
  /\ FRAME_BITS + 1 < ENTRY_BITS

ASSUME SizeAssumption ==
  /\ {num_tlb_entries, num_page_frames} \subseteq Nat \ {0}
  /\ num_page_frames % WORD_BITS = 0
  /\ num_page_frames <= 2 ^ FRAME_BITS

ASSUME GarbageAssumption ==
  /\ TlbGarbage \subseteq [Slots -> Entry]
  /\ BitmapGarbage \subseteq Bitmap
  /\ TableGarbage \subseteq SecondLevelTable

ASSUME ValueAssumption ==
  /\ Accessed \subseteq Word(VPAGE_BITS + OFFSET_BITS)
  /\ NULL \notin SecondLevelTable
  /\ NULL \notin [Word(INDEX_2_BITS) -> [present : {0, 1}, pframe : Frames]]
  /\ NO_FREE_PAGEFRAME \notin Nat
  /\ \A v \in Word(VPAGE_BITS) : v # NO_PAGE

VARIABLES
  tlb, next_vpage_to_check,
  rbit_bitmap, mbit_bitmap, pageframe_bitmap,
  first_level_page_table,
  fault    \* the page of the page fault trap the kernel handles, or NO_PAGE

tlbVars == <<tlb, next_vpage_to_check>>
bitmaps == <<rbit_bitmap, mbit_bitmap, pageframe_bitmap>>
vars == <<tlbVars, bitmaps, first_level_page_table, fault>>

\* tlb.c
VBIT_MASK == {ENTRY_BITS - 1}
VPAGE_MASK == AllOnes(VPAGE_BITS)
MBIT_MASK == {ENTRY_BITS - 1}
RBIT_MASK == {ENTRY_BITS - 2}
PFRAME_MASK == AllOnes(FRAME_BITS)

\* page.c
PT_1 == INDEX_2_BITS .. VPAGE_BITS - 1
PT_2 == AllOnes(INDEX_2_BITS)
PRES_BIT == {ENTRY_BITS - 1}
PAGE_FRAME == AllOnes(FRAME_BITS)

Has(word, mask) == word \cap mask # {}
ShiftedLeft(word, n) == {b + n : b \in word}
ShiftedRight(word, n) == {b - n : b \in {c \in word : c >= n}}

\* The word of a page frame number, and the number of such a word.
Bits(pframe) == {b \in AllOnes(FRAME_BITS) : (pframe \div 2 ^ b) % 2 = 1}
Number(word) == CHOOSE pframe \in 0 .. 2 ^ FRAME_BITS - 1 : Bits(pframe) = word

-----------------------------------------------------------------------------
(* Bitmaps: frame f has bit f % WORD_BITS of word f / WORD_BITS.           *)

BitMask(pframe) == {pframe % WORD_BITS}

Modified(bitmap, pframe, val) ==
  [bitmap EXCEPT ![pframe \div WORD_BITS] =
     IF val # 0 THEN @ \cup BitMask(pframe) ELSE @ \ BitMask(pframe)]

BitValue(bitmap, pframe) ==
  IF Has(bitmap[pframe \div WORD_BITS], BitMask(pframe)) THEN 1 ELSE 0

mmu_modify_rbit_in_bitmap(bitmap, pframe, val) == Modified(bitmap, pframe, val)
mmu_modify_mbit_in_bitmap(bitmap, pframe, val) == Modified(bitmap, pframe, val)
mmu_modify_pageframe_bitmap(pframe, val) == pageframe_bitmap' = Modified(pageframe_bitmap, pframe, val)
mmu_get_rbit_in_bitmap_value(pframe) == BitValue(rbit_bitmap, pframe)
mmu_get_mbit_in_bitmap_value(pframe) == BitValue(mbit_bitmap, pframe)
mmu_get_pageframe_bitmap_value(pframe) == BitValue(pageframe_bitmap, pframe)

\* The first word that is not full, and its highest bit that is clear.
mmu_get_free_page_frame ==
  LET words == {i \in Words : pageframe_bitmap[i] # AllOnes(WORD_BITS)} IN
  IF words = {} THEN NO_FREE_PAGEFRAME
  ELSE Max({f \in {Min(words) * WORD_BITS + j : j \in 0 .. WORD_BITS - 1} :
              mmu_get_pageframe_bitmap_value(f) = 0})

-----------------------------------------------------------------------------
(* The TLB: the words vbit_and_vpage and mr_pframe of each entry.          *)

Valid(entry) == Has(entry.vbit_and_vpage, VBIT_MASK)
Holds(entry, vpage) == entry.vbit_and_vpage \cap VPAGE_MASK = vpage
PFrameOf(entry) == Number(entry.mr_pframe \cap PFRAME_MASK)
BitOf(entry, mask) == IF Has(entry.mr_pframe, mask) THEN 1 ELSE 0

\* mr_pframe |= mask or mr_pframe &= ~mask
WithMrBit(word, mask, val) == IF val # 0 THEN word \cup mask ELSE word \ mask

HitSlots(vpage) == {i \in Slots : Holds(tlb[i], vpage) /\ Valid(tlb[i])}
tlb_miss(vpage) == HitSlots(vpage) = {}

tlb_lookup_vpage(vpage, op) ==
  tlb' = [tlb EXCEPT ![Min(HitSlots(vpage))].mr_pframe =
            LET referenced == @ \cup RBIT_MASK IN
            IF op = "STORE" THEN referenced \cup MBIT_MASK ELSE referenced]

tlb_clear_all(entries) ==
  [i \in Slots |-> [entries[i] EXCEPT !.vbit_and_vpage = @ \ VBIT_MASK]]

tlb_clear_R_bits ==
  tlb' = [i \in Slots |-> [tlb[i] EXCEPT !.mr_pframe = @ \ RBIT_MASK]]

\* Mutant of tlb_clear_entry: the valid bit is compared with the page number.
tlb_clear_entry_unmasked(vpage) ==
  tlb' = [i \in Slots |-> IF tlb[i].vbit_and_vpage = vpage
                          THEN [tlb[i] EXCEPT !.vbit_and_vpage = @ \ VBIT_MASK]
                          ELSE tlb[i]]

tlb_clear_entry(vpage) ==
  tlb' = [i \in Slots |-> IF Holds(tlb[i], vpage)
                          THEN [tlb[i] EXCEPT !.vbit_and_vpage = @ \ VBIT_MASK]
                          ELSE tlb[i]]

\* The two loops of the search, and what is taken if neither finds a slot.
Replaceable(i) == ~ Valid(tlb[i]) \/ ~ Has(tlb[i].mr_pframe, RBIT_MASK)

found ==
  LET first == {i \in next_vpage_to_check .. num_tlb_entries - 1 : Replaceable(i)}
      second == {i \in 0 .. next_vpage_to_check - 1 : Replaceable(i)}
  IN IF first # {} THEN Min(first)
     ELSE IF second # {} THEN Min(second) ELSE next_vpage_to_check

\* The two bitmaps after the bits of an entry are written back to them.
WrittenBack(rm, entry) ==
  IF Valid(entry)
  THEN [m |-> mmu_modify_mbit_in_bitmap(rm.m, PFrameOf(entry), BitOf(entry, MBIT_MASK)),
        r |-> mmu_modify_rbit_in_bitmap(rm.r, PFrameOf(entry), BitOf(entry, RBIT_MASK))]
  ELSE rm

\* Mutant of Inserted: the old page number is not masked out.
Inserted_over_old(entry, vpage, pframe, rbit, mbit) ==
  [vbit_and_vpage |-> (entry.vbit_and_vpage \cup VBIT_MASK) \cup vpage,
   mr_pframe |-> WithMrBit(WithMrBit((entry.mr_pframe \ PFRAME_MASK) \cup Bits(pframe),
                                     RBIT_MASK, rbit), MBIT_MASK, mbit)]

\* A new mapping in the words of an entry; the unused bits stay.
Inserted(entry, vpage, pframe, rbit, mbit) ==
  [vbit_and_vpage |-> ((entry.vbit_and_vpage \cup VBIT_MASK) \ VPAGE_MASK) \cup vpage,
   mr_pframe |-> WithMrBit(WithMrBit((entry.mr_pframe \ PFRAME_MASK) \cup Bits(pframe),
                                     RBIT_MASK, rbit), MBIT_MASK, mbit)]

\* Mutant of SlotAfter: the pointer does not wrap around.
SlotAfter_no_wrap(i) == i + 1

SlotAfter(i) == (i + 1) % num_tlb_entries

tlb_insert_vpage(vpage, pframe, rbit, mbit) ==
  LET rm == WrittenBack([m |-> mbit_bitmap, r |-> rbit_bitmap], tlb[found]) IN
  /\ mbit_bitmap' = rm.m /\ rbit_bitmap' = rm.r
  /\ tlb' = [tlb EXCEPT ![found] = Inserted(@, vpage, pframe, rbit, mbit)]
  /\ next_vpage_to_check' = SlotAfter(found)

\* The bitmaps after the first n rounds of the loop of tlb_write_back_r_m_bits.
AfterRounds[n \in 0 .. num_tlb_entries] ==
  IF n = 0 THEN [m |-> mbit_bitmap, r |-> rbit_bitmap]
  ELSE WrittenBack(AfterRounds[n - 1], tlb[n - 1])

tlb_write_back_r_m_bits ==
  /\ mbit_bitmap' = AfterRounds[num_tlb_entries].m
  /\ rbit_bitmap' = AfterRounds[num_tlb_entries].r

-----------------------------------------------------------------------------
(* The page table.                                                         *)

Index1(vpage) == ShiftedRight(vpage \cap PT_1, INDEX_2_BITS)
Index2(vpage) == vpage \cap PT_2
Table(vpage) == first_level_page_table[Index1(vpage)]

page_fault(vpage) == Table(vpage) # NULL => ~ Has(Table(vpage)[Index2(vpage)], PRES_BIT)
pt_get_pframe_number(vpage) == Number(Table(vpage)[Index2(vpage)] \cap PAGE_FRAME)

\* A new table is entered as malloc returned it.
pt_update_pagetable(vpage, pframe) ==
  \E table \in IF Table(vpage) = NULL THEN TableGarbage ELSE {Table(vpage)} :
    first_level_page_table' = [first_level_page_table EXCEPT ![Index1(vpage)] =
                                 [table EXCEPT ![Index2(vpage)] = Bits(pframe) \cup PRES_BIT]]

pt_clear_page_table_entry(vpage) ==
  first_level_page_table' =
    [first_level_page_table EXCEPT ![Index1(vpage)][Index2(vpage)] = @ \ PRES_BIT]

\* What the code relies on, and does not see to: that malloc returns tables
\* without present bits ...
CleanTables ==
  \A garbage \in TableGarbage, i2 \in Word(INDEX_2_BITS) : ~ Has(garbage[i2], PRES_BIT)

\* ... or, for less, that the entries that look present name page frames: with
\* another number the code would index past the end of its bitmaps.
TablesInRange ==
  \A garbage \in TableGarbage, i2 \in Word(INDEX_2_BITS) :
    Has(garbage[i2], PRES_BIT) => Number(garbage[i2] \cap PAGE_FRAME) \in Frames

-----------------------------------------------------------------------------
(* Addresses.                                                              *)

OFFSET_MASK == AllOnes(OFFSET_BITS)
ADDRESS_VPAGE_MASK == AllOnes(VPAGE_BITS + OFFSET_BITS) \ OFFSET_MASK
VPageOf(vaddress) == ShiftedRight(vaddress \cap ADDRESS_VPAGE_MASK, OFFSET_BITS)

\* Mutant of PhysicalAddress: the offset runs into the frame number.
PhysicalAddress_short_shift(pframe, vaddress) ==
  ShiftedLeft(Bits(pframe), OFFSET_BITS - 1) \cup (vaddress \cap OFFSET_MASK)

PhysicalAddress(pframe, vaddress) ==
  ShiftedLeft(Bits(pframe), OFFSET_BITS) \cup (vaddress \cap OFFSET_MASK)

VPages == {VPageOf(a) : a \in Accessed}

\* What mmu_translate answers without a page fault.
Answer(vaddress) ==
  LET vpage == VPageOf(vaddress) IN
  PhysicalAddress(IF tlb_miss(vpage) THEN pt_get_pframe_number(vpage)
                  ELSE PFrameOf(tlb[Min(HitSlots(vpage))]), vaddress)

-----------------------------------------------------------------------------
(* The calls of the CPU and of the kernel.                                 *)

\* No bitmap is cleared, and of the TLB only the valid bits.
Init ==
  /\ tlb \in {tlb_clear_all(garbage) : garbage \in TlbGarbage}
  /\ rbit_bitmap \in BitmapGarbage
  /\ mbit_bitmap \in BitmapGarbage
  /\ pageframe_bitmap \in BitmapGarbage
  /\ next_vpage_to_check = 0
  /\ first_level_page_table = [i1 \in Word(INDEX_1_BITS) |-> NULL]
  /\ fault = NO_PAGE

\* mmu_translate: TLB hit, TLB miss, page fault.
Translate(vaddress, op) ==
  LET vpage == VPageOf(vaddress)
      pframe == pt_get_pframe_number(vpage)
  IN
  /\ fault = NO_PAGE
  /\ \/ /\ ~ tlb_miss(vpage)
        /\ tlb_lookup_vpage(vpage, op)
        /\ UNCHANGED <<next_vpage_to_check, rbit_bitmap, mbit_bitmap, fault>>
     \/ /\ tlb_miss(vpage) /\ ~ page_fault(vpage)
        /\ tlb_insert_vpage(vpage, pframe, mmu_get_rbit_in_bitmap_value(pframe),
                            mmu_get_mbit_in_bitmap_value(pframe))
        /\ UNCHANGED fault
     \/ /\ tlb_miss(vpage) /\ page_fault(vpage)
        /\ tlb_write_back_r_m_bits
        /\ fault' = vpage
        /\ UNCHANGED tlbVars
  /\ UNCHANGED <<pageframe_bitmap, first_level_page_table>>

mmu_clear_rbits ==
  /\ fault = NO_PAGE
  /\ rbit_bitmap' = [i \in Words |-> {}]
  /\ tlb_clear_R_bits
  /\ UNCHANGED <<next_vpage_to_check, mbit_bitmap, pageframe_bitmap, first_level_page_table, fault>>

\* The kernel brings in the page that faulted ...
InstallPage ==
  LET pframe == mmu_get_free_page_frame IN
  /\ fault # NO_PAGE
  /\ pframe # NO_FREE_PAGEFRAME
  /\ mmu_modify_pageframe_bitmap(pframe, 1)
  /\ pt_update_pagetable(fault, pframe)
  /\ tlb_insert_vpage(fault, pframe, 0, 0)
  /\ fault' = NO_PAGE

\* ... or evicts a page first, whichever it chooses.
RemovePage(page) ==
  /\ fault # NO_PAGE
  /\ mmu_get_free_page_frame = NO_FREE_PAGEFRAME
  /\ ~ page_fault(page)
  /\ mmu_modify_pageframe_bitmap(pt_get_pframe_number(page), 0)
  /\ pt_clear_page_table_entry(page)
  /\ tlb_clear_entry(page)
  /\ UNCHANGED <<next_vpage_to_check, rbit_bitmap, mbit_bitmap, fault>>

Next ==
  \/ \E vaddress \in Accessed, op \in {"LOAD", "STORE"} : Translate(vaddress, op)
  \/ mmu_clear_rbits
  \/ InstallPage
  \/ \E page \in VPages : RemovePage(page)

Spec == Init /\ [][Next]_vars

-----------------------------------------------------------------------------
\* The words of the model have the widths of the code.
TypeOK ==
  /\ tlb \in [Slots -> Entry]
  /\ next_vpage_to_check \in Slots
  /\ {rbit_bitmap, mbit_bitmap, pageframe_bitmap} \subseteq Bitmap
  /\ first_level_page_table \in [Word(INDEX_1_BITS) -> {NULL} \cup SecondLevelTable]
  /\ fault = NO_PAGE \/ fault \in VPages

PresentPages == {v \in Word(VPAGE_BITS) : ~ page_fault(v)}

\* A page in memory has a page frame that is marked occupied and that no other
\* page has (page.c:115-127 after mmu.c:325-359).
FramesDistinct ==
  /\ \A v \in PresentPages : pt_get_pframe_number(v) \in Frames
  /\ \A v \in PresentPages : mmu_get_pageframe_bitmap_value(pt_get_pframe_number(v)) = 1
  /\ \A v, w \in PresentPages : pt_get_pframe_number(v) = pt_get_pframe_number(w) => v = w

\* A valid TLB entry holds a page in memory and its page frame (tlb.c:94-103,
\* 215-219): none outlives the eviction of its page.
TlbAgrees ==
  \A i \in Slots : Valid(tlb[i]) =>
    \E v \in PresentPages : Holds(tlb[i], v) /\ PFrameOf(tlb[i]) = pt_get_pframe_number(v)

\* The page that faulted stays absent until it is brought in.
FaultAbsent == fault # NO_PAGE => page_fault(fault)

\* The data of one page are reached through one page frame, and no other page's,
\* if new tables are clean (CleanTables; page.c:121 leaves them as they are).
MappingsAgree == FramesDistinct /\ TlbAgrees /\ FaultAbsent

-----------------------------------------------------------------------------
(* The records the words stand for, bit by bit.                            *)

Bit(word, b) == IF b \in word THEN 1 ELSE 0
Pair(vpage) == <<{b \in AllOnes(INDEX_1_BITS) : b + INDEX_2_BITS \in vpage},
                 {b \in AllOnes(INDEX_2_BITS) : b \in vpage}>>

\* The frame in the low bits of a word; any frame if they are no frame's.
FrameRecord(word) ==
  LET pframe == Number({b \in AllOnes(FRAME_BITS) : b \in word}) IN
  IF pframe \in Frames THEN pframe ELSE 0

BitmapRecord(bitmap) ==
  [f \in Frames |-> Bit(bitmap[f \div WORD_BITS], f % WORD_BITS)]

EntryRecord(entry) ==
  [valid |-> Bit(entry.vbit_and_vpage, ENTRY_BITS - 1),
   vpage |-> Pair(entry.vbit_and_vpage),
   r |-> Bit(entry.mr_pframe, ENTRY_BITS - 2),
   m |-> Bit(entry.mr_pframe, ENTRY_BITS - 1),
   pframe |-> FrameRecord(entry.mr_pframe)]

TlbRecord(entries) == [i \in Slots |-> EntryRecord(entries[i])]

TableRecord(table) ==
  IF table = NULL THEN NULL
  ELSE [i2 \in Word(INDEX_2_BITS) |->
          [present |-> Bit(table[i2], ENTRY_BITS - 1), pframe |-> FrameRecord(table[i2])]]

Records == INSTANCE Mmu WITH
  MMU <- "mmu.c",
  PAGE <- "page.c",
  MallocZeroes <- FALSE,
  PAGES_1 <- Word(INDEX_1_BITS),
  PAGES_2 <- Word(INDEX_2_BITS),
  VPages <- {Pair(v) : v \in Word(VPAGE_BITS)},
  TlbGarbage <- {TlbRecord(garbage) : garbage \in TlbGarbage},
  rbit_bitmap <- BitmapRecord(rbit_bitmap),
  mbit_bitmap <- BitmapRecord(mbit_bitmap),
  pageframe_bitmap <- BitmapRecord(pageframe_bitmap),
  tlb <- TlbRecord(tlb),
  first_level_page_table <- [i1 \in Word(INDEX_1_BITS) |-> TableRecord(first_level_page_table[i1])]

RecordAccess ==
  \/ \E v \in VPages, op \in {"LOAD", "STORE"} :
       Records!TranslateByTlb(Pair(v), op) \/ Records!TranslateByPageTable(Pair(v), op)
  \/ Records!mmu_clear_rbits

RecordEviction(v) ==
  /\ ~ Records!page_fault(Pair(v))
  /\ Records!RemovePage(Pair(v), Records!pt_get_pframe_number(Pair(v)))

RecordStep ==
  \/ fault = NO_PAGE /\ fault' = NO_PAGE /\ RecordAccess
  \/ fault = NO_PAGE /\ fault' # NO_PAGE /\ Records!PageFault(Pair(fault'))
  \/ fault # NO_PAGE /\ fault' = NO_PAGE /\ Records!InstallPage(Pair(fault))
  \/ fault # NO_PAGE /\ fault' = fault /\ \E v \in VPages : RecordEviction(v)

\* Whatever the unused bits hold, the words behave like the records of Mmu: no
\* mask or shift of tlb.c, page.c and mmu.c reaches a field next to the one it
\* is meant for, and the loops find the slots and frames that Mmu describes.
ImplementsRecords == Records!mmu_initialize /\ [][RecordStep]_vars

\* Two addresses of pages in memory are translated to two physical addresses,
\* by the TLB or the page table alike, and to the same offset in a page frame
\* (mmu.c:258, 268), again if new tables are clean.
NoAliasing ==
  LET mapped == {a \in Word(VPAGE_BITS + OFFSET_BITS) : ~ page_fault(VPageOf(a))} IN
  /\ \A a, b \in mapped : Answer(a) = Answer(b) => a = b
  /\ \A a \in mapped : Answer(a) \cap OFFSET_MASK = a \cap OFFSET_MASK
=============================================================================
