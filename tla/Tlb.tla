-------------------------------- MODULE Tlb ---------------------------------
(***************************************************************************)
(* The translation lookaside buffer (tlb.c of "Project 2" and "Project 3", *)
(* the same file): a clock replacement over num_tlb_entries slots.  A      *)
(* valid entry holds the R and M bits of its page frame; the bitmaps get   *)
(* them back when the entry is replaced or all are written back.           *)
(***************************************************************************)
EXTENDS Bitmaps

CONSTANTS
  VPages,
  num_tlb_entries,
  TlbGarbage    \* what malloc may return for the entries

ASSUME TlbSizeAssumption == num_tlb_entries \in Nat \ {0}

VARIABLES
  tlb,
  next_vpage_to_check

tlbVars == <<tlb, next_vpage_to_check>>

Slots == 0 .. num_tlb_entries - 1
Operations == {"LOAD", "STORE"}
Entries == [valid : Bits, vpage : VPages, r : Bits, m : Bits, pframe : Frames]

ASSUME TlbGarbageAssumption == TlbGarbage \subseteq [Slots -> Entries]

TlbTypeOK ==
  /\ tlb \in [Slots -> Entries]
  /\ next_vpage_to_check \in Slots

\* tlb_clear_all, the second half of tlb_initialize: the rest of an entry is
\* what malloc returned.
tlb_clear_all(entries) == [i \in Slots |-> [entries[i] EXCEPT !.valid = 0]]

tlb_clear_R_bits == tlb' = [i \in Slots |-> [tlb[i] EXCEPT !.r = 0]]

\* Mutant of tlb_clear_entry: entries other than the page's are cleared.
tlb_clear_entry_others(vpage) ==
  [i \in Slots |-> IF tlb[i].vpage # vpage THEN [tlb[i] EXCEPT !.valid = 0] ELSE tlb[i]]

tlb_clear_entry(vpage) ==
  [i \in Slots |-> IF tlb[i].vpage = vpage THEN [tlb[i] EXCEPT !.valid = 0] ELSE tlb[i]]

\* Mutant of HitSlots: the valid bit is not looked at.
HitSlots_any(vpage) == {i \in Slots : tlb[i].vpage = vpage}

HitSlots(vpage) == {i \in Slots : tlb[i].vpage = vpage /\ tlb[i].valid = 1}

\* tlb_miss after tlb_lookup_vpage.
tlb_miss(vpage) == HitSlots(vpage) = {}

\* The first slot that holds the page.
HitSlot(vpage) == CHOOSE i \in HitSlots(vpage) : \A j \in HitSlots(vpage) : i <= j

\* tlb_lookup_vpage with a hit.
tlb_lookup_vpage(vpage, op) ==
  LET i == HitSlot(vpage) IN
  tlb' = [tlb EXCEPT ![i].r = 1, ![i].m = IF op = "STORE" THEN 1 ELSE @]

-----------------------------------------------------------------------------
Replaceable(i) == tlb[i].valid = 0 \/ tlb[i].r = 0

\* How far the search, which wraps around, goes before it looks at slot i.
Distance(i) == (i - next_vpage_to_check) % num_tlb_entries

\* The first replaceable slot from next_vpage_to_check on, that slot if none is.
found ==
  LET slots == {i \in Slots : Replaceable(i)} IN
  IF slots = {} THEN next_vpage_to_check
  ELSE CHOOSE i \in slots : \A j \in slots : Distance(i) <= Distance(j)

\* Mutant of WriteBackEntry: only the R bit goes back.
WriteBackEntry_R_only(entry) ==
  /\ rbit_bitmap' = IF entry.valid = 1 THEN ModifiedBit(rbit_bitmap, entry.pframe, entry.r)
                    ELSE rbit_bitmap
  /\ UNCHANGED mbit_bitmap

\* A valid entry that is replaced leaves its bits in the bitmaps.
WriteBackEntry(entry) ==
  IF entry.valid = 1
  THEN /\ mbit_bitmap' = ModifiedBit(mbit_bitmap, entry.pframe, entry.m)
       /\ rbit_bitmap' = ModifiedBit(rbit_bitmap, entry.pframe, entry.r)
  ELSE UNCHANGED <<mbit_bitmap, rbit_bitmap>>

\* Mutant of SlotAfter: the pointer does not wrap around.
SlotAfter_no_wrap(i) == i + 1

SlotAfter(i) == (i + 1) % num_tlb_entries

\* Mutant of Inserted: the valid bit is left as it was.
Inserted_valid_kept(entry, new_vpage, new_pframe, new_rbit, new_mbit) ==
  [entry EXCEPT !.vpage = new_vpage, !.r = new_rbit, !.m = new_mbit, !.pframe = new_pframe]

Inserted(entry, new_vpage, new_pframe, new_rbit, new_mbit) ==
  [valid |-> 1, vpage |-> new_vpage, r |-> new_rbit, m |-> new_mbit, pframe |-> new_pframe]

tlb_insert_vpage(new_vpage, new_pframe, new_rbit, new_mbit) ==
  /\ WriteBackEntry(tlb[found])
  /\ tlb' = [tlb EXCEPT ![found] = Inserted(@, new_vpage, new_pframe, new_rbit, new_mbit)]
  /\ next_vpage_to_check' = SlotAfter(found)

HoldingSlots(f) == {i \in Slots : tlb[i].valid = 1 /\ tlb[i].pframe = f}

\* Of the entries of a frame the last one is written back last.
LastEntry(f) == tlb[CHOOSE i \in HoldingSlots(f) : \A j \in HoldingSlots(f) : j <= i]

\* Mutant of tlb_write_back_r_m_bits: nothing is written back.
tlb_write_back_nothing == UNCHANGED <<mbit_bitmap, rbit_bitmap>>

\* The bits of every valid entry go to the bitmaps.
tlb_write_back_r_m_bits ==
  /\ mbit_bitmap' = [f \in MappedFrames |->
       IF HoldingSlots(f) = {} THEN mbit_bitmap[f] ELSE LastEntry(f).m]
  /\ rbit_bitmap' = [f \in MappedFrames |->
       IF HoldingSlots(f) = {} THEN rbit_bitmap[f] ELSE LastEntry(f).r]

\* tlb_initialize: malloc and tlb_clear_all.
TlbInit ==
  /\ tlb \in {tlb_clear_all(garbage) : garbage \in TlbGarbage}
  /\ next_vpage_to_check = 0
=============================================================================
