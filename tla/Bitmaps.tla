------------------------------ MODULE Bitmaps -------------------------------
(***************************************************************************)
(* The MMU's bitmaps, one bit per page frame: R (referenced), M (modified) *)
(* and occupied.  They are those of mmu.c ("Project 2 Honors"), or those   *)
(* of the mmu.o that "Project 2" and "Project 3" are linked with.          *)
(***************************************************************************)
EXTENDS Integers

CONSTANTS
  MMU,              \* which one: "mmu.c" or "mmu.o"
  num_page_frames,
  WORD_BITS,        \* bits of a bitmap word: 32
  MallocZeroes,     \* whether the memory malloc returns happens to hold zeroes
  NO_FREE_PAGEFRAME

ASSUME MmuAssumption == MMU \in {"mmu.c", "mmu.o"}
ASSUME FramesAssumption == num_page_frames \in Nat \ {0}
ASSUME WordAssumption == WORD_BITS \in Nat \ {0}
ASSUME MallocAssumption == MallocZeroes \in BOOLEAN
ASSUME NoFreeAssumption == NO_FREE_PAGEFRAME \notin Nat

VARIABLES rbit_bitmap, mbit_bitmap, pageframe_bitmap

bitmaps == <<rbit_bitmap, mbit_bitmap, pageframe_bitmap>>

Bits == {0, 1}
Frames == 0 .. num_page_frames - 1

\* mmu.c allocates num_page_frames / 32 words, rounded down; mmu.o rounds up.
bit_size ==
  IF MMU = "mmu.c" THEN num_page_frames \div WORD_BITS
  ELSE (num_page_frames + WORD_BITS - 1) \div WORD_BITS

\* The frames that have a bit.
MappedFrames == {f \in Frames : f < bit_size * WORD_BITS}

Bitmap == [MappedFrames -> Bits]

BitmapsTypeOK ==
  /\ rbit_bitmap \in Bitmap
  /\ mbit_bitmap \in Bitmap
  /\ pageframe_bitmap \in Bitmap

\* mmu_initialize.  mmu.c never clears what malloc returned: the R and M bits
\* are arbitrary, and the occupied bits are if memory is not zero by chance.
BitmapsInit ==
  LET zeroes == [f \in MappedFrames |-> 0] IN
  /\ rbit_bitmap \in IF MMU = "mmu.c" THEN Bitmap ELSE {zeroes}
  /\ mbit_bitmap \in IF MMU = "mmu.c" THEN Bitmap ELSE {zeroes}
  /\ pageframe_bitmap \in IF MMU = "mmu.c" /\ ~ MallocZeroes THEN Bitmap ELSE {zeroes}

\* Mutant of ModifiedBit: a bit is set but never cleared.
ModifiedBit_set_only(bitmap, pframe, val) ==
  [bitmap EXCEPT ![pframe] = IF val = 1 THEN 1 ELSE @]

\* mmu_modify_rbit_in_bitmap, mmu_modify_mbit_in_bitmap, mmu_modify_pageframe_bitmap
ModifiedBit(bitmap, pframe, val) == [bitmap EXCEPT ![pframe] = val]

\* mmu.c tries the bits of a word from the highest one down.
TriedBefore(f, g) ==
  IF MMU = "mmu.c"
  THEN \/ f \div WORD_BITS < g \div WORD_BITS
       \/ f \div WORD_BITS = g \div WORD_BITS /\ f > g
  ELSE f < g

FreeFrames == {f \in MappedFrames : pageframe_bitmap[f] = 0}

\* Mutant of mmu_get_free_page_frame: the first bit of a word is never tried.
mmu_get_free_page_frame_off_by_one ==
  LET tried == {f \in FreeFrames : f % WORD_BITS # 0} IN
  IF tried = {} THEN NO_FREE_PAGEFRAME
  ELSE CHOOSE f \in tried : \A g \in tried \ {f} : TriedBefore(f, g)

\* The frame mmu_get_free_page_frame returns; the caller marks it occupied.
mmu_get_free_page_frame ==
  IF FreeFrames = {} THEN NO_FREE_PAGEFRAME
  ELSE CHOOSE f \in FreeFrames : \A g \in FreeFrames \ {f} : TriedBefore(f, g)
=============================================================================
