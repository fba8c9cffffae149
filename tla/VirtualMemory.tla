--------------------------- MODULE VirtualMemory ----------------------------
(***************************************************************************)
(* The paging simulator of Projects 2 and 3: the MMU under a CPU that      *)
(* executes loads and stores and a kernel that handles page faults and     *)
(* clock interrupts.  CPU and kernel are binaries (cpu.o, kernel.o),       *)
(* modelled from how the headers and the sources say they call the MMU;    *)
(* the constants MMU and PAGE choose what a build is linked with:          *)
(*     "Project 2"         mmu.o and page.o under tlb.c                    *)
(*     "Project 2 Honors"  mmu.c with page.o                               *)
(*     "Project 3"         mmu.o and page.c under tlb.c                    *)
(***************************************************************************)
EXTENDS Mmu

CONSTANTS
  NO_PAGE,
  NO_FRAME,
  Stored    \* the data a program stores to each page

Values == UNION {Stored[p] : p \in VPages}

ASSUME NoPageAssumption == NO_PAGE \notin VPages
ASSUME NoFrameAssumption == NO_FRAME \notin Frames
ASSUME StoredAssumption == \A p \in VPages : Stored[p] # {}

VARIABLES
  state,               \* "ready", "translate" or "fault"
  op, vpage,           \* the instruction that is executed, if any
  inverse_page_table,  \* kernel: the page in each frame
  next_victim,         \* kernel: where the search for a victim begins
  misses,              \* tlb_miss_count since the instruction was fetched
  memory, disk,        \* the data: of each frame, and of each page on disk
  loaded,              \* the data the last LOAD found
  modified,            \* history: pages stored to since they were brought in
  referenced           \* history: pages accessed since then and the last interrupt

kernelVars == <<inverse_page_table, next_victim>>
history == <<modified, referenced>>
instruction == <<op, vpage>>
data == <<memory, disk, loaded>>
vars == <<mmuVars, state, instruction, kernelVars, misses, data, history>>

\* Bound of the model: misses are counted no further.
MaxMisses == 2

TypeOK ==
  /\ BitmapsTypeOK /\ TlbTypeOK /\ PageTableTypeOK
  /\ state \in {"ready", "translate", "fault"}
  /\ op \in Operations \cup {"none"}
  /\ vpage \in VPages \cup {NO_PAGE}
  /\ state # "ready" => op \in Operations /\ vpage \in VPages
  /\ inverse_page_table \in [Frames -> VPages \cup {NO_PAGE}]
  /\ next_victim \in Frames
  /\ misses \in 0 .. MaxMisses
  /\ memory \in [Frames -> Values]
  /\ disk \in [VPages -> Values]
  /\ loaded \in Values
  /\ modified \in SUBSET VPages
  /\ referenced \in SUBSET VPages

Init ==
  /\ mmu_initialize
  /\ state = "ready"
  /\ op = "none" /\ vpage = NO_PAGE
  /\ inverse_page_table = [f \in Frames |-> NO_PAGE]
  /\ next_victim = 0
  /\ misses = 0
  /\ \E val \in Values : memory = [f \in Frames |-> val] /\ loaded = val
  /\ disk \in {d \in [VPages -> Values] : \A p \in VPages : d[p] \in Stored[p]}
  /\ modified = {} /\ referenced = {}

-----------------------------------------------------------------------------
\* The CPU decodes the next instruction.
Fetch ==
  /\ state = "ready"
  /\ state' = "translate"
  /\ op' \in Operations
  /\ vpage' \in VPages
  /\ misses' = 0
  /\ UNCHANGED <<mmuVars, kernelVars, data, history>>

\* tlb_miss_count++
CountMiss == misses' = IF misses < MaxMisses THEN misses + 1 ELSE misses

\* The access itself, to the page frame that mmu_translate answers with.
AccessData(pframe) ==
  \/ /\ op = "LOAD"
     /\ loaded' = memory[pframe]
     /\ UNCHANGED <<memory, disk>>
  \/ /\ op = "STORE"
     /\ \E val \in Stored[vpage] : memory' = [memory EXCEPT ![pframe] = val]
     /\ UNCHANGED <<disk, loaded>>

\* mmu_translate returns an address: the access takes place.
Translate ==
  /\ state = "translate"
  /\ \/ TranslateByTlb(vpage, op) /\ UNCHANGED misses
     \/ TranslateByPageTable(vpage, op) /\ CountMiss
  /\ AccessData(TranslatedFrame(vpage))
  /\ state' = "ready"
  /\ referenced' = referenced \cup {vpage}
  /\ modified' = IF op = "STORE" THEN modified \cup {vpage} ELSE modified
  /\ op' = "none" /\ vpage' = NO_PAGE
  /\ UNCHANGED kernelVars

\* mmu_translate traps; the CPU will translate again when the trap is handled.
Fault ==
  /\ state = "translate"
  /\ PageFault(vpage)
  /\ CountMiss
  /\ state' = "fault"
  /\ UNCHANGED <<instruction, kernelVars, data, history>>

\* Page fault trap, with a free frame: the page is brought in.
BringIn ==
  /\ state = "fault"
  /\ InstallPage(vpage)
  /\ LET pframe == mmu_get_free_page_frame IN
     /\ inverse_page_table' = [inverse_page_table EXCEPT ![pframe] = vpage]
     /\ memory' = [memory EXCEPT ![pframe] = disk[vpage]]
  /\ state' = "translate"
  /\ UNCHANGED <<instruction, next_victim, misses, disk, loaded, history>>

\* Not recently used: the R bit weighs more than the M bit; among equals, the
\* first frame from next_victim on.
Class(f) == 2 * rbit_bitmap[f] + mbit_bitmap[f]
ScanDistance(f) == (f - next_victim) % num_page_frames

victim ==
  CHOOSE f \in Frames : \A g \in Frames :
    Class(f) < Class(g) \/ (Class(f) = Class(g) /\ ScanDistance(f) <= ScanDistance(g))

\* Page fault trap, without a free frame: a page is evicted, written to disk
\* if its M bit says so, and a free frame is asked for again.  (The kernel
\* gives up with an error if it finds no page in a frame.)
Evict ==
  /\ state = "fault"
  /\ \A f \in Frames : inverse_page_table[f] # NO_PAGE
  /\ LET page == inverse_page_table[victim] IN
     /\ RemovePage(page, victim)
     /\ inverse_page_table' = [inverse_page_table EXCEPT ![victim] = NO_PAGE]
     /\ disk' = IF mbit_bitmap[victim] = 1 THEN [disk EXCEPT ![page] = memory[victim]] ELSE disk
     /\ modified' = IF mbit_bitmap[victim] = 1 THEN modified \ {page} ELSE modified
     /\ referenced' = referenced \ {page}
  /\ next_victim' = (victim + 1) % num_page_frames
  /\ UNCHANGED <<state, instruction, misses, memory, loaded>>

\* Between two instructions.
ClockInterrupt ==
  /\ state = "ready"
  /\ mmu_clear_rbits
  /\ referenced' = {}
  /\ UNCHANGED <<state, instruction, kernelVars, misses, data, modified>>

Next == Fetch \/ Translate \/ Fault \/ BringIn \/ Evict \/ ClockInterrupt

Spec == Init /\ [][Next]_vars

\* The CPU goes on with an instruction it has begun.
FairSpec == Spec /\ WF_vars(Translate) /\ WF_vars(Fault) /\ WF_vars(BringIn) /\ WF_vars(Evict)

-----------------------------------------------------------------------------
Valid(i) == tlb[i].valid = 1
InMemory(v) == ~ page_fault(v)

\* The three tables that map pages to frames agree: the page table is
\* one-to-one, the kernel's inverse table inverts it, the occupied frames are
\* those that hold a page, and a valid TLB entry is what the page table says,
\* one entry per page.  Each is updated by other code at another time.
TablesAgree ==
  /\ \A v \in VPages : InMemory(v) => inverse_page_table[pt_get_pframe_number(v)] = v
  /\ \A f \in Frames : LET v == inverse_page_table[f] IN
       v # NO_PAGE => InMemory(v) /\ pt_get_pframe_number(v) = f
  /\ \A f \in MappedFrames : pageframe_bitmap[f] = 1 <=> inverse_page_table[f] # NO_PAGE
  /\ \A i \in Slots : Valid(i) =>
       InMemory(tlb[i].vpage) /\ pt_get_pframe_number(tlb[i].vpage) = tlb[i].pframe
  /\ \A i, j \in Slots : Valid(i) /\ Valid(j) /\ tlb[i].vpage = tlb[j].vpage => i = j

\* The bits of a page in memory: in its TLB entry while it has one.
CurrentBit(v, bit, bitmap) ==
  IF \E i \in Slots : Valid(i) /\ tlb[i].vpage = v
  THEN LET i == CHOOSE i \in Slots : Valid(i) /\ tlb[i].vpage = v IN
       IF bit = "m" THEN tlb[i].m ELSE tlb[i].r
  ELSE bitmap[pt_get_pframe_number(v)]

\* A page has its M bit exactly if it was stored to since it was brought in
\* (mmu.h: "1 if the i'th page frame has been written to by a STORE
\* instruction"), whether the bit is in the TLB or in the bitmap.
MBitsTruthful ==
  \A v \in VPages : InMemory(v) => (CurrentBit(v, "m", mbit_bitmap) = 1 <=> v \in modified)

\* ... and its R bit exactly if it was accessed since it was brought in and
\* since the last clock interrupt.
RBitsTruthful ==
  \A v \in VPages : InMemory(v) => (CurrentBit(v, "r", rbit_bitmap) = 1 <=> v \in referenced)

\* No bit is set without the access that it stands for, even if the bitmaps
\* start out with arbitrary bits.
BitsNotInvented ==
  \A v \in VPages : InMemory(v) =>
    /\ CurrentBit(v, "m", mbit_bitmap) = 1 => v \in modified
    /\ CurrentBit(v, "r", rbit_bitmap) = 1 => v \in referenced

\* What was stored reaches the disk before its frame is given away.
NoStoreLost == \A v \in modified : InMemory(v)

\* While the kernel looks for a victim, the bitmaps it looks at are up to date.
VictimBitsCurrent ==
  state = "fault" => \A f \in Frames : LET v == inverse_page_table[f] IN
    v # NO_PAGE => (mbit_bitmap[f] = 1 <=> v \in modified) /\ (rbit_bitmap[f] = 1 <=> v \in referenced)

\* If no free frame is returned there is none: the kernel finds a page in
\* every frame when it has to evict one (mmu.c:320-324: "It returns a free page
\* frame, if there is one").
EvictionFindsPages ==
  state = "fault" /\ mmu_get_free_page_frame = NO_FREE_PAGEFRAME =>
    \A f \in Frames : inverse_page_table[f] # NO_PAGE

\* page_fault is TRUE for every page that is not in memory (page.c:82-83: "It
\* should set page_fault to TRUE if there is a page fault").
AbsentPagesFault ==
  \A v \in VPages : ~ page_fault(v) => inverse_page_table[pt_get_pframe_number(v)] = v

\* An instruction misses the TLB at most once, although one that faults is
\* translated twice: the page it waits for comes into the TLB with the frame,
\* and nothing takes it out before the retry (mmu.c:10-12: tlb_miss_count is
\* "used to keep track of how many TLB misses there are").
OneMissPerInstruction == misses <= 1

\* The program sees one memory: the data of a page is found in its frame while
\* the page table has it and on disk otherwise, a page fault, an eviction or
\* the loss of a TLB entry changes none of it, and a LOAD finds what the last
\* STORE to its page left.
Flat == INSTANCE FlatMemory WITH
  Pages <- VPages,
  contents <- [p \in VPages |-> IF InMemory(p) THEN memory[pt_get_pframe_number(p)] ELSE disk[p]]

ImplementsMemory == Flat!Spec

\* A page is evicted only if no frame is free and no page in memory is of a
\* lower class, by the bits wherever they are kept at the time; an access, a
\* clock interrupt and a page fault change the bits of no page but theirs.
Paging == INSTANCE DemandPaging WITH
  Pages <- VPages,
  PageFrames <- Frames,
  frame_of <- [p \in VPages |-> IF InMemory(p) THEN pt_get_pframe_number(p) ELSE NO_FRAME],
  dirty <- {p \in VPages : InMemory(p) /\ CurrentBit(p, "m", mbit_bitmap) = 1},
  recent <- {p \in VPages : InMemory(p) /\ CurrentBit(p, "r", rbit_bitmap) = 1}

ImplementsPaging == Paging!Spec

\* Every access is made in the end: a page that was brought in is not lost
\* again before it is translated.
InstructionCompletes == state = "translate" ~> state = "ready"
=============================================================================
