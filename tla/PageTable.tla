----------------------------- MODULE PageTable ------------------------------
(***************************************************************************)
(* The two-level page table (page.c of "Project 3").  A virtual page is    *)
(* the pair of its first- and second-level index; a second-level table is  *)
(* allocated when the first page of its range is brought in, and holds     *)
(* what malloc returned.                                                   *)
(***************************************************************************)
EXTENDS Bitmaps

CONSTANTS
  PAGE,            \* which one: "page.c" or the page.o of the other builds
  PAGES_1,         \* first-level indices
  PAGES_2,         \* second-level indices
  NULL

ASSUME PageAssumption == PAGE \in {"page.c", "page.o"}

VARIABLE first_level_page_table

VPage == PAGES_1 \X PAGES_2
PT_ENTRY == [present : Bits, pframe : Frames]

ASSUME NullAssumption == NULL \notin [PAGES_2 -> PT_ENTRY]

PageTableTypeOK == first_level_page_table \in [PAGES_1 -> {NULL} \cup [PAGES_2 -> PT_ENTRY]]

pt_initialize_page_table == first_level_page_table = [i1 \in PAGES_1 |-> NULL]

\* Mutant of page_fault: a page without a second-level table alone is absent.
page_fault_no_table(vpage) == first_level_page_table[vpage[1]] = NULL

\* page_fault after pt_get_pframe_number.
page_fault(vpage) ==
  first_level_page_table[vpage[1]] # NULL =>
    first_level_page_table[vpage[1]][vpage[2]].present = 0

\* What pt_get_pframe_number returns without a page fault.
pt_get_pframe_number(vpage) == first_level_page_table[vpage[1]][vpage[2]].pframe

\* What malloc may return for a second-level table.
NewTables ==
  IF PAGE = "page.o" \/ MallocZeroes
  THEN {[i2 \in PAGES_2 |-> [present |-> 0, pframe |-> 0]]}
  ELSE [PAGES_2 -> PT_ENTRY]

Mapped(table, i2, pframe) == [table EXCEPT ![i2] = [present |-> 1, pframe |-> pframe]]

\* pt_update_pagetable of backup.c, the draft of page.c, which keeps a table it
\* allocates in a local variable only: mutant of pt_update_pagetable.
pt_update_pagetable_draft(vpage, pframe) ==
  first_level_page_table' =
    [first_level_page_table EXCEPT ![vpage[1]] =
       IF @ = NULL THEN NULL ELSE Mapped(@, vpage[2], pframe)]

pt_update_pagetable(vpage, pframe) ==
  \E table \in IF first_level_page_table[vpage[1]] = NULL THEN NewTables
               ELSE {first_level_page_table[vpage[1]]} :
    first_level_page_table' =
      [first_level_page_table EXCEPT ![vpage[1]] = Mapped(table, vpage[2], pframe)]

\* Mutant of pt_clear_page_table_entry: the present bit stays.
pt_clear_nothing(vpage) == UNCHANGED first_level_page_table

pt_clear_page_table_entry(vpage) ==
  first_level_page_table' =
    [first_level_page_table EXCEPT ![vpage[1]][vpage[2]].present = 0]
=============================================================================
