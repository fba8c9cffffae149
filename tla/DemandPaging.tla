---------------------------- MODULE DemandPaging -----------------------------
(***************************************************************************)
(* What the paging simulator promises about page frames: a page is brought *)
(* in when it is accessed, in a free frame; it is evicted only when no     *)
(* frame is free, and only if no page in memory is of a lower class by     *)
(* what was really accessed (not recently used replacement).  Where the R  *)
(* and M bits are kept, and when they are copied, is invisible.            *)
(***************************************************************************)
EXTENDS Integers

CONSTANTS Pages, PageFrames, NO_FRAME

VARIABLES
  frame_of,   \* the frame of each page, or NO_FRAME
  dirty,      \* pages in memory that were stored to since they came in
  recent      \* those accessed since they came in and since the last clock interrupt

paging == <<frame_of, dirty, recent>>

Resident == {p \in Pages : frame_of[p] # NO_FRAME}
FreeFrames == {f \in PageFrames : \A p \in Pages : frame_of[p] # f}

\* Not recently used: R weighs more than M.
Class(p) == (IF p \in recent THEN 2 ELSE 0) + (IF p \in dirty THEN 1 ELSE 0)

Init ==
  /\ frame_of = [p \in Pages |-> NO_FRAME]
  /\ dirty = {}
  /\ recent = {}

Access(page, op) ==
  /\ page \in Resident
  /\ recent' = recent \cup {page}
  /\ dirty' = IF op = "STORE" THEN dirty \cup {page} ELSE dirty
  /\ UNCHANGED frame_of

PageIn(page, pframe) ==
  /\ page \notin Resident
  /\ pframe \in FreeFrames
  /\ frame_of' = [frame_of EXCEPT ![page] = pframe]
  /\ UNCHANGED <<dirty, recent>>

PageOut(page) ==
  /\ page \in Resident
  /\ FreeFrames = {}
  /\ \A p \in Resident : Class(page) <= Class(p)
  /\ frame_of' = [frame_of EXCEPT ![page] = NO_FRAME]
  /\ dirty' = dirty \ {page}
  /\ recent' = recent \ {page}

ClockTick == recent' = {} /\ UNCHANGED <<frame_of, dirty>>

Next ==
  \/ \E page \in Pages, op \in {"LOAD", "STORE"} : Access(page, op)
  \/ \E page \in Pages, pframe \in PageFrames : PageIn(page, pframe)
  \/ \E page \in Pages : PageOut(page)
  \/ ClockTick

Spec == Init /\ [][Next]_paging
=============================================================================
