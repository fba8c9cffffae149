-------------------------- MODULE MCVirtualMemory ---------------------------
(* Small instances of VirtualMemory for TLC.                               *)
EXTENDS VirtualMemory

\* Two pages that share a second-level table and one that has its own.
MCThreePages == {<<0, 0>>, <<0, 1>>, <<1, 0>>}
MCFourPages == {<<0, 0>>, <<0, 1>>, <<1, 0>>, <<1, 1>>}

\* malloc returns the same for every TLB entry.
MCTlbGarbage == {[i \in Slots |-> entry] : entry \in Entries}

MCNoFreePageFrame == -1

\* Data that tell the pages apart, and the old data of one page from the new.
MCDistinctData == [p \in VPages |-> IF p = <<0, 0>> THEN {<<p, 1>>, <<p, 2>>} ELSE {<<p, 1>>}]

\* The data do not matter.
MCOneDatum == [p \in VPages |-> {"data"}]
=============================================================================
