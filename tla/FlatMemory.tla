----------------------------- MODULE FlatMemory ------------------------------
(***************************************************************************)
(* What virtual memory promises a program: one memory, in which a LOAD     *)
(* finds what the last STORE to its page left there.  Page frames, TLB,    *)
(* disk and page faults are invisible.                                     *)
(***************************************************************************)
CONSTANTS Pages, Values

VARIABLES
  contents,   \* what each page holds
  loaded      \* what the last LOAD returned

flat == <<contents, loaded>>

Init == contents \in [Pages -> Values] /\ loaded \in Values

Load(page) == loaded' = contents[page] /\ UNCHANGED contents

Store(page, val) == contents' = [contents EXCEPT ![page] = val] /\ UNCHANGED loaded

Next == \E page \in Pages : Load(page) \/ \E val \in Values : Store(page, val)

Spec == Init /\ [][Next]_flat
=============================================================================
