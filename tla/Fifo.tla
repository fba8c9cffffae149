-------------------------------- MODULE Fifo --------------------------------
(***************************************************************************)
(* First-in first-out queues, as Kernel uses them: each one the sequence   *)
(* of the pids on it.                                                      *)
(***************************************************************************)
EXTENDS Naturals, Sequences

CONSTANTS Queues, Pids

VARIABLES
  items,     \* the pids on each queue
  appended   \* how many pids were ever put on a queue

Put(q, pid) ==
  /\ items' = [items EXCEPT ![q] = Append(@, pid)]
  /\ appended' = appended + 1

Take(q) ==
  /\ items[q] # <<>>
  /\ items' = [items EXCEPT ![q] = Tail(@)]
  /\ UNCHANGED appended

\* The longest waiting pid of one queue goes to the end of another one.
Move(from, to) ==
  /\ from # to
  /\ items[from] # <<>>
  /\ items' = [items EXCEPT ![to] = Append(@, Head(items[from])),
                            ![from] = Tail(@)]
  /\ appended' = appended + 1

fifo == <<items, appended>>

Init == items = [q \in Queues |-> <<>>] /\ appended = 0

Next ==
  \/ \E q \in Queues : Take(q) \/ \E pid \in Pids : Put(q, pid)
  \/ \E from, to \in Queues : Move(from, to)

Spec == Init /\ [][Next]_fifo
=============================================================================
