--------------------------- MODULE ProcessManager ---------------------------
(***************************************************************************)
(* What a kernel of this simulator promises to its processes, whatever its *)
(* scheduling policy: who may run next is any process that is ready, a     *)
(* semaphore is a signed counter with a line of waiters, every millisecond *)
(* of CPU is charged to the process that had the processor, and the        *)
(* verdict that ends the simulation is read off the processes themselves.  *)
(* There is no clock, no queue order, no quantum and no counter of         *)
(* processes here.  Kernel and HonorsKernel implement it.                  *)
(***************************************************************************)
EXTENDS Integers, Sequences

CONSTANTS
  Pids, InitPid, NoPid, SemIds, InitialCount, UsedMod,
  ForkResets   \* whether a fork starts a new account for the pid

VARIABLES
  running,   \* the process that has the processor, or NoPid
  ready,     \* the processes that could run
  reading,   \* the processes that wait for a disk or keyboard read
  count,     \* of a semaphore: units left, or minus the number of waiters
  waiters,   \* of a semaphore: the waiting processes, longest wait first
  used,      \* milliseconds of CPU charged to each process
  verdict    \* "up", "finished" or "deadlocked"

managerVars == <<running, ready, reading, count, waiters, used, verdict>>

Waiting(w) == UNION {{w[s][i] : i \in 1 .. Len(w[s])} : s \in SemIds}
Live(run, rdy, rding, w) == (rdy \cup rding \cup Waiting(w) \cup {run}) \ {NoPid}

\* The processor is given to some ready process, if there is one.
Dispatch(rdy, rding, w) ==
  \/ \E p \in rdy : running' = p /\ ready' = rdy \ {p} /\ UNCHANGED verdict
  \/ /\ rdy = {}
     /\ running' = NoPid
     /\ ready' = {}
     /\ verdict' = IF rding # {} THEN verdict
                   ELSE IF Live(NoPid, {}, {}, w) = {} THEN "finished"
                   ELSE "deadlocked"

Running == verdict = "up" /\ running # NoPid

Read ==
  /\ Running
  /\ reading' = reading \cup {running}
  /\ Dispatch(ready, reading', waiters)
  /\ UNCHANGED <<count, waiters, used>>

ReadDone(p) ==
  /\ verdict = "up"
  /\ p \in reading
  /\ reading' = reading \ {p}
  /\ \/ running = NoPid /\ Dispatch({p}, reading', waiters)
     \/ running # NoPid /\ ready' = ready \cup {p} /\ UNCHANGED <<running, verdict>>
  /\ UNCHANGED <<count, waiters, used>>

Fork(p) ==
  /\ Running
  /\ p \notin Live(running, ready, reading, waiters)
  /\ ready' = ready \cup {p}
  /\ used' = IF ForkResets THEN [used EXCEPT ![p] = 0] ELSE used
  /\ UNCHANGED <<running, reading, count, waiters, verdict>>

Exit ==
  /\ Running
  /\ Dispatch(ready, reading, waiters)
  /\ UNCHANGED <<reading, count, waiters, used>>

\* V: one unit more; if the count was negative the longest waiter gets it.
Up(s) ==
  /\ Running
  /\ count' = [count EXCEPT ![s] = @ + 1]
  /\ IF count[s] < 0
     THEN /\ waiters' = [waiters EXCEPT ![s] = Tail(@)]
          /\ ready' = ready \cup {Head(waiters[s])}
     ELSE UNCHANGED <<waiters, ready>>
  /\ UNCHANGED <<running, reading, used, verdict>>

\* P: one unit less; below zero the caller waits.
Down(s) ==
  /\ Running
  /\ count' = [count EXCEPT ![s] = @ - 1]
  /\ IF count[s] <= 0
     THEN /\ waiters' = [waiters EXCEPT ![s] = Append(@, running)]
          /\ Dispatch(ready, reading, waiters')
     ELSE UNCHANGED <<waiters, running, ready, verdict>>
  /\ UNCHANGED <<reading, used>>

Preempt ==
  /\ Running
  /\ Dispatch(ready \cup {running}, reading, waiters)
  /\ UNCHANGED <<reading, count, waiters, used>>

\* One millisecond passes.
Tick ==
  /\ Running
  /\ used' = [used EXCEPT ![running] = (@ + 1) % UsedMod]
  /\ UNCHANGED <<running, ready, reading, count, waiters, verdict>>

Init ==
  /\ running = InitPid
  /\ ready = {}
  /\ reading = {}
  /\ count = [s \in SemIds |-> InitialCount]
  /\ waiters = [s \in SemIds |-> <<>>]
  /\ used = [p \in Pids |-> 0]
  /\ verdict = "up"

Next ==
  \/ Read
  \/ \E p \in Pids : ReadDone(p) \/ Fork(p)
  \/ Exit
  \/ \E s \in SemIds : Up(s) \/ Down(s)
  \/ Preempt
  \/ Tick

Spec == Init /\ [][Next]_managerVars
=============================================================================
