------------------------- MODULE HonorsKernelProofs -------------------------
(***************************************************************************)
(* Theorems about HonorsKernel, for any processes, semaphores, quantum and *)
(* number of priorities: its invariants, and what it promises from one     *)
(* step to the next, the processor for the highest priority and the steps  *)
(* of ProcessManager.                                                      *)
(***************************************************************************)
EXTENDS HonorsKernel, KernelStateProofs

\* The inductive invariant.  As in Kernel, schedule() ends the simulation on
\* counters that must be exact; here it also finds a process only on the queue
\* of the priority the table has for it.
IInv ==
  /\ TypeOK
  /\ OneHome
  /\ NewProcessesAreLowest
  /\ CountersAgree
  /\ WaitersFindNoUnit
  /\ VerdictIsTrue

-----------------------------------------------------------------------------
(* Priorities and queues.                                                  *)

\* The search for a process finds the highest of the levels it looks at.
LEMMA TopLevelIsHighest ==
  ASSUME NEW levels \in SUBSET Levels, levels # {}
  PROVE  TopLevel(levels) \in levels /\ \A q \in levels : q <= TopLevel(levels)
<1> DEFINE below == {TOP_PRIORITY - q : q \in levels}
<1>1. \A q \in levels : q \in Nat /\ TOP_PRIORITY - q \in Nat
  BY TopAssumption DEF Levels
<1>2. below \in SUBSET Nat /\ below # {}
  BY <1>1
<1> HIDE DEF below
<1>3. PICK x \in below : \A y \in below : ~ (<<y, x>> \in OpToRel(<, Nat))
  BY <1>2, NatLessThanWellFounded, WFMin
<1>4. \A y \in below : x <= y
  <2> TAKE y \in below
  <2>1. <<y, x>> \notin OpToRel(<, Nat)
    BY <1>3
  <2> QED
    BY <1>2, <1>3, <2>1 DEF OpToRel
<1>5. PICK q \in levels : x = TOP_PRIORITY - q
  BY <1>3 DEF below
<1>6. \A r \in levels : r <= q
  <2> TAKE r \in levels
  <2>1. x <= TOP_PRIORITY - r
    BY <1>4 DEF below
  <2> QED
    BY <1>1, <1>5, <2>1, TopAssumption
<1> QED
  BY <1>6 DEF TopLevel

\* Blocking and preemption change the priority of one process, within bounds.
LEMMA PriorityChange ==
  ASSUME priority \in [Pids -> Levels], NEW pid \in Pids,
         NEW new,
         new = Promoted(pid) \/ new = Demoted(pid) \/ new = [priority EXCEPT ![pid] = 0]
  PROVE  /\ new \in [Pids -> Levels]
         /\ \A p \in Pids : p # pid => new[p] = priority[p]
<1>1. priority[pid] \in Levels /\ TOP_PRIORITY \in Nat
  BY TopAssumption
<1>2. 0 \in Levels
  BY <1>1 DEF Levels
<1>3. priority[pid] < TOP_PRIORITY => priority[pid] + 1 \in Levels
  BY <1>1 DEF Levels
<1>4. priority[pid] > 0 => priority[pid] - 1 \in Levels
  BY <1>1 DEF Levels
<1>5. CASE new = Promoted(pid)
  BY <1>3, <1>5 DEF Promoted
<1>6. CASE new = Demoted(pid)
  BY <1>1, <1>4, <1>6 DEF Demoted
<1>7. CASE new = [priority EXCEPT ![pid] = 0]
  BY <1>2, <1>7
<1> QED
  BY <1>5, <1>6, <1>7

\* ReadyHome, of a table, queues and priorities that need not be the kernel's:
\* a handler brings them about before it calls schedule().
ReadyAt(table, queues, prio) ==
  /\ \A p \in Pids : table[p] = "READY" <=> p \in Elements(queues[prio[p]])
  /\ \A q \in Levels : /\ NoDuplicates(queues[q])
                       /\ \A p \in Elements(queues[q]) : prio[p] = q

\* A process that is not ready, and it alone, gets another table entry and
\* another priority.
Moves(pid, table, prio, after, new) ==
  /\ pid \in Pids
  /\ table[pid] # "READY"
  /\ new \in [Pids -> Levels]
  /\ \A p \in Pids : p # pid => after[p] = table[p] /\ new[p] = prio[p]

\* Of a process that is not ready, table entry and priority can change.
LEMMA OffTheQueues ==
  ASSUME NEW table, NEW queues \in [Levels -> Seq(Pids)], NEW prio \in [Pids -> Levels],
         ReadyAt(table, queues, prio),
         NEW pid, NEW after, NEW new, Moves(pid, table, prio, after, new), after[pid] # "READY"
  PROVE  ReadyAt(after, queues, new)
<1> USE DEF Moves
<1>1. \A q \in Levels : pid \notin Elements(queues[q])
  BY DEF ReadyAt
<1>2. \A q \in Levels : \A p \in Elements(queues[q]) : p \in Pids
  <2> TAKE q \in Levels
  <2>1. queues[q] \in Seq(Pids)
    OBVIOUS
  <2> QED
    BY <2>1, ElementsArePids
<1> QED
  BY <1>1, <1>2 DEF ReadyAt

\* A process that becomes ready goes to the queue of its priority.
LEMMA OnItsQueue ==
  ASSUME NEW table, NEW queues \in [Levels -> Seq(Pids)], NEW prio \in [Pids -> Levels],
         ReadyAt(table, queues, prio),
         NEW pid, NEW after, NEW new, Moves(pid, table, prio, after, new), after[pid] = "READY"
  PROVE  /\ Queued(queues, new[pid], pid) \in [Levels -> Seq(Pids)]
         /\ Queued(queues, new[pid], pid)[new[pid]] # <<>>
         /\ ReadyAt(after, Queued(queues, new[pid], pid), new)
<1> USE DEF Moves
<1> DEFINE level == new[pid]
           result == Queued(queues, level, pid)
<1>1. \A q \in Levels : pid \notin Elements(queues[q])
  BY DEF ReadyAt
<1>2. level \in Levels
  OBVIOUS
<1>3. /\ Append(queues[level], pid) \in Seq(Pids)
      /\ Append(queues[level], pid) # <<>>
      /\ Elements(Append(queues[level], pid)) = Elements(queues[level]) \cup {pid}
      /\ NoDuplicates(Append(queues[level], pid))
  BY <1>1, <1>2, AppendElements, AppendNoDuplicates DEF ReadyAt
<1>4. /\ result[level] = Append(queues[level], pid)
      /\ \A q \in Levels : q # level => result[q] = queues[q]
      /\ result \in [Levels -> Seq(Pids)]
  BY <1>2, <1>3 DEF Queued, enqueue
<1>5. \A q \in Levels : \A p \in Elements(queues[q]) : p \in Pids
  <2> TAKE q \in Levels
  <2>1. queues[q] \in Seq(Pids)
    OBVIOUS
  <2> QED
    BY <2>1, ElementsArePids
<1> HIDE DEF result, level
<1>6. /\ Elements(result[level]) = Elements(queues[level]) \cup {pid}
      /\ \A q \in Levels : q # level => Elements(result[q]) = Elements(queues[q])
  BY <1>3, <1>4
<1>7. \A q \in Levels : /\ NoDuplicates(result[q])
                        /\ \A p \in Elements(result[q]) : new[p] = q
  <2> TAKE q \in Levels
  <2>1. CASE q = level
    BY <1>1, <1>2, <1>3, <1>4, <1>5, <1>6, <2>1 DEF ReadyAt, level
  <2>2. CASE q # level
    BY <1>1, <1>4, <1>5, <1>6, <2>2 DEF ReadyAt
  <2> QED
    BY <2>1, <2>2
<1>8. \A p \in Pids : after[p] = "READY" <=> p \in Elements(result[new[p]])
  <2> TAKE p \in Pids
  <2>1. CASE p = pid
    BY <1>2, <1>6, <2>1 DEF level
  <2>2. CASE p # pid
    <3>1. p \in Elements(result[new[p]]) <=> p \in Elements(queues[new[p]])
      <4>1. new[p] \in Levels
        OBVIOUS
      <4>2. CASE new[p] = level
        BY <1>6, <2>2, <4>2
      <4>3. CASE new[p] # level
        BY <1>6, <4>1, <4>3
      <4> QED
        BY <4>2, <4>3
    <3> QED
      BY <2>2, <3>1 DEF ReadyAt
  <2> QED
    BY <2>1, <2>2
<1>9. ReadyAt(after, result, new)
  BY <1>7, <1>8 DEF ReadyAt
<1> QED
  BY <1>3, <1>4, <1>9 DEF result, level

-----------------------------------------------------------------------------
(* schedule().                                                             *)

\* What a handler has brought about when it calls schedule().
Schedulable(table, queues, prio) ==
  /\ table \in [Pids -> ProcessStates]
  /\ queues \in [Levels -> Seq(Pids)]
  /\ prio \in [Pids -> Levels]
  /\ ReadyAt(table, queues, prio)
  /\ \A p \in Pids : table[p] # "RUNNING"

\* No queue has a process on it.
AllEmpty(queues) == \A q \in Levels : queues[q] = <<>>

\* schedule() never has a blocked process to drop: it looks at the queues as
\* they are.
LEMMA ScheduleLooks ==
  ASSUME NEW table, NEW queues, NEW prio, NEW active, NEW io,
         Schedulable(table, queues, prio), schedule(table, queues, active, io)
  PROVE  \/ /\ active = 0
            /\ outcome' = "finished"
            /\ proc_state' = table
            /\ ready_queues' = queues
            /\ UNCHANGED current_pid
         \/ /\ active # 0
            /\ AllEmpty(queues)
            /\ proc_state' = table
            /\ ready_queues' = queues
            /\ \/ io = 0 /\ outcome' = "deadlocked" /\ UNCHANGED current_pid
               \/ io # 0 /\ current_pid' = IDLE_PROCESS /\ UNCHANGED outcome
         \/ \E level \in Levels :
              /\ active # 0
              /\ queues[level] # <<>>
              /\ \A q \in Levels : queues[q] # <<>> => q <= level
              /\ current_pid' = Head(queues[level])
              /\ proc_state' = [table EXCEPT ![Head(queues[level])] = "RUNNING"]
              /\ ready_queues' = [queues EXCEPT ![level] = Tail(queues[level])]
              /\ UNCHANGED outcome
<1> DEFINE cleared == [q \in Levels |-> ClearBlocked(table, queues[q])]
           candidates == {q \in Levels : cleared[q] # <<>>}
           level == TopLevel(candidates)
           after == [q \in Levels |-> IF q > level THEN cleared[q]
                                      ELSE IF q = level THEN Tail(cleared[q])
                                      ELSE queues[q]]
<1>1. queues \in [Levels -> Seq(Pids)]
  BY DEF Schedulable
<1>2. \A q \in Levels : ClearBlocked(table, queues[q]) = queues[q]
  <2> TAKE q \in Levels
  <2>1. queues[q] \in Seq(Pids)
    BY <1>1
  <2>2. \A p \in Elements(queues[q]) : table[p] = "READY"
    BY <2>1, ElementsArePids DEF Schedulable, ReadyAt
  <2>3. \A p \in Elements(queues[q]) : table[p] # "BLOCKED"
    BY <2>2
  <2> QED
    BY <2>1, <2>3, NothingToClear
<1>3. cleared = queues
  BY <1>1, <1>2
<1>4. candidates = {q \in Levels : queues[q] # <<>>}
  BY <1>3
<1>5. \/ /\ active = 0
         /\ outcome' = "finished"
         /\ proc_state' = table
         /\ ready_queues' = queues
         /\ UNCHANGED current_pid
      \/ /\ active # 0
         /\ candidates = {}
         /\ proc_state' = table
         /\ ready_queues' = cleared
         /\ \/ io = 0 /\ outcome' = "deadlocked" /\ UNCHANGED current_pid
            \/ io # 0 /\ current_pid' = IDLE_PROCESS /\ UNCHANGED outcome
      \/ /\ active # 0
         /\ candidates # {}
         /\ current_pid' = Head(cleared[level])
         /\ proc_state' = [table EXCEPT ![Head(cleared[level])] = "RUNNING"]
         /\ ready_queues' = after
         /\ UNCHANGED outcome
  BY DEF schedule
<1>6. candidates # {} => /\ level \in Levels /\ queues[level] # <<>>
                         /\ \A q \in Levels : queues[q] # <<>> => q <= level
  <2> HIDE DEF cleared
  <2>1. candidates \in SUBSET Levels
    OBVIOUS
  <2> HIDE DEF candidates
  <2>2. candidates # {} => level \in candidates /\ \A q \in candidates : q <= level
    BY <2>1, TopLevelIsHighest
  <2> HIDE DEF level
  <2> QED
    BY <1>4, <2>2
<1>7. candidates # {} => after = [queues EXCEPT ![level] = Tail(queues[level])]
  <2> SUFFICES ASSUME candidates # {}
               PROVE  after = [queues EXCEPT ![level] = Tail(queues[level])]
    OBVIOUS
  <2>1. level \in Levels
    BY <1>6
  <2> HIDE DEF level, candidates, cleared
  <2>2. \A q \in Levels : after[q] = IF q = level THEN Tail(queues[level]) ELSE queues[q]
    <3> TAKE q \in Levels
    <3>1. cleared[q] = queues[q]
      BY <1>3
    <3>2. q \in Int /\ level \in Int
      BY <2>1 DEF Levels
    <3>3. after[q] = IF q > level THEN queues[q]
                     ELSE IF q = level THEN Tail(queues[q]) ELSE queues[q]
      BY <3>1
    <3> HIDE DEF after
    <3>4. CASE q = level
      <4>1. ~ (q > level)
        BY <3>2, <3>4
      <4> QED
        BY <3>3, <3>4, <4>1
    <3>5. CASE q # level
      BY <3>3, <3>5
    <3> QED
      BY <3>4, <3>5
  <2> QED
    BY <1>1, <2>1, <2>2
<1> HIDE DEF cleared, candidates, level, after
<1>8. CASE candidates = {}
  <2>1. AllEmpty(queues)
    BY <1>4, <1>8 DEF AllEmpty
  <2> QED
    BY <1>3, <1>5, <1>8, <2>1
<1>9. CASE candidates # {}
  BY <1>3, <1>5, <1>6, <1>7, <1>9
<1> QED
  BY <1>8, <1>9

\* schedule() ends the simulation on the counters and otherwise runs the head of
\* the highest queue; no ready process has a higher priority.
LEMMA ScheduleOutcome ==
  ASSUME NEW table, NEW queues, NEW active \in Int, NEW io \in Int,
         Schedulable(table, queues, priority'), current_pid \in Pids \cup {IDLE_PROCESS},
         outcome = "up", schedule(table, queues, active, io)
  PROVE  /\ proc_state' \in [Pids -> ProcessStates]
         /\ ready_queues' \in [Levels -> Seq(Pids)]
         /\ current_pid' \in Pids \cup {IDLE_PROCESS}
         /\ outcome' \in Outcomes
         /\ outcome' = "finished" <=> active = 0
         /\ outcome' = "deadlocked" <=> active # 0 /\ AllEmpty(queues) /\ io = 0
         /\ outcome' # "up" => proc_state' = table
         /\ \A p \in Pids : proc_state'[p] = "BLOCKED" <=> table[p] = "BLOCKED"
         /\ \A p \in Pids : proc_state'[p] = "UNINITIALIZED" <=> table[p] = "UNINITIALIZED"
         /\ outcome' = "up" /\ current_pid' = IDLE_PROCESS => AllEmpty(ready_queues') /\ io # 0
         /\ outcome' = "up" => RunningHome' /\ ReadyHome'
         /\ outcome' = "up" => \A p, r \in Pids :
              current_pid' = p /\ proc_state'[r] = "READY" => priority'[r] <= priority'[p]
<1>0. /\ table \in [Pids -> ProcessStates]
      /\ queues \in [Levels -> Seq(Pids)]
      /\ priority' \in [Pids -> Levels]
      /\ ReadyAt(table, queues, priority')
      /\ \A p \in Pids : table[p] # "RUNNING"
  BY DEF Schedulable
<1>1. CASE active = 0 /\ outcome' = "finished" /\ proc_state' = table
           /\ ready_queues' = queues /\ UNCHANGED current_pid
  BY <1>0, <1>1 DEF Outcomes
<1>2. CASE /\ active # 0
           /\ AllEmpty(queues)
           /\ proc_state' = table
           /\ ready_queues' = queues
           /\ \/ io = 0 /\ outcome' = "deadlocked" /\ UNCHANGED current_pid
              \/ io # 0 /\ current_pid' = IDLE_PROCESS /\ UNCHANGED outcome
  <2>1. \A p \in Pids : table[p] # "READY"
    <3> TAKE p \in Pids
    <3>1. queues[priority'[p]] = <<>>
      BY <1>0, <1>2 DEF AllEmpty
    <3>2. p \notin Elements(queues[priority'[p]])
      BY <3>1 DEF Elements
    <3> QED
      BY <1>0, <3>2 DEF ReadyAt
  <2>2. outcome' = "up" => RunningHome'
    BY <1>0, <1>2, IdleAssumption DEF RunningHome
  <2>3. ReadyHome'
    BY <1>0, <1>2 DEF ReadyHome, ReadyAt
  <2> QED
    BY <1>0, <1>2, <2>1, <2>2, <2>3 DEF Outcomes
<1>3. ASSUME NEW level \in Levels,
             active # 0,
             queues[level] # <<>>,
             \A q \in Levels : queues[q] # <<>> => q <= level,
             current_pid' = Head(queues[level]),
             proc_state' = [table EXCEPT ![Head(queues[level])] = "RUNNING"],
             ready_queues' = [queues EXCEPT ![level] = Tail(queues[level])],
             UNCHANGED outcome
      PROVE  /\ proc_state' \in [Pids -> ProcessStates]
             /\ ready_queues' \in [Levels -> Seq(Pids)]
             /\ current_pid' \in Pids /\ current_pid' # IDLE_PROCESS
             /\ outcome' = "up" /\ ~ AllEmpty(queues)
             /\ \A p \in Pids : proc_state'[p] = "BLOCKED" <=> table[p] = "BLOCKED"
             /\ \A p \in Pids : proc_state'[p] = "UNINITIALIZED" <=> table[p] = "UNINITIALIZED"
             /\ RunningHome' /\ ReadyHome'
             /\ \A p, r \in Pids :
                  current_pid' = p /\ proc_state'[r] = "READY" => priority'[r] <= priority'[p]
  <2> DEFINE head == Head(queues[level])
  <2>1. /\ head \in Pids
        /\ Tail(queues[level]) \in Seq(Pids)
        /\ Elements(queues[level]) = Elements(Tail(queues[level])) \cup {head}
        /\ NoDuplicates(Tail(queues[level]))
        /\ head \notin Elements(Tail(queues[level]))
    BY <1>0, <1>3, HeadTail, HeadTailNoDuplicates DEF ReadyAt
  <2>2. priority'[head] = level /\ table[head] = "READY"
    BY <1>0, <2>1 DEF ReadyAt
  <2> HIDE DEF head
  <2>3. \A p \in Pids : proc_state'[p] = IF p = head THEN "RUNNING" ELSE table[p]
    BY <1>0, <1>3, <2>1 DEF head
  <2>4. /\ ready_queues'[level] = Tail(queues[level])
        /\ \A q \in Levels : q # level => ready_queues'[q] = queues[q]
        /\ ready_queues' \in [Levels -> Seq(Pids)]
    BY <1>0, <1>3, <2>1
  <2>5. /\ Elements(ready_queues'[level]) = Elements(queues[level]) \ {head}
        /\ \A q \in Levels : q # level => Elements(ready_queues'[q]) = Elements(queues[q])
    BY <2>1, <2>4
  <2>6. proc_state' \in [Pids -> ProcessStates]
    BY <1>0, <1>3, <2>1 DEF ProcessStates, head
  <2>7. RunningHome'
    BY <1>0, <1>3, <2>3 DEF RunningHome, head
  <2>8. \A p \in Pids : proc_state'[p] = "READY" <=> p \in Elements(ready_queues'[priority'[p]])
    <3> TAKE p \in Pids
    <3>1. priority'[p] \in Levels
      BY <1>0
    <3>2. CASE p = head
      BY <2>2, <2>3, <2>5, <3>2
    <3>3. CASE p # head
      <4>1. p \in Elements(ready_queues'[priority'[p]]) <=> p \in Elements(queues[priority'[p]])
        <5>1. CASE priority'[p] = level
          BY <2>5, <3>3, <5>1
        <5>2. CASE priority'[p] # level
          BY <2>5, <3>1, <5>2
        <5> QED
          BY <5>1, <5>2
      <4> QED
        BY <1>0, <2>3, <3>3, <4>1 DEF ReadyAt
    <3> QED
      BY <3>2, <3>3
  <2>9. \A q \in Levels : /\ NoDuplicates(ready_queues'[q])
                          /\ \A p \in Elements(ready_queues'[q]) : priority'[p] = q
    <3> TAKE q \in Levels
    <3>1. CASE q = level
      BY <1>0, <2>1, <2>4, <2>5, <3>1 DEF ReadyAt
    <3>2. CASE q # level
      BY <1>0, <2>4, <2>5, <3>2 DEF ReadyAt
    <3> QED
      BY <3>1, <3>2
  <2>10. ReadyHome'
    BY <2>8, <2>9 DEF ReadyHome
  <2>11. ASSUME NEW r \in Pids, proc_state'[r] = "READY"
         PROVE  priority'[r] <= priority'[head]
    <3>1. r \in Elements(queues[priority'[r]])
      BY <1>0, <2>3, <2>11 DEF ReadyAt
    <3>2. queues[priority'[r]] \in Seq(Pids) /\ priority'[r] \in Levels
      BY <1>0
    <3>3. queues[priority'[r]] # <<>>
      BY <3>1, <3>2, NoElements
    <3> QED
      BY <1>3, <2>2, <3>2, <3>3
  <2>12. current_pid' = head /\ head # IDLE_PROCESS
    BY <1>3, <2>1, IdleAssumption DEF head
  <2> QED
    BY <1>0, <1>3, <2>1, <2>2, <2>3, <2>4, <2>6, <2>7, <2>10, <2>11, <2>12 DEF AllEmpty
<1>4. \/ /\ active = 0 /\ outcome' = "finished" /\ proc_state' = table
         /\ ready_queues' = queues /\ UNCHANGED current_pid
      \/ /\ active # 0
         /\ AllEmpty(queues)
         /\ proc_state' = table
         /\ ready_queues' = queues
         /\ \/ io = 0 /\ outcome' = "deadlocked" /\ UNCHANGED current_pid
            \/ io # 0 /\ current_pid' = IDLE_PROCESS /\ UNCHANGED outcome
      \/ \E level \in Levels :
           /\ active # 0
           /\ queues[level] # <<>>
           /\ \A q \in Levels : queues[q] # <<>> => q <= level
           /\ current_pid' = Head(queues[level])
           /\ proc_state' = [table EXCEPT ![Head(queues[level])] = "RUNNING"]
           /\ ready_queues' = [queues EXCEPT ![level] = Tail(queues[level])]
           /\ UNCHANGED outcome
  BY ScheduleLooks
<1>5. CASE \E level \in Levels :
           /\ active # 0
           /\ queues[level] # <<>>
           /\ \A q \in Levels : queues[q] # <<>> => q <= level
           /\ current_pid' = Head(queues[level])
           /\ proc_state' = [table EXCEPT ![Head(queues[level])] = "RUNNING"]
           /\ ready_queues' = [queues EXCEPT ![level] = Tail(queues[level])]
           /\ UNCHANGED outcome
  <2>1. active # 0
    BY <1>5
  <2> QED
    BY <1>3, <1>5, <2>1 DEF Outcomes
<1> QED
  BY <1>1, <1>2, <1>4, <1>5
-----------------------------------------------------------------------------
(* The counters and the verdict.                                           *)

\* A handler that calls schedule() keeps the invariant if what it did before
\* the call put every process in one place, by its priority, and counted it.
LEMMA ScheduleKeepsIInv ==
  ASSUME NEW table, NEW queues, TypeOK, outcome = "up",
         Schedulable(table, queues, priority'),
         schedule(table, queues, active_processes', io_processes'),
         HardwareTypeOK', cpu_time' \in [Pids -> 0 .. INT_MOD - 1],
         sem_value' \in [SemIds -> 0 .. MaxSemValue],
         sem_queue' \in [SemIds -> Seq(Pids)],
         current_quantum_start_time' \in Times,
         active_processes' = Cardinality({p \in Pids : table[p] # "UNINITIALIZED"}),
         io_processes' = Cardinality(io_pending'),
         \A p \in Pids : table[p] = "BLOCKED" <=> Waits(p)',
         \A p \in Pids : table[p] = "UNINITIALIZED" => priority'[p] = 0,
         WaitingApart', WaitersFindNoUnit'
  PROVE  IInv'
<1> DEFINE live == {p \in Pids : table[p] # "UNINITIALIZED"}
<1>0. IsFiniteSet(live) /\ IsFiniteSet(io_pending')
  BY PidsAssumption, FS_Subset, FiniteRequests DEF HardwareTypeOK
<1>1. active_processes' \in Int /\ io_processes' \in Int
  BY <1>0, FS_CardinalityType
<1>2. /\ proc_state' \in [Pids -> ProcessStates]
      /\ ready_queues' \in [Levels -> Seq(Pids)]
      /\ current_pid' \in Pids \cup {IDLE_PROCESS}
      /\ outcome' \in Outcomes
      /\ outcome' = "finished" <=> active_processes' = 0
      /\ outcome' = "deadlocked" <=> active_processes' # 0 /\ AllEmpty(queues) /\ io_processes' = 0
      /\ outcome' # "up" => proc_state' = table
      /\ \A p \in Pids : proc_state'[p] = "BLOCKED" <=> table[p] = "BLOCKED"
      /\ \A p \in Pids : proc_state'[p] = "UNINITIALIZED" <=> table[p] = "UNINITIALIZED"
      /\ outcome' = "up" /\ current_pid' = IDLE_PROCESS => AllEmpty(ready_queues') /\ io_processes' # 0
      /\ outcome' = "up" => RunningHome' /\ ReadyHome'
  BY <1>1, ScheduleOutcome DEF TypeOK, StateTypeOK
<1>3. TypeOK'
  BY <1>1, <1>2 DEF TypeOK, StateTypeOK, Schedulable
<1>4. OneHome'
  BY <1>2 DEF OneHome, BlockedHome, Waits
<1>5. Live' = live
  BY <1>2 DEF Live
<1>6. CountersAgree' /\ NewProcessesAreLowest'
  BY <1>2, <1>5 DEF CountersAgree, NewProcessesAreLowest
<1>8. (active_processes' = 0 <=> live = {}) /\ (io_processes' = 0 <=> io_pending' = {})
  BY <1>0, FS_EmptySet
<1>9. outcome' = "deadlocked" =>
        \A p \in Live' : \E s \in SemIds : p \in Elements(sem_queue'[s]) /\ sem_value'[s] = 0
  <2> SUFFICES ASSUME outcome' = "deadlocked", NEW p \in Live'
               PROVE  \E s \in SemIds : p \in Elements(sem_queue'[s]) /\ sem_value'[s] = 0
    OBVIOUS
  <2>1. io_pending' = {} /\ AllEmpty(queues) /\ p \in Pids
    BY <1>2, <1>5, <1>8
  <2>2. table[p] # "READY"
    <3>1. queues[priority'[p]] = <<>>
      BY <2>1 DEF Schedulable, AllEmpty
    <3> QED
      BY <2>1, <3>1 DEF Schedulable, ReadyAt, Elements
  <2>3. table[p] = "BLOCKED"
    BY <2>2, <1>5 DEF Schedulable, ProcessStates
  <2>4. PICK s \in SemIds : p \in Elements(sem_queue'[s])
    BY <2>1, <2>3, <1>5 DEF Requesting, Waits
  <2>5. sem_queue'[s] # <<>>
    BY <2>4, NoElements
  <2> QED
    BY <2>4, <2>5 DEF WaitersFindNoUnit
<1>10. VerdictIsTrue'
  BY <1>2, <1>5, <1>8, <1>9 DEF VerdictIsTrue, AllEmpty
<1> QED
  BY <1>3, <1>4, <1>6, <1>10 DEF IInv

-----------------------------------------------------------------------------
(* The handlers.                                                           *)

\* A process that is not ready becomes ready, at the end of the queue of its
\* priority: by a fork, by a unit it waited for, or by the end of its read.
LEMMA ReadyFacts ==
  ASSUME TypeOK, ReadyHome, NEW pid \in Pids, proc_state[pid] # "READY",
         NEW table, table = [proc_state EXCEPT ![pid] = "READY"],
         NEW queues, queues = Queued(ready_queues, priority[pid], pid)
  PROVE  /\ table \in [Pids -> ProcessStates]
         /\ \A p \in Pids : table[p] = IF p = pid THEN "READY" ELSE proc_state[p]
         /\ queues \in [Levels -> Seq(Pids)]
         /\ ReadyAt(table, queues, priority)
<1>1. /\ proc_state \in [Pids -> ProcessStates]
      /\ ready_queues \in [Levels -> Seq(Pids)]
      /\ priority \in [Pids -> Levels]
      /\ ReadyAt(proc_state, ready_queues, priority)
  BY DEF TypeOK, StateTypeOK, ReadyHome, ReadyAt
<1>2. \A p \in Pids : table[p] = IF p = pid THEN "READY" ELSE proc_state[p]
  BY <1>1
<1>3. table \in [Pids -> ProcessStates]
  BY <1>1 DEF ProcessStates
<1>4. Moves(pid, proc_state, priority, table, priority) /\ table[pid] = "READY"
  BY <1>1, <1>2 DEF Moves
<1>5. queues \in [Levels -> Seq(Pids)] /\ ReadyAt(table, queues, priority)
  BY <1>1, <1>4, OnItsQueue
<1> QED
  BY <1>2, <1>3, <1>5

\* The process that traps is on no queue and has no request; once it is marked
\* as waiting or gone, the rest can be scheduled.
LEMMA TrapFacts ==
  ASSUME IInv, Trap
  PROVE  /\ outcome = "up"
         /\ current_pid \in Pids
         /\ proc_state[current_pid] = "RUNNING"
         /\ ~ Waits(current_pid)
         /\ \A new \in {Promoted(current_pid), [priority EXCEPT ![current_pid] = 0]} :
              /\ \A p \in Pids : p # current_pid => new[p] = priority[p]
              /\ \A state \in {"BLOCKED", "UNINITIALIZED"} :
                   Schedulable([proc_state EXCEPT ![current_pid] = state], ready_queues, new)
<1>1. /\ outcome = "up"
      /\ current_pid \in Pids
      /\ TypeOK /\ RunningHome /\ ReadyHome /\ BlockedHome
      /\ proc_state \in [Pids -> ProcessStates]
      /\ ready_queues \in [Levels -> Seq(Pids)]
      /\ priority \in [Pids -> Levels]
  BY DEF IInv, Trap, TypeOK, StateTypeOK, OneHome
<1>2. /\ proc_state[current_pid] = "RUNNING"
      /\ \A p \in Pids : proc_state[p] = "RUNNING" => p = current_pid
  BY <1>1 DEF RunningHome
<1>3. ~ Waits(current_pid)
  BY <1>1, <1>2 DEF BlockedHome, Waits
<1>4. PICK pid \in Pids : pid = current_pid
  BY <1>1
<1>5. ASSUME NEW new \in {Promoted(pid), [priority EXCEPT ![pid] = 0]}
      PROVE  /\ \A p \in Pids : p # pid => new[p] = priority[p]
             /\ \A state \in {"BLOCKED", "UNINITIALIZED"} :
                  Schedulable([proc_state EXCEPT ![pid] = state], ready_queues, new)
  <2>1. /\ new \in [Pids -> Levels]
        /\ \A p \in Pids : p # pid => new[p] = priority[p]
    BY <1>1, PriorityChange
  <2>2. ASSUME NEW state \in {"BLOCKED", "UNINITIALIZED"},
               NEW table, table = [proc_state EXCEPT ![pid] = state]
        PROVE  Schedulable(table, ready_queues, new)
    <3>1. \A p \in Pids : table[p] = IF p = pid THEN state ELSE proc_state[p]
      BY <1>1, <2>2
    <3>2. table \in [Pids -> ProcessStates]
      BY <1>1, <2>2 DEF ProcessStates
    <3>3. Moves(pid, proc_state, priority, table, new) /\ table[pid] # "READY"
      BY <1>2, <1>4, <2>1, <3>1 DEF Moves
    <3>4. ReadyAt(proc_state, ready_queues, priority)
      BY <1>1 DEF ReadyHome, ReadyAt
    <3>5. ReadyAt(table, ready_queues, new)
      BY <1>1, <3>3, <3>4, OffTheQueues
    <3> QED
      BY <1>1, <1>2, <1>4, <2>1, <3>1, <3>2, <3>5 DEF Schedulable
  <2> QED
    BY <2>1, <2>2
<1> QED
  BY <1>1, <1>2, <1>3, <1>4, <1>5

\* The process whose quantum is over can be scheduled again, behind the others of
\* its new priority.
LEMMA PreemptFacts ==
  ASSUME IInv, outcome = "up", QuantumExpired, priority' = Demoted(current_pid)
  PROVE  /\ current_pid \in Pids
         /\ proc_state[current_pid] = "RUNNING"
         /\ \A p \in Pids : p # current_pid => priority'[p] = priority[p]
         /\ Schedulable([proc_state EXCEPT ![current_pid] = "READY"],
                        Queued(ready_queues, priority'[current_pid], current_pid), priority')
<1> DEFINE pid == current_pid
           new == priority'
           table == [proc_state EXCEPT ![pid] = "READY"]
           queues == Queued(ready_queues, new[pid], pid)
<1>1. /\ TypeOK /\ RunningHome /\ ReadyHome
      /\ proc_state \in [Pids -> ProcessStates]
      /\ ready_queues \in [Levels -> Seq(Pids)]
      /\ priority \in [Pids -> Levels]
  BY DEF IInv, OneHome, TypeOK, StateTypeOK
<1>2. pid \in Pids /\ proc_state[pid] = "RUNNING"
  BY <1>1 DEF QuantumExpired, TypeOK, StateTypeOK, RunningHome
<1>3. /\ new \in [Pids -> Levels]
      /\ \A p \in Pids : p # pid => new[p] = priority[p]
  BY <1>1, <1>2, PriorityChange
<1>4. /\ table \in [Pids -> ProcessStates]
      /\ \A p \in Pids : table[p] = IF p = pid THEN "READY" ELSE proc_state[p]
      /\ queues \in [Levels -> Seq(Pids)]
      /\ ReadyAt(table, queues, new)
  <2>1. \A p \in Pids : table[p] = IF p = pid THEN "READY" ELSE proc_state[p]
    BY <1>1
  <2>2. table \in [Pids -> ProcessStates]
    BY <1>1 DEF ProcessStates
  <2> HIDE DEF table
  <2>3. Moves(pid, proc_state, priority, table, new) /\ table[pid] = "READY"
    BY <1>2, <1>3, <2>1 DEF Moves
  <2>4. ReadyAt(proc_state, ready_queues, priority)
    BY <1>1 DEF ReadyHome, ReadyAt
  <2>5. queues \in [Levels -> Seq(Pids)] /\ ReadyAt(table, queues, new)
    BY <1>1, <2>3, <2>4, OnItsQueue
  <2> QED
    BY <2>1, <2>2, <2>5
<1>5. Schedulable(table, queues, new)
  <2> HIDE DEF table, queues
  <2> QED
    BY <1>1, <1>2, <1>3, <1>4 DEF Schedulable, RunningHome
<1> QED
  BY <1>2, <1>3, <1>4, <1>5

\* An idle processor can be given to the process whose read is done.
LEMMA AwakenFacts ==
  ASSUME IInv, outcome = "up", NEW pid \in Pids, NEW kind \in IOKinds, IOComplete(pid, kind),
         NEW table, table = [proc_state EXCEPT ![pid] = "READY"],
         NEW queues, queues = Queued(ready_queues, priority[pid], pid)
  PROVE  /\ pid \in Requesting
         /\ proc_state[pid] = "BLOCKED"
         /\ table \in [Pids -> ProcessStates]
         /\ \A p \in Pids : table[p] = IF p = pid THEN "READY" ELSE proc_state[p]
         /\ queues \in [Levels -> Seq(Pids)]
         /\ ReadyAt(table, queues, priority)
         /\ current_pid = IDLE_PROCESS => Schedulable(table, queues, priority)
<1>1. TypeOK /\ RunningHome /\ ReadyHome /\ BlockedHome
  BY DEF IInv, OneHome
<1>2. pid \in Requesting
  <2>1. <<pid, kind>>[1] = pid
    OBVIOUS
  <2> QED
    BY <2>1 DEF IOComplete, Requesting
<1>3. proc_state[pid] = "BLOCKED"
  BY <1>1, <1>2 DEF BlockedHome
<1>4. /\ table \in [Pids -> ProcessStates]
      /\ \A p \in Pids : table[p] = IF p = pid THEN "READY" ELSE proc_state[p]
      /\ queues \in [Levels -> Seq(Pids)]
      /\ ReadyAt(table, queues, priority)
  BY <1>1, <1>3, ReadyFacts DEF TypeOK
<1>5. current_pid = IDLE_PROCESS => Schedulable(table, queues, priority)
  BY <1>1, <1>4, IdleAssumption DEF Schedulable, RunningHome, TypeOK
<1> QED
  BY <1>2, <1>3, <1>4, <1>5

\* DISK_READ and KEYBOARD_READ.
LEMMA BlockForIOStep ==
  ASSUME IInv, Trap, NEW kind \in IOKinds, BlockForIO(kind)
  PROVE  IInv'
<1> DEFINE table == [proc_state EXCEPT ![current_pid] = "BLOCKED"]
<1>1. /\ outcome = "up"
      /\ current_pid \in Pids
      /\ proc_state[current_pid] = "RUNNING"
      /\ ~ Waits(current_pid)
      /\ Schedulable(table, ready_queues, priority')
      /\ \A p \in Pids : p # current_pid => priority'[p] = priority[p]
  BY TrapFacts DEF BlockForIO
<1>2. /\ TypeOK /\ BlockedHome /\ WaitingApart /\ CountersAgree /\ WaitersFindNoUnit
      /\ NewProcessesAreLowest
  BY <1>1 DEF IInv, OneHome
<1>3. \A p \in Pids : table[p] = IF p = current_pid THEN "BLOCKED" ELSE proc_state[p]
  BY <1>1, <1>2 DEF TypeOK, StateTypeOK
<1>4. /\ io_pending' \in SUBSET (Pids \X IOKinds)
      /\ Cardinality(io_pending') = Cardinality(io_pending) + 1
      /\ WaitingApart'
      /\ \A p \in Pids : Waits(p)' <=> Waits(p) \/ p = current_pid
  BY <1>1, <1>2, RequestWaits DEF BlockForIO, TypeOK
<1>5. /\ schedule(table, ready_queues, active_processes', io_processes')
      /\ HardwareTypeOK'
      /\ cpu_time' \in [Pids -> 0 .. INT_MOD - 1]
      /\ sem_value' \in [SemIds -> 0 .. MaxSemValue]
      /\ sem_queue' \in [SemIds -> Seq(Pids)]
      /\ current_quantum_start_time' \in Times
  BY <1>1, <1>2, <1>4, ChargedTimeType DEF BlockForIO, TypeOK, StateTypeOK, HardwareTypeOK
<1>6. active_processes' = Cardinality({p \in Pids : table[p] # "UNINITIALIZED"})
  <2>1. {p \in Pids : table[p] # "UNINITIALIZED"} = Live
    BY <1>1, <1>3 DEF Live
  <2> QED
    BY <2>1, <1>1, <1>2 DEF BlockForIO, CountersAgree
<1>7. io_processes' = Cardinality(io_pending')
  BY <1>1, <1>2, <1>4 DEF BlockForIO, CountersAgree
<1>8. \A p \in Pids : table[p] = "BLOCKED" <=> Waits(p)'
  BY <1>2, <1>3, <1>4 DEF BlockedHome, Waits
<1>9. WaitersFindNoUnit'
  BY <1>2 DEF BlockForIO, WaitersFindNoUnit
<1>10. \A p \in Pids : table[p] = "UNINITIALIZED" => priority'[p] = 0
  BY <1>1, <1>2, <1>3 DEF NewProcessesAreLowest
<1> HIDE DEF table
<1> QED
  BY <1>1, <1>2, <1>4, <1>5, <1>6, <1>7, <1>8, <1>9, <1>10, ScheduleKeepsIInv

\* FORK_PROGRAM.
LEMMA ForkStep ==
  ASSUME IInv, NEW pid \in Pids, handle_fork(pid)
  PROVE  IInv'
<1>1. /\ outcome = "up" /\ outcome' = "up"
      /\ current_pid \in Pids /\ current_pid' = current_pid
      /\ proc_state[current_pid] = "RUNNING"
  BY TrapFacts DEF handle_fork
<1>2. /\ TypeOK /\ RunningHome /\ ReadyHome /\ BlockedHome /\ WaitingApart
      /\ CountersAgree /\ WaitersFindNoUnit /\ NewProcessesAreLowest
  BY <1>1 DEF IInv, OneHome
<1>4. proc_state[pid] = "UNINITIALIZED" /\ priority' = priority
  BY DEF handle_fork
<1>5. /\ proc_state' \in [Pids -> ProcessStates]
      /\ \A p \in Pids : proc_state'[p] = IF p = pid THEN "READY" ELSE proc_state[p]
      /\ ready_queues' \in [Levels -> Seq(Pids)]
      /\ ReadyAt(proc_state', ready_queues', priority)
  BY <1>2, <1>4, ReadyFacts DEF handle_fork
<1>6. TypeOK'
  BY <1>2, <1>5 DEF handle_fork, TypeOK, StateTypeOK, HardwareTypeOK, hardwareVars
<1>7. OneHome'
  <2>1. RunningHome'
    BY <1>1, <1>2, <1>4, <1>5 DEF RunningHome
  <2>2. ReadyHome'
    BY <1>4, <1>5 DEF ReadyHome, ReadyAt
  <2>3. BlockedHome'
    BY <1>2, <1>4, <1>5 DEF BlockedHome, Requesting, handle_fork, hardwareVars
  <2>4. WaitingApart'
    BY <1>2 DEF WaitingApart, Requesting, handle_fork, hardwareVars
  <2> QED
    BY <2>1, <2>2, <2>3, <2>4 DEF OneHome
<1>8. CountersAgree'
  <2>1. Live' = Live \cup {pid} /\ pid \notin Live
    BY <1>4, <1>5 DEF Live
  <2>2. IsFiniteSet(Live)
    BY PidsAssumption, FS_Subset DEF Live
  <2>3. Cardinality(Live') = Cardinality(Live) + 1
    BY <2>1, <2>2, FS_AddElement
  <2>4. /\ active_processes' = active_processes + 1
        /\ io_processes' = io_processes
        /\ io_pending' = io_pending
    BY DEF handle_fork, hardwareVars
  <2> QED
    BY <1>1, <1>2, <2>3, <2>4 DEF CountersAgree
<1>9. WaitersFindNoUnit' /\ NewProcessesAreLowest'
  BY <1>2, <1>4, <1>5 DEF WaitersFindNoUnit, NewProcessesAreLowest, handle_fork
<1>10. VerdictIsTrue'
  BY <1>1, IdleAssumption DEF VerdictIsTrue
<1> QED
  BY <1>6, <1>7, <1>8, <1>9, <1>10 DEF IInv

\* END_PROGRAM.
LEMMA KillStep ==
  ASSUME IInv, handle_kill
  PROVE  IInv'
<1> DEFINE table == [proc_state EXCEPT ![current_pid] = "UNINITIALIZED"]
<1>1. /\ outcome = "up"
      /\ current_pid \in Pids
      /\ proc_state[current_pid] = "RUNNING"
      /\ ~ Waits(current_pid)
      /\ Schedulable(table, ready_queues, priority')
      /\ \A p \in Pids : p # current_pid => priority'[p] = priority[p]
  BY TrapFacts DEF handle_kill
<1>2. /\ TypeOK /\ BlockedHome /\ WaitingApart /\ CountersAgree /\ WaitersFindNoUnit
      /\ NewProcessesAreLowest
  BY <1>1 DEF IInv, OneHome
<1>3. \A p \in Pids : table[p] = IF p = current_pid THEN "UNINITIALIZED" ELSE proc_state[p]
  BY <1>1, <1>2 DEF TypeOK, StateTypeOK
<1>4. /\ schedule(table, ready_queues, active_processes', io_processes')
      /\ HardwareTypeOK'
      /\ cpu_time' \in [Pids -> 0 .. INT_MOD - 1]
      /\ sem_value' \in [SemIds -> 0 .. MaxSemValue]
      /\ sem_queue' \in [SemIds -> Seq(Pids)]
      /\ current_quantum_start_time' \in Times
  BY <1>1, <1>2, ChargedTimeType DEF handle_kill, hardwareVars, TypeOK, StateTypeOK, HardwareTypeOK
<1>5. active_processes' = Cardinality({p \in Pids : table[p] # "UNINITIALIZED"})
  <2>1. {p \in Pids : table[p] # "UNINITIALIZED"} = Live \ {current_pid}
    BY <1>3 DEF Live
  <2>2. current_pid \in Live
    BY <1>1 DEF Live
  <2>3. IsFiniteSet(Live)
    BY PidsAssumption, FS_Subset DEF Live
  <2> QED
    BY <2>1, <2>2, <2>3, <1>1, <1>2, FS_RemoveElement DEF handle_kill, CountersAgree
<1>6. io_processes' = Cardinality(io_pending')
  BY <1>1, <1>2 DEF handle_kill, hardwareVars, CountersAgree
<1>7. \A p \in Pids : table[p] = "BLOCKED" <=> Waits(p)'
  BY <1>1, <1>2, <1>3 DEF handle_kill, hardwareVars, BlockedHome, Requesting, Waits
<1>8. WaitingApart' /\ WaitersFindNoUnit'
  BY <1>2 DEF handle_kill, hardwareVars, WaitingApart, WaitersFindNoUnit, Requesting
<1>9. \A p \in Pids : table[p] = "UNINITIALIZED" => priority'[p] = 0
  <2>1. priority'[current_pid] = 0
    BY <1>1, <1>2 DEF handle_kill, TypeOK
  <2> QED
    BY <1>1, <1>2, <1>3, <2>1 DEF NewProcessesAreLowest
<1> HIDE DEF table
<1> QED
  BY <1>1, <1>2, <1>4, <1>5, <1>6, <1>7, <1>8, <1>9, ScheduleKeepsIInv

\* SEMAPHORE_OP, UP with a waiter.
LEMMA WakeStep ==
  ASSUME IInv, NEW s \in SemIds, semaphore_wake(s)
  PROVE  IInv'
<1> DEFINE pid == Head(sem_queue[s])
<1>1. /\ outcome = "up" /\ outcome' = "up"
      /\ current_pid \in Pids /\ current_pid' = current_pid
      /\ proc_state[current_pid] = "RUNNING"
  BY TrapFacts DEF semaphore_wake
<1>2. /\ TypeOK /\ RunningHome /\ ReadyHome /\ BlockedHome /\ WaitingApart
      /\ CountersAgree /\ WaitersFindNoUnit /\ NewProcessesAreLowest
  BY <1>1 DEF IInv, OneHome
<1>3. /\ pid \in Pids
      /\ sem_queue' \in [SemIds -> Seq(Pids)]
      /\ \A t \in SemIds : sem_queue'[t] = IF t = s THEN Tail(sem_queue[s]) ELSE sem_queue[t]
      /\ Waits(pid)
      /\ WaitingApart'
      /\ \A p \in Pids : Waits(p)' <=> Waits(p) /\ p # pid
  BY <1>2, DequeueWaits DEF semaphore_wake, hardwareVars, TypeOK
<1>4. proc_state[pid] = "BLOCKED" /\ priority' = priority
  BY <1>2, <1>3 DEF semaphore_wake, BlockedHome, Waits
<1>5. /\ proc_state' = [proc_state EXCEPT ![pid] = "READY"]
      /\ ready_queues' = Queued(ready_queues, priority[pid], pid)
  BY DEF semaphore_wake
<1> HIDE DEF pid
<1>6. PICK p \in Pids : p = pid
  BY <1>3
<1>7. /\ proc_state' \in [Pids -> ProcessStates]
      /\ \A q \in Pids : proc_state'[q] = IF q = p THEN "READY" ELSE proc_state[q]
      /\ ready_queues' \in [Levels -> Seq(Pids)]
      /\ ReadyAt(proc_state', ready_queues', priority)
  <2>1. proc_state[p] # "READY"
    BY <1>4, <1>6
  <2>2. /\ proc_state' = [proc_state EXCEPT ![p] = "READY"]
        /\ ready_queues' = Queued(ready_queues, priority[p], p)
    BY <1>5, <1>6
  <2> QED
    BY <1>2, <2>1, <2>2, ReadyFacts
<1>8. TypeOK'
  BY <1>2, <1>3, <1>7 DEF semaphore_wake, TypeOK, StateTypeOK, HardwareTypeOK, hardwareVars
<1>9. io_pending' = io_pending
  BY DEF semaphore_wake, hardwareVars
<1>10. OneHome'
  <2>1. RunningHome'
    BY <1>1, <1>2, <1>3, <1>4, <1>6, <1>7 DEF RunningHome
  <2>2. ReadyHome'
    BY <1>4, <1>7 DEF ReadyHome, ReadyAt
  <2>3. BlockedHome'
    BY <1>2, <1>3, <1>6, <1>7 DEF BlockedHome, Waits
  <2> QED
    BY <1>3, <2>1, <2>2, <2>3 DEF OneHome
<1>11. CountersAgree'
  <2>1. Live' = Live
    BY <1>4, <1>6, <1>7 DEF Live
  <2> QED
    BY <1>1, <1>2, <1>9, <2>1 DEF CountersAgree, semaphore_wake
<1>12. WaitersFindNoUnit' /\ NewProcessesAreLowest'
  BY <1>2, <1>3, <1>4, <1>6, <1>7 DEF WaitersFindNoUnit, NewProcessesAreLowest, semaphore_wake
<1>13. VerdictIsTrue'
  BY <1>1, IdleAssumption DEF VerdictIsTrue
<1> QED
  BY <1>8, <1>10, <1>11, <1>12, <1>13 DEF IInv

\* SEMAPHORE_OP that changes the value: UP with nobody waiting, DOWN with a unit.
LEMMA ValueStep ==
  ASSUME IInv, NEW s \in SemIds, semaphore_up(s) \/ semaphore_down(s)
  PROVE  IInv'
<1>1. outcome = "up" /\ current_pid \in Pids
  BY TrapFacts DEF semaphore_up, semaphore_down
<1>2. /\ TypeOK /\ RunningHome /\ ReadyHome /\ BlockedHome /\ WaitingApart
      /\ CountersAgree /\ WaitersFindNoUnit /\ NewProcessesAreLowest
  BY <1>1 DEF IInv, OneHome
<1>3. UNCHANGED <<hardwareVars, current_pid, proc_state, cpu_time, ready_queues, priority, sem_queue,
                  current_quantum_start_time, active_processes, io_processes, outcome>>
  BY DEF semaphore_up, semaphore_down, ChangeValue
<1>4. /\ sem_value' \in [SemIds -> 0 .. MaxSemValue]
      /\ sem_queue[s] = <<>>
      /\ \A t \in SemIds : t # s => sem_value'[t] = sem_value[t]
  <2>1. sem_queue[s] = <<>>
    BY <1>2 DEF semaphore_up, semaphore_down, WaitersFindNoUnit
  <2>2. sem_value \in [SemIds -> 0 .. MaxSemValue] /\ MaxSemValue \in Nat
    BY <1>2, SemaphoreAssumption DEF TypeOK, StateTypeOK
  <2>3. CASE semaphore_up(s)
    BY <2>1, <2>2, <2>3 DEF semaphore_up, ChangeValue
  <2>4. CASE semaphore_down(s)
    BY <2>1, <2>2, <2>4 DEF semaphore_down, ChangeValue
  <2> QED
    BY <2>3, <2>4
<1>5. TypeOK'
  BY <1>2, <1>3, <1>4 DEF TypeOK, StateTypeOK, HardwareTypeOK, hardwareVars
<1>6. OneHome' /\ CountersAgree' /\ NewProcessesAreLowest'
  BY <1>2, <1>3 DEF OneHome, RunningHome, ReadyHome, BlockedHome, WaitingApart,
                    CountersAgree, NewProcessesAreLowest, Live, Requesting, hardwareVars
<1>7. WaitersFindNoUnit'
  BY <1>2, <1>3, <1>4 DEF WaitersFindNoUnit
<1>8. VerdictIsTrue'
  BY <1>1, <1>3, IdleAssumption DEF VerdictIsTrue
<1> QED
  BY <1>5, <1>6, <1>7, <1>8 DEF IInv

\* SEMAPHORE_OP, DOWN without a unit.
LEMMA WaitStep ==
  ASSUME IInv, NEW s \in SemIds, semaphore_wait(s)
  PROVE  IInv'
<1> DEFINE table == [proc_state EXCEPT ![current_pid] = "BLOCKED"]
<1>1. /\ outcome = "up"
      /\ current_pid \in Pids
      /\ proc_state[current_pid] = "RUNNING"
      /\ ~ Waits(current_pid)
      /\ Schedulable(table, ready_queues, priority')
      /\ \A p \in Pids : p # current_pid => priority'[p] = priority[p]
  BY TrapFacts DEF semaphore_wait
<1>2. /\ TypeOK /\ BlockedHome /\ WaitingApart /\ CountersAgree /\ WaitersFindNoUnit
      /\ NewProcessesAreLowest
  BY <1>1 DEF IInv, OneHome
<1>3. \A p \in Pids : table[p] = IF p = current_pid THEN "BLOCKED" ELSE proc_state[p]
  BY <1>1, <1>2 DEF TypeOK, StateTypeOK
<1>4. /\ sem_queue' \in [SemIds -> Seq(Pids)]
      /\ \A t \in SemIds : sem_queue'[t] = IF t = s THEN Append(sem_queue[s], current_pid)
                                           ELSE sem_queue[t]
      /\ WaitingApart'
      /\ \A p \in Pids : Waits(p)' <=> Waits(p) \/ p = current_pid
  BY <1>1, <1>2, EnqueueWaits DEF semaphore_wait, enqueue, hardwareVars, TypeOK
<1>5. \A p \in Pids : table[p] = "BLOCKED" <=> Waits(p)'
  BY <1>2, <1>3, <1>4 DEF BlockedHome, Waits
<1>6. /\ schedule(table, ready_queues, active_processes', io_processes')
      /\ HardwareTypeOK'
      /\ cpu_time' \in [Pids -> 0 .. INT_MOD - 1]
      /\ sem_value' \in [SemIds -> 0 .. MaxSemValue]
      /\ sem_queue' \in [SemIds -> Seq(Pids)]
      /\ current_quantum_start_time' \in Times
  BY <1>1, <1>2, <1>4, ChargedTimeType
     DEF semaphore_wait, enqueue, hardwareVars, TypeOK, StateTypeOK, HardwareTypeOK
<1>7. active_processes' = Cardinality({p \in Pids : table[p] # "UNINITIALIZED"})
  <2>1. {p \in Pids : table[p] # "UNINITIALIZED"} = Live
    BY <1>1, <1>3 DEF Live
  <2> QED
    BY <2>1, <1>1, <1>2 DEF semaphore_wait, CountersAgree
<1>8. io_processes' = Cardinality(io_pending')
  BY <1>1, <1>2 DEF semaphore_wait, hardwareVars, CountersAgree
<1>9. WaitersFindNoUnit'
  BY <1>2, <1>4 DEF semaphore_wait, WaitersFindNoUnit
<1>10. \A p \in Pids : table[p] = "UNINITIALIZED" => priority'[p] = 0
  BY <1>1, <1>2, <1>3 DEF NewProcessesAreLowest
<1> HIDE DEF table
<1> QED
  BY <1>1, <1>2, <1>4, <1>5, <1>6, <1>7, <1>8, <1>9, <1>10, ScheduleKeepsIInv

\* CLOCK_INTERRUPT.
LEMMA ClockInterruptStep ==
  ASSUME IInv, handle_clock_interrupt
  PROVE  IInv'
<1> DEFINE table == [proc_state EXCEPT ![current_pid] = "READY"]
           queues == Queued(ready_queues, priority'[current_pid], current_pid)
<1>1. /\ outcome = "up"
      /\ TypeOK /\ RunningHome /\ ReadyHome /\ BlockedHome /\ WaitingApart
      /\ CountersAgree /\ WaitersFindNoUnit /\ VerdictIsTrue /\ NewProcessesAreLowest
  BY DEF IInv, OneHome, handle_clock_interrupt
<1>2. HardwareTypeOK' /\ UNCHANGED <<clock, io_pending>>
  BY <1>1 DEF handle_clock_interrupt, RaiseTimer, TypeOK, StateTypeOK, HardwareTypeOK, Phases
<1>3. CASE UNCHANGED kernelVars
  BY <1>1, <1>2, <1>3 DEF kernelVars, IInv, TypeOK, StateTypeOK, OneHome, RunningHome, ReadyHome, BlockedHome,
       WaitingApart, CountersAgree, WaitersFindNoUnit, VerdictIsTrue, NewProcessesAreLowest, Live, Requesting
<1>4. CASE /\ QuantumExpired
           /\ cpu_time' = ChargedTime(current_pid)
           /\ priority' = Demoted(current_pid)
           /\ schedule(table, queues, active_processes, io_processes)
           /\ current_quantum_start_time' = clock
           /\ UNCHANGED <<sem_value, sem_queue, active_processes, io_processes>>
  <2>1. /\ current_pid \in Pids
        /\ proc_state[current_pid] = "RUNNING"
        /\ \A p \in Pids : p # current_pid => priority'[p] = priority[p]
        /\ \A p \in Pids : table[p] = IF p = current_pid THEN "READY" ELSE proc_state[p]
        /\ Schedulable(table, queues, priority')
    <3>1. /\ current_pid \in Pids
          /\ proc_state[current_pid] = "RUNNING"
          /\ \A p \in Pids : p # current_pid => priority'[p] = priority[p]
          /\ Schedulable(table, queues, priority')
      BY <1>1, <1>4, PreemptFacts
    <3> QED
      BY <1>1, <3>1 DEF TypeOK, StateTypeOK
  <2> HIDE DEF table, queues
  <2>4. /\ schedule(table, queues, active_processes', io_processes')
        /\ cpu_time' \in [Pids -> 0 .. INT_MOD - 1]
        /\ sem_value' \in [SemIds -> 0 .. MaxSemValue]
        /\ sem_queue' \in [SemIds -> Seq(Pids)]
        /\ current_quantum_start_time' \in Times
    BY <1>1, <1>4, <2>1, ChargedTimeType DEF TypeOK, StateTypeOK, HardwareTypeOK
  <2>5. active_processes' = Cardinality({p \in Pids : table[p] # "UNINITIALIZED"})
    <3>1. {p \in Pids : table[p] # "UNINITIALIZED"} = Live
      BY <2>1 DEF Live
    <3> QED
      BY <3>1, <1>1, <1>4 DEF CountersAgree
  <2>6. io_processes' = Cardinality(io_pending') /\ Requesting' = Requesting
    BY <1>1, <1>2, <1>4 DEF CountersAgree, Requesting
  <2>7. \A p \in Pids : table[p] = "BLOCKED" <=> Waits(p)'
    BY <1>1, <1>4, <2>1, <2>6 DEF BlockedHome, Waits
  <2>8. WaitingApart' /\ WaitersFindNoUnit'
    BY <1>1, <1>2, <1>4, <2>6 DEF WaitingApart, WaitersFindNoUnit
  <2>9. \A p \in Pids : table[p] = "UNINITIALIZED" => priority'[p] = 0
    BY <1>1, <2>1 DEF NewProcessesAreLowest
  <2> QED
    BY <1>1, <1>2, <2>1, <2>4, <2>5, <2>6, <2>7, <2>8, <2>9, ScheduleKeepsIInv
<1> QED
  BY <1>3, <1>4 DEF handle_clock_interrupt

\* DISK_INTERRUPT and KEYBOARD_INTERRUPT.
LEMMA WakeFromIOStep ==
  ASSUME IInv, outcome = "up", NEW pid \in Pids, NEW kind \in IOKinds,
         IOComplete(pid, kind), WakeFromIO(pid)
  PROVE  IInv'
<1> DEFINE table == [proc_state EXCEPT ![pid] = "READY"]
           queues == Queued(ready_queues, priority[pid], pid)
<1>1. /\ TypeOK /\ RunningHome /\ ReadyHome /\ BlockedHome /\ WaitingApart
      /\ CountersAgree /\ WaitersFindNoUnit /\ VerdictIsTrue /\ NewProcessesAreLowest
  BY DEF IInv, OneHome
<1>2. UNCHANGED <<clock, phase, sem_queue, priority>>
  BY DEF IOComplete, WakeFromIO
<1>3. /\ pid \in Requesting /\ proc_state[pid] = "BLOCKED"
      /\ table \in [Pids -> ProcessStates]
      /\ \A p \in Pids : table[p] = IF p = pid THEN "READY" ELSE proc_state[p]
      /\ queues \in [Levels -> Seq(Pids)]
      /\ ReadyAt(table, queues, priority)
      /\ current_pid = IDLE_PROCESS => Schedulable(table, queues, priority)
  BY AwakenFacts
<1>4. /\ io_pending' \in SUBSET (Pids \X IOKinds)
      /\ Cardinality(io_pending') = Cardinality(io_pending) - 1
      /\ WaitingApart'
      /\ \A p \in Pids : Waits(p)' <=> Waits(p) /\ p # pid
  BY <1>1, <1>2, CompletionWaits DEF TypeOK
<1>5. \/ /\ current_pid = IDLE_PROCESS
         /\ current_quantum_start_time' = clock
         /\ schedule(table, queues, active_processes, io_processes - 1)
      \/ /\ current_pid # IDLE_PROCESS
         /\ proc_state' = table
         /\ ready_queues' = queues
         /\ UNCHANGED <<current_pid, current_quantum_start_time, outcome>>
  BY DEF WakeFromIO
<1> HIDE DEF table, queues
<1>6. HardwareTypeOK'
  BY <1>1, <1>2, <1>4 DEF TypeOK, StateTypeOK, HardwareTypeOK
<1>7. {p \in Pids : table[p] # "UNINITIALIZED"} = Live
  BY <1>3 DEF Live
<1>8. active_processes' = Cardinality(Live) /\ UNCHANGED <<cpu_time, sem_value, sem_queue, active_processes>>
  BY <1>1 DEF CountersAgree, WakeFromIO
<1>9. io_processes' = io_processes - 1 /\ io_processes' = Cardinality(io_pending')
  BY <1>1, <1>4 DEF CountersAgree, WakeFromIO
<1>10. \A p \in Pids : table[p] = "BLOCKED" <=> Waits(p)'
  BY <1>1, <1>3, <1>4 DEF BlockedHome, Waits
<1>11. WaitingApart' /\ WaitersFindNoUnit'
  BY <1>1, <1>4, <1>8 DEF WaitersFindNoUnit
<1>12. \A p \in Pids : table[p] = "UNINITIALIZED" => priority'[p] = 0
  BY <1>1, <1>2, <1>3 DEF NewProcessesAreLowest
<1>13. CASE current_pid = IDLE_PROCESS
  <2>1. current_quantum_start_time' = clock /\ schedule(table, queues, active_processes', io_processes')
    BY <1>5, <1>8, <1>9, <1>13
  <2>2. Schedulable(table, queues, priority')
    BY <1>2, <1>3, <1>13
  <2> QED
    BY <1>1, <1>6, <1>7, <1>8, <1>9, <1>10, <1>11, <1>12, <2>1, <2>2, ScheduleKeepsIInv
       DEF TypeOK, StateTypeOK, HardwareTypeOK
<1>14. CASE current_pid # IDLE_PROCESS
  <2>1. proc_state' = table /\ ready_queues' = queues
        /\ UNCHANGED <<current_pid, current_quantum_start_time, outcome, active_processes>>
    BY <1>5, <1>8, <1>14 DEF WakeFromIO
  <2>2. TypeOK'
    BY <1>1, <1>2, <1>3, <1>6, <1>8, <1>9, <2>1 DEF TypeOK, StateTypeOK
  <2>3. RunningHome' /\ ReadyHome' /\ BlockedHome'
    <3>1. RunningHome' /\ BlockedHome'
      BY <1>1, <1>3, <1>10, <2>1 DEF RunningHome, BlockedHome, Waits
    <3>2. ReadyHome'
      BY <1>2, <1>3, <2>1 DEF ReadyHome, ReadyAt
    <3> QED
      BY <3>1, <3>2
  <2>4. CountersAgree'
    <3>1. Live' = Live
      BY <1>7, <2>1 DEF Live
    <3> QED
      BY <1>8, <1>9, <3>1 DEF CountersAgree
  <2>5. VerdictIsTrue'
    BY <1>14, <2>1 DEF VerdictIsTrue
  <2>6. NewProcessesAreLowest'
    BY <1>12, <2>1 DEF NewProcessesAreLowest
  <2> QED
    BY <1>11, <2>2, <2>3, <2>4, <2>5, <2>6 DEF IInv, OneHome
<1> QED
  BY <1>13, <1>14

\* A step that touches neither the kernel's state nor the requests.
LEMMA OtherStep ==
  ASSUME IInv, UNCHANGED <<kernelVars, io_pending>>, HardwareTypeOK'
  PROVE  IInv'
  BY DEF IInv, kernelVars, TypeOK, StateTypeOK, OneHome, RunningHome, ReadyHome, BlockedHome, WaitingApart,
         CountersAgree, WaitersFindNoUnit, VerdictIsTrue, NewProcessesAreLowest, Live, Requesting

-----------------------------------------------------------------------------
\* initialize_kernel establishes the invariant.
LEMMA InitIInv == Init => IInv
<1> SUFFICES ASSUME Init PROVE IInv
  OBVIOUS
<1> USE DEF Init, HardwareInit, initialize_kernel, initialize_state
<1>1. TypeOK
  <2>1. 0 \in Levels
    BY TopAssumption DEF Levels
  <2> QED
    BY <2>1, InitPidAssumption, ClockAssumption, IntModAssumption, SemaphoreAssumption
       DEF TypeOK, StateTypeOK, HardwareTypeOK, Times, Phases, ProcessStates, Outcomes
<1>2. OneHome
  <2>1. RunningHome
    BY IdleAssumption DEF RunningHome
  <2>2. ReadyHome
    <3>1. \A p \in Pids : priority[p] \in Levels /\ proc_state[p] # "READY"
      <4>1. 0 \in Levels
        BY TopAssumption DEF Levels
      <4> QED
        BY <4>1
    <3>2. \A q \in Levels : Elements(ready_queues[q]) = {} /\ NoDuplicates(ready_queues[q])
      BY DEF Elements, NoDuplicates
    <3> QED
      BY <3>1, <3>2 DEF ReadyHome
  <2>3. BlockedHome /\ WaitingApart
    BY DEF BlockedHome, WaitingApart, Elements, NoDuplicates, Requesting
  <2> QED
    BY <2>1, <2>2, <2>3 DEF OneHome
<1>3. CountersAgree
  <2>1. Live = {InitPid}
    BY InitPidAssumption DEF Live
  <2> QED
    BY <2>1, FS_Singleton, FS_EmptySet DEF CountersAgree
<1>4. WaitersFindNoUnit /\ VerdictIsTrue /\ NewProcessesAreLowest
  BY InitPidAssumption, IdleAssumption DEF WaitersFindNoUnit, VerdictIsTrue, NewProcessesAreLowest
<1> QED
  BY <1>1, <1>2, <1>3, <1>4 DEF IInv

\* Every step of the machine keeps the invariant.
LEMMA NextIInv == IInv /\ [Next]_vars => IInv'
<1> SUFFICES ASSUME IInv, [Next]_vars PROVE IInv'
  OBVIOUS
<1>1. CASE handle_disk_read
  BY <1>1, BlockForIOStep DEF handle_disk_read, IOKinds
<1>2. CASE handle_keyboard
  BY <1>2, BlockForIOStep DEF handle_keyboard, IOKinds
<1>3. CASE \E pid \in Pids : handle_fork(pid)
  BY <1>3, ForkStep
<1>4. CASE handle_kill
  BY <1>4, KillStep
<1>5. CASE \E s \in SemIds : handle_semaphore(s)
  BY <1>5, WakeStep, ValueStep, WaitStep DEF handle_semaphore
<1>6. CASE handle_clock_interrupt
  BY <1>6, ClockInterruptStep
<1>7. CASE \E pid \in Pids : handle_disk_interrupt(pid) \/ handle_keyboard_interrupt(pid)
  BY <1>7, WakeFromIOStep DEF handle_disk_interrupt, handle_keyboard_interrupt, IOKinds
<1>8. CASE Tick
  <2>1. HardwareTypeOK
    BY DEF IInv, TypeOK, StateTypeOK
  <2>2. clock' \in Times
    BY <1>8, <2>1, ModRange, ClockAssumption
       DEF Tick, EndRun, EndEvents, AdvanceClock, HardwareTypeOK, Times
  <2>3. phase' \in Phases /\ UNCHANGED io_pending
    BY <1>8 DEF Tick, EndRun, EndEvents, AdvanceClock, Phases
  <2> QED
    BY <1>8, <2>1, <2>2, <2>3, OtherStep DEF Tick, HardwareTypeOK
<1>9. CASE UNCHANGED vars
  BY <1>9, OtherStep DEF vars, hardwareVars, IInv, TypeOK, StateTypeOK, HardwareTypeOK
<1> QED
  BY <1>1, <1>2, <1>3, <1>4, <1>5, <1>6, <1>7, <1>8, <1>9
     DEF Next, handle_trap, Interrupt, Exited, disk_write

\* The inductive invariant holds in every state the kernel reaches.
THEOREM Invariance == Spec => []IInv
<1> QED
  BY InitIInv, NextIInv, PTL DEF Spec

\* Every variable keeps its type: in particular no promotion or demotion leaves
\* the range of priorities, whatever the number of processes and queues.
THEOREM TypeCorrect == Spec => []TypeOK
<1>1. IInv => TypeOK
  BY DEF IInv
<1> QED
  BY <1>1, Invariance, PTL

\* Every live process is in exactly one place, and a ready one on the queue of
\* the priority the process table has for it.
THEOREM OneHomeHolds == Spec => []OneHome
<1>1. IInv => OneHome
  BY DEF IInv
<1> QED
  BY <1>1, Invariance, PTL

\* A new process enters the lowest queue, although handle_fork sets no priority.
THEOREM NewProcessesLowest == Spec => []NewProcessesAreLowest
<1>1. IInv => NewProcessesAreLowest
  BY DEF IInv
<1> QED
  BY <1>1, Invariance, PTL

\* The simulation ends with "no more processes" or "DEADLOCKED SYSTEM" exactly
\* when that is so, and the processor idles only if all queues are empty.
THEOREM VerdictHolds == Spec => []VerdictIsTrue
<1>1. IInv => VerdictIsTrue
  BY DEF IInv
<1> QED
  BY <1>1, Invariance, PTL

-----------------------------------------------------------------------------
(* Who gets the processor.                                                 *)

\* What a step does when it gives the processor away, or renews a quantum.
Highest ==
  \A p \in Pids :
    /\ current_pid' = p
    /\ current_pid # p \/ current_quantum_start_time' # current_quantum_start_time
    => \A r \in Pids : proc_state'[r] = "READY" => priority'[r] <= priority'[p]

\* schedule() finds the highest; if it ends the simulation nobody was ready.
LEMMA ScheduleHighest ==
  ASSUME IInv, IInv', outcome = "up",
         NEW table, NEW queues, NEW active \in Int, NEW io \in Int,
         Schedulable(table, queues, priority'), schedule(table, queues, active, io)
  PROVE  Highest
<1>1. /\ outcome' = "deadlocked" <=> active # 0 /\ AllEmpty(queues) /\ io = 0
      /\ outcome' \in Outcomes
      /\ outcome' # "up" => proc_state' = table
      /\ outcome' = "up" => \A p, r \in Pids :
           current_pid' = p /\ proc_state'[r] = "READY" => priority'[r] <= priority'[p]
  BY ScheduleOutcome DEF IInv, TypeOK, StateTypeOK
<1>2. CASE outcome' = "up"
  BY <1>1, <1>2 DEF Highest
<1>3. CASE outcome' = "finished"
  BY <1>3 DEF IInv, VerdictIsTrue, Live, Highest
<1>4. CASE outcome' = "deadlocked"
  <2>1. AllEmpty(queues) /\ proc_state' = table
    BY <1>1, <1>4
  <2>2. ASSUME NEW r \in Pids
        PROVE  proc_state'[r] # "READY"
    <3>1. queues[priority'[r]] = <<>>
      BY <2>1 DEF Schedulable, AllEmpty
    <3> QED
      BY <2>1, <3>1 DEF Schedulable, ReadyAt, Elements
  <2> QED
    BY <2>2 DEF Highest
<1> QED
  BY <1>1, <1>2, <1>3, <1>4 DEF Outcomes

\* A step that leaves the processor and the quantum alone.
LEMMA NobodyDispatched ==
  ASSUME UNCHANGED <<current_pid, current_quantum_start_time>>
  PROVE  Highest
  BY DEF Highest

\* Every step of the kernel and of the machine.
LEMMA NextHighest ==
  ASSUME IInv, IInv', Next
  PROVE  Highest
<1>1. active_processes \in Int /\ io_processes \in Int
  BY DEF IInv, TypeOK, StateTypeOK
<1>2. ASSUME NEW kind \in IOKinds, Trap, BlockForIO(kind)
      PROVE  Highest
  <2>1. outcome = "up"
        /\ Schedulable([proc_state EXCEPT ![current_pid] = "BLOCKED"], ready_queues, priority')
    BY <1>2, TrapFacts DEF BlockForIO
  <2>2. io_processes + 1 \in Int
    BY <1>1
  <2> QED
    BY <1>1, <1>2, <2>1, <2>2, ScheduleHighest DEF BlockForIO
<1>3. CASE handle_kill
  <2>1. outcome = "up"
        /\ Schedulable([proc_state EXCEPT ![current_pid] = "UNINITIALIZED"], ready_queues, priority')
    BY <1>3, TrapFacts DEF handle_kill
  <2>2. active_processes - 1 \in Int
    BY <1>1
  <2> QED
    BY <1>1, <1>3, <2>1, <2>2, ScheduleHighest DEF handle_kill
<1>4. ASSUME NEW s \in SemIds, semaphore_wait(s)
      PROVE  Highest
  <2>1. outcome = "up"
        /\ Schedulable([proc_state EXCEPT ![current_pid] = "BLOCKED"], ready_queues, priority')
    BY <1>4, TrapFacts DEF semaphore_wait
  <2> QED
    BY <1>1, <1>4, <2>1, ScheduleHighest DEF semaphore_wait
<1>5. ASSUME \/ \E pid \in Pids : handle_fork(pid)
             \/ \E s \in SemIds : semaphore_wake(s) \/ semaphore_up(s) \/ semaphore_down(s)
             \/ Tick
             \/ UNCHANGED vars
      PROVE  Highest
  BY <1>5, NobodyDispatched
     DEF handle_fork, semaphore_wake, semaphore_up, semaphore_down, ChangeValue, Tick, vars, kernelVars
<1>6. CASE handle_clock_interrupt
  <2>1. CASE UNCHANGED kernelVars
    BY <2>1, NobodyDispatched DEF kernelVars
  <2>2. CASE ~ UNCHANGED kernelVars
    <3> DEFINE table == [proc_state EXCEPT ![current_pid] = "READY"]
               queues == Queued(ready_queues, priority'[current_pid], current_pid)
    <3>1. /\ outcome = "up" /\ QuantumExpired
          /\ priority' = Demoted(current_pid)
          /\ schedule(table, queues, active_processes, io_processes)
      BY <1>6, <2>2 DEF handle_clock_interrupt
    <3>2. Schedulable(table, queues, priority')
      BY <3>1, PreemptFacts
    <3> HIDE DEF table, queues
    <3> QED
      BY <1>1, <3>1, <3>2, ScheduleHighest
  <2> QED
    BY <2>1, <2>2
<1>7. ASSUME NEW pid \in Pids, handle_disk_interrupt(pid) \/ handle_keyboard_interrupt(pid)
      PROVE  Highest
  <2> DEFINE table == [proc_state EXCEPT ![pid] = "READY"]
             queues == Queued(ready_queues, priority[pid], pid)
  <2>1. PICK kind \in IOKinds : outcome = "up" /\ IOComplete(pid, kind) /\ WakeFromIO(pid)
    BY <1>7 DEF handle_disk_interrupt, handle_keyboard_interrupt, IOKinds
  <2>2. CASE current_pid = IDLE_PROCESS
    <3>1. UNCHANGED priority /\ schedule(table, queues, active_processes, io_processes - 1)
      BY <2>1, <2>2 DEF WakeFromIO
    <3>2. Schedulable(table, queues, priority)
      BY <2>1, <2>2, AwakenFacts
    <3>3. io_processes - 1 \in Int
      BY <1>1
    <3> HIDE DEF table, queues
    <3> QED
      BY <1>1, <2>1, <3>1, <3>2, <3>3, ScheduleHighest
  <2>3. CASE current_pid # IDLE_PROCESS
    BY <2>1, <2>3, NobodyDispatched DEF WakeFromIO
  <2> QED
    BY <2>2, <2>3
<1> QED
  BY <1>2, <1>3, <1>4, <1>5, <1>6, <1>7
     DEF Next, handle_trap, handle_semaphore, Interrupt, Exited, disk_write, handle_disk_read,
         handle_keyboard, IOKinds

\* Whoever gets the processor has the highest priority of all that are ready,
\* for any number of priorities and whichever handler gave it away.
THEOREM HighestAlwaysDispatched == Spec => HighestIsDispatched
<1>1. IInv /\ IInv' /\ [Next]_vars => [Highest]_vars
  BY NextHighest
<1> QED
  BY <1>1, Invariance, PTL DEF Spec, HighestIsDispatched, Highest

-----------------------------------------------------------------------------
(* The kernel implements ProcessManager.                                   *)

\* The processes on the queues of all priorities, as the refinement maps them.
OnQueues(queues) == UNION {Elements(queues[q]) : q \in Levels}

Ready == {p \in Pids : proc_state[p] = "READY"}

\* They are the ready ones.
LEMMA ReadyOnQueues ==
  ASSUME NEW table, NEW queues \in [Levels -> Seq(Pids)], NEW prio \in [Pids -> Levels],
         ReadyAt(table, queues, prio)
  PROVE  OnQueues(queues) = {p \in Pids : table[p] = "READY"}
<1>1. ASSUME NEW p \in OnQueues(queues)
      PROVE  p \in Pids /\ table[p] = "READY"
  <2>1. PICK q \in Levels : p \in Elements(queues[q])
    BY DEF OnQueues
  <2>2. queues[q] \in Seq(Pids)
    OBVIOUS
  <2>3. p \in Pids
    BY <2>1, <2>2, ElementsArePids
  <2> QED
    BY <2>1, <2>3 DEF ReadyAt
<1>2. ASSUME NEW p \in Pids, table[p] = "READY"
      PROVE  p \in OnQueues(queues)
  <2>1. prio[p] \in Levels /\ p \in Elements(queues[prio[p]])
    BY <1>2 DEF ReadyAt
  <2> QED
    BY <2>1 DEF OnQueues
<1> QED
  BY <1>1, <1>2

\* ... in every state the kernel reaches while it is up.
ReadyQueued == outcome = "up" => OnQueues(ready_queues) = Ready

\* The inductive invariant says so, in a state and in the next one.
LEMMA IInvReady == IInv => ReadyQueued
<1> SUFFICES ASSUME IInv, outcome = "up" PROVE OnQueues(ready_queues) = Ready
  BY DEF ReadyQueued
<1>1. /\ ready_queues \in [Levels -> Seq(Pids)] /\ priority \in [Pids -> Levels]
      /\ ReadyAt(proc_state, ready_queues, priority)
  BY DEF IInv, TypeOK, OneHome, ReadyHome, ReadyAt
<1> QED
  BY <1>1, ReadyOnQueues DEF Ready

\* ... read in the next state.
LEMMA IInvReadyNext == IInv' => ReadyQueued'
  BY IInvReady, PTL

\* The waiters of the manager are those on the kernel's semaphore queues.
LEMMA ManagerWaiting ==
  ASSUME NEW w
  PROVE  Manager!Waiting(w) = UNION {Elements(w[s]) : s \in SemIds}
  BY DEF Manager!Waiting, Elements

\* What schedule() leaves behind: a ready process runs and the others wait on,
\* or nobody was ready.
LEMMA ScheduleServes ==
  ASSUME IInv, IInv', outcome = "up",
         NEW table, NEW queues, NEW active \in Int, NEW io \in Int,
         Schedulable(table, queues, priority'), schedule(table, queues, active, io),
         NEW rdy, rdy = {p \in Pids : table[p] = "READY"}
  PROVE  \/ /\ outcome' = "up" /\ current_pid' \in rdy
            /\ OnQueues(ready_queues') = rdy \ {current_pid'}
         \/ /\ outcome' = "up" => current_pid' = IDLE_PROCESS
            /\ rdy = {} /\ OnQueues(ready_queues') = {}
<1>1. \/ /\ active = 0
         /\ outcome' = "finished"
         /\ proc_state' = table
         /\ ready_queues' = queues
         /\ UNCHANGED current_pid
      \/ /\ active # 0
         /\ AllEmpty(queues)
         /\ proc_state' = table
         /\ ready_queues' = queues
         /\ \/ io = 0 /\ outcome' = "deadlocked" /\ UNCHANGED current_pid
            \/ io # 0 /\ current_pid' = IDLE_PROCESS /\ UNCHANGED outcome
      \/ \E level \in Levels :
           /\ active # 0
           /\ queues[level] # <<>>
           /\ \A q \in Levels : queues[q] # <<>> => q <= level
           /\ current_pid' = Head(queues[level])
           /\ proc_state' = [table EXCEPT ![Head(queues[level])] = "RUNNING"]
           /\ ready_queues' = [queues EXCEPT ![level] = Tail(queues[level])]
           /\ UNCHANGED outcome
  BY ScheduleLooks
<1>2. /\ queues \in [Levels -> Seq(Pids)] /\ priority' \in [Pids -> Levels]
      /\ table \in [Pids -> ProcessStates] /\ ReadyAt(table, queues, priority')
  BY DEF Schedulable
<1>3. OnQueues(queues) = rdy
  BY <1>2, ReadyOnQueues
<1>4. CASE active = 0
  <2>1. outcome' = "finished" /\ proc_state' = table /\ ready_queues' = queues
    BY <1>1, <1>4
  <2>2. rdy = {}
    BY <2>1 DEF IInv, VerdictIsTrue, Live
  <2> QED
    BY <1>3, <2>1, <2>2
<1>5. CASE AllEmpty(queues) /\ ready_queues' = queues /\ (outcome' = "up" => current_pid' = IDLE_PROCESS)
  <2>1. \A q \in Levels : Elements(queues[q]) = {}
    BY <1>5 DEF AllEmpty, Elements
  <2>2. OnQueues(queues) = {}
    BY <2>1 DEF OnQueues
  <2> QED
    BY <1>3, <1>5, <2>2
<1>6. ASSUME NEW level \in Levels, queues[level] # <<>>,
             current_pid' = Head(queues[level]),
             proc_state' = [table EXCEPT ![Head(queues[level])] = "RUNNING"],
             UNCHANGED outcome
      PROVE  /\ outcome' = "up" /\ current_pid' \in rdy
             /\ OnQueues(ready_queues') = rdy \ {current_pid'}
  <2>1. Head(queues[level]) \in Pids /\ Head(queues[level]) \in Elements(queues[level])
    <3>1. queues[level] \in Seq(Pids)
      BY <1>2
    <3> QED
      BY <1>6, <3>1, HeadTail
  <2>2. current_pid' \in rdy
    BY <1>2, <1>6, <2>1 DEF ReadyAt
  <2>3. OnQueues(ready_queues') = {p \in Pids : proc_state'[p] = "READY"}
    BY <1>6, IInvReadyNext DEF ReadyQueued, Ready
  <2>4. \A p \in Pids : proc_state'[p] = IF p = current_pid' THEN "RUNNING" ELSE table[p]
    BY <1>2, <1>6
  <2> QED
    BY <1>6, <2>2, <2>3, <2>4
<1> QED
  BY <1>1, <1>4, <1>5, <1>6

\* schedule() gives the processor to a ready process, or to nobody and with the
\* manager's verdict.
LEMMA ScheduleDispatches ==
  ASSUME IInv, IInv', outcome = "up",
         NEW table, NEW queues, NEW active \in Int, NEW io \in Int,
         Schedulable(table, queues, priority'), schedule(table, queues, active, io),
         \A p \in Pids : table[p] = "BLOCKED" <=>
           p \in Requesting' \/ \E s \in SemIds : p \in Elements(sem_queue'[s]),
         NEW rdy, rdy = {p \in Pids : table[p] = "READY"}
  PROVE  Manager!Dispatch(rdy, Requesting', sem_queue')
<1> DEFINE waiting == UNION {Elements(sem_queue'[s]) : s \in SemIds}
<1>0. /\ io_pending' \subseteq Pids \X IOKinds
      /\ sem_queue' \in [SemIds -> Seq(Pids)]
      /\ current_pid' \in Pids \cup {IDLE_PROCESS}
  BY DEF IInv, TypeOK, StateTypeOK, HardwareTypeOK
<1>1. outcome' \in Outcomes /\ (outcome' # "up" => proc_state' = table)
  BY ScheduleOutcome DEF IInv, TypeOK, StateTypeOK
<1>2. \/ /\ outcome' = "up" /\ current_pid' \in rdy
         /\ OnQueues(ready_queues') = rdy \ {current_pid'}
      \/ /\ outcome' = "up" => current_pid' = IDLE_PROCESS
         /\ rdy = {} /\ OnQueues(ready_queues') = {}
  BY ScheduleServes
<1>3. Requesting' \subseteq Pids /\ waiting \subseteq Pids
  <2>1. Requesting' \subseteq Pids
    BY <1>0 DEF Requesting
  <2>2. \A s \in SemIds : Elements(sem_queue'[s]) \subseteq Pids
    BY <1>0 DEF Elements
  <2> QED
    BY <2>1, <2>2
<1>4. Manager!Live(IDLE_PROCESS, {}, {}, sem_queue') = waiting
  BY <1>3, ManagerWaiting, IdleAssumption DEF Manager!Live
<1>5. Requesting' = {} <=> io_pending' = {}
  BY DEF Requesting
<1>6. CASE outcome' = "finished"
  <2>1. \A p \in Pids : table[p] = "UNINITIALIZED"
    BY <1>1, <1>6 DEF IInv, VerdictIsTrue, Live
  <2>2. Requesting' = {} /\ waiting = {}
    BY <1>3, <2>1
  <2> HIDE DEF waiting
  <2> QED
    BY <1>2, <1>4, <1>6, <2>2 DEF Manager!Dispatch, OnQueues
<1>7. CASE outcome' = "deadlocked"
  <2>1. Live' # {} /\ Requesting' = {}
    BY <1>5, <1>7 DEF IInv, VerdictIsTrue
  <2>2. \A p \in Live' : \E s \in SemIds : p \in Elements(sem_queue'[s])
    BY <1>7 DEF IInv, VerdictIsTrue
  <2>3. waiting # {}
    BY <2>1, <2>2
  <2> HIDE DEF waiting
  <2> QED
    BY <1>2, <1>4, <1>7, <2>1, <2>3 DEF Manager!Dispatch, OnQueues
<1>8. CASE outcome' = "up" /\ current_pid' = IDLE_PROCESS
  <2>1. Requesting' # {}
    BY <1>5, <1>8 DEF IInv, VerdictIsTrue
  <2>2. IDLE_PROCESS \notin rdy
    BY IdleAssumption
  <2> QED
    BY <1>2, <1>8, <2>1, <2>2 DEF Manager!Dispatch, OnQueues
<1>9. CASE outcome' = "up" /\ current_pid' # IDLE_PROCESS
  BY <1>2, <1>9 DEF Manager!Dispatch, OnQueues
<1> QED
  BY <1>1, <1>6, <1>7, <1>8, <1>9 DEF Outcomes

\* What the manager sees of a trap, before and after.
LEMMA ManagerRunning ==
  ASSUME Trap
  PROVE  Manager!Running /\ (IF outcome = "up" THEN current_pid ELSE IDLE_PROCESS) = current_pid
  BY DEF Trap, Manager!Running

\* When the running process comes to wait or ends, the ready ones are who they were.
LEMMA TrapDispatches ==
  ASSUME IInv, IInv', Trap, NEW state \in {"BLOCKED", "UNINITIALIZED"},
         priority' \in {Promoted(current_pid), [priority EXCEPT ![current_pid] = 0]},
         NEW active \in Int, NEW io \in Int,
         schedule([proc_state EXCEPT ![current_pid] = state], ready_queues, active, io),
         \A p \in Pids : p \in Requesting' \/ (\E s \in SemIds : p \in Elements(sem_queue'[s]))
           <=> Waits(p) \/ (p = current_pid /\ state = "BLOCKED")
  PROVE  Manager!Dispatch(OnQueues(ready_queues), Requesting', sem_queue')
<1> DEFINE table == [proc_state EXCEPT ![current_pid] = state]
<1>1. /\ outcome = "up"
      /\ current_pid \in Pids
      /\ proc_state[current_pid] = "RUNNING"
      /\ Schedulable(table, ready_queues, priority')
  BY TrapFacts
<1>2. BlockedHome /\ proc_state \in [Pids -> ProcessStates] /\ OnQueues(ready_queues) = Ready
  BY <1>1, IInvReady DEF IInv, OneHome, TypeOK, StateTypeOK, ReadyQueued
<1>3. \A p \in Pids : table[p] = IF p = current_pid THEN state ELSE proc_state[p]
  BY <1>2
<1>4. schedule(table, ready_queues, active, io)
  OBVIOUS
<1> HIDE DEF table
<1>5. Ready = {p \in Pids : table[p] = "READY"}
  BY <1>1, <1>3 DEF Ready
<1>6. \A p \in Pids : table[p] = "BLOCKED" <=>
        p \in Requesting' \/ \E s \in SemIds : p \in Elements(sem_queue'[s])
  <2> TAKE p \in Pids
  <2>1. p \in Requesting' \/ (\E s \in SemIds : p \in Elements(sem_queue'[s]))
          <=> Waits(p) \/ (p = current_pid /\ state = "BLOCKED")
    OBVIOUS
  <2>2. proc_state[p] = "BLOCKED" <=> Waits(p)
    BY <1>2 DEF BlockedHome, Waits
  <2>3. table[p] = "BLOCKED" <=> Waits(p) \/ (p = current_pid /\ state = "BLOCKED")
    BY <1>1, <1>3, <2>2
  <2> QED
    BY <2>1, <2>3
<1>7. Manager!Dispatch(Ready, Requesting', sem_queue')
  BY <1>1, <1>4, <1>5, <1>6, ScheduleDispatches
<1> QED
  BY <1>2, <1>7

\* A read.
LEMMA ReadImplemented ==
  ASSUME IInv, IInv', NEW kind \in IOKinds, Trap, BlockForIO(kind)
  PROVE  Manager!Read
<1>1. /\ outcome = "up" /\ StateTypeOK /\ WaitingApart /\ ~ Waits(current_pid)
      /\ current_pid \in Pids /\ current_pid # IDLE_PROCESS
  BY TrapFacts DEF IInv, OneHome, TypeOK, Trap
<1>2. UNCHANGED <<sem_value, sem_queue>> /\ UNCHANGED Units
  BY DEF BlockForIO, Units
<1>3. /\ Requesting' = Requesting \cup {current_pid}
      /\ \A p \in Pids : Waits(p)' <=> Waits(p) \/ p = current_pid
  BY <1>1, <1>2, RequestWaits DEF BlockForIO
<1>4. UNCHANGED Accounts
  BY <1>1, AccountsKept DEF BlockForIO, IInv, TypeOK
<1>5. \A p \in Pids : p \in Requesting' \/ (\E s \in SemIds : p \in Elements(sem_queue'[s]))
        <=> Waits(p) \/ (p = current_pid /\ "BLOCKED" = "BLOCKED")
  BY <1>3 DEF Waits
<1>6. /\ schedule([proc_state EXCEPT ![current_pid] = "BLOCKED"], ready_queues,
                  active_processes, io_processes + 1)
      /\ priority' = Promoted(current_pid)
      /\ active_processes \in Int /\ io_processes + 1 \in Int
  BY <1>1 DEF BlockForIO, StateTypeOK
<1>7. Manager!Dispatch(OnQueues(ready_queues), Requesting', sem_queue')
  BY <1>5, <1>6, TrapDispatches
<1> QED
  BY <1>2, <1>3, <1>4, <1>7, ManagerRunning DEF Manager!Read, Units, Accounts, OnQueues

\* The end of a process.
LEMMA ExitImplemented ==
  ASSUME IInv, IInv', handle_kill
  PROVE  Manager!Exit
<1>1. /\ outcome = "up" /\ StateTypeOK /\ Trap
      /\ current_pid \in Pids /\ current_pid # IDLE_PROCESS
  BY TrapFacts DEF IInv, TypeOK, Trap, handle_kill
<1>2. UNCHANGED <<io_pending, sem_value, sem_queue>> /\ UNCHANGED Units /\ UNCHANGED Requesting
  BY DEF handle_kill, hardwareVars, Units, Requesting
<1>3. UNCHANGED Accounts
  BY <1>1, AccountsKept DEF handle_kill, hardwareVars, IInv, TypeOK
<1>4. \A p \in Pids : p \in Requesting' \/ (\E s \in SemIds : p \in Elements(sem_queue'[s]))
        <=> Waits(p) \/ (p = current_pid /\ "UNINITIALIZED" = "BLOCKED")
  BY <1>2 DEF Waits
<1>5. /\ schedule([proc_state EXCEPT ![current_pid] = "UNINITIALIZED"], ready_queues,
                  active_processes - 1, io_processes)
      /\ priority' = [priority EXCEPT ![current_pid] = 0]
      /\ active_processes - 1 \in Int /\ io_processes \in Int
  BY <1>1 DEF handle_kill, StateTypeOK
<1>6. Manager!Dispatch(OnQueues(ready_queues), Requesting', sem_queue')
  BY <1>1, <1>4, <1>5, TrapDispatches
<1>7. Manager!Dispatch(OnQueues(ready_queues), Requesting, sem_queue)
  BY <1>2, <1>6
<1> QED
  BY <1>1, <1>2, <1>3, <1>7, ManagerRunning DEF Manager!Exit, Units, Accounts, OnQueues

\* DOWN without a unit.
LEMMA WaitImplemented ==
  ASSUME IInv, IInv', NEW s \in SemIds, semaphore_wait(s)
  PROVE  Manager!Down(s)
<1>1. /\ outcome = "up" /\ StateTypeOK /\ WaitingApart /\ Trap /\ ~ Waits(current_pid)
      /\ current_pid \in Pids /\ current_pid # IDLE_PROCESS
      /\ sem_queue \in [SemIds -> Seq(Pids)]
      /\ sem_value[s] = 0
  BY TrapFacts DEF IInv, OneHome, TypeOK, StateTypeOK, Trap, semaphore_wait
<1>2. UNCHANGED <<io_pending, sem_value, clock>> /\ UNCHANGED Requesting
  BY DEF semaphore_wait, hardwareVars, Requesting
<1>3. sem_queue' = [sem_queue EXCEPT ![s] = Append(@, current_pid)]
  BY DEF semaphore_wait, enqueue
<1>4. \A p \in Pids : Waits(p)' <=> Waits(p) \/ p = current_pid
  BY <1>1, <1>2, <1>3, EnqueueWaits
<1>5. UNCHANGED Accounts
  BY <1>1, <1>2, AccountsKept DEF semaphore_wait, IInv, TypeOK
<1>6. \A p \in Pids : p \in Requesting' \/ (\E t \in SemIds : p \in Elements(sem_queue'[t]))
        <=> Waits(p) \/ (p = current_pid /\ "BLOCKED" = "BLOCKED")
  BY <1>4 DEF Waits
<1>7. /\ schedule([proc_state EXCEPT ![current_pid] = "BLOCKED"], ready_queues,
                  active_processes, io_processes)
      /\ priority' = Promoted(current_pid)
      /\ active_processes \in Int /\ io_processes \in Int
  BY <1>1 DEF semaphore_wait, StateTypeOK
<1>8. Manager!Dispatch(OnQueues(ready_queues), Requesting', sem_queue')
  BY <1>1, <1>6, <1>7, TrapDispatches
<1>9. Manager!Dispatch(OnQueues(ready_queues), Requesting, sem_queue')
  BY <1>2, <1>8
<1>10. Units[s] <= 0 /\ Units' = [Units EXCEPT ![s] = @ - 1]
  BY <1>1, <1>2, <1>3, UnitsOfWait
<1> QED
  BY <1>1, <1>2, <1>3, <1>5, <1>9, <1>10, ManagerRunning DEF Manager!Down, Units, Accounts, OnQueues

\* A step that makes one more process ready and dispatches nobody.
LEMMA ReadyGrows ==
  ASSUME IInv, IInv', outcome = "up", outcome' = "up", NEW pid \in Pids,
         proc_state' = [proc_state EXCEPT ![pid] = "READY"]
  PROVE  OnQueues(ready_queues') = OnQueues(ready_queues) \cup {pid}
<1>1. OnQueues(ready_queues) = Ready /\ OnQueues(ready_queues') = Ready'
  BY IInvReady, IInvReadyNext DEF ReadyQueued
<1>2. \A p \in Pids : proc_state'[p] = IF p = pid THEN "READY" ELSE proc_state[p]
  BY DEF IInv, TypeOK, StateTypeOK
<1>3. Ready' = Ready \cup {pid}
  BY <1>2 DEF Ready
<1> QED
  BY <1>1, <1>3

\* UP with a waiter.
LEMMA WakeImplemented ==
  ASSUME IInv, IInv', NEW s \in SemIds, semaphore_wake(s)
  PROVE  Manager!Up(s)
<1>1. /\ StateTypeOK /\ sem_queue[s] # <<>> /\ sem_value[s] = 0 /\ Trap /\ outcome = "up"
      /\ sem_queue \in [SemIds -> Seq(Pids)]
  BY DEF semaphore_wake, IInv, TypeOK, StateTypeOK, Trap
<1>2. UNCHANGED <<io_pending, current_pid, outcome, sem_value>>
  BY DEF semaphore_wake, hardwareVars
<1>3. PICK pid \in Pids : pid = Head(sem_queue[s])
  BY <1>1, HeadTail
<1>4. proc_state' = [proc_state EXCEPT ![pid] = "READY"]
  BY <1>3 DEF semaphore_wake
<1>5. OnQueues(ready_queues') = OnQueues(ready_queues) \cup {Head(sem_queue[s])}
  BY <1>1, <1>2, <1>3, <1>4, ReadyGrows
<1>6. sem_queue' = [sem_queue EXCEPT ![s] = Tail(@)]
  BY DEF semaphore_wake
<1>7. Units[s] < 0 /\ Units' = [Units EXCEPT ![s] = @ + 1]
  BY <1>1, <1>2, <1>6, UnitsOfWake
<1>8. UNCHANGED Accounts
  BY AccountsUntouched DEF semaphore_wake, hardwareVars
<1>9. UNCHANGED Requesting
  BY <1>2 DEF Requesting
<1> QED
  BY <1>1, <1>2, <1>5, <1>6, <1>7, <1>8, <1>9, ManagerRunning
     DEF Manager!Up, Units, Accounts, OnQueues

\* UP and DOWN that change the value.
LEMMA ValueImplemented ==
  ASSUME IInv, NEW s \in SemIds
  PROVE  /\ semaphore_up(s) => Manager!Up(s)
         /\ semaphore_down(s) => Manager!Down(s)
<1>1. /\ StateTypeOK /\ WaitersFindNoUnit
      /\ sem_value[s] \in Nat
  BY SemaphoreAssumption DEF IInv, TypeOK, StateTypeOK
<1>2. ASSUME semaphore_up(s) \/ semaphore_down(s)
      PROVE  /\ UNCHANGED <<io_pending, sem_queue, ready_queues, current_pid, outcome>>
             /\ UNCHANGED <<Accounts, Requesting>>
             /\ Trap
             /\ sem_queue[s] = <<>>
             /\ Units[s] = sem_value[s]
  <2>1. /\ UNCHANGED <<hardwareVars, current_pid, cpu_time, current_quantum_start_time, outcome,
                       ready_queues, sem_queue>>
        /\ Trap
    BY <1>2 DEF semaphore_up, semaphore_down, ChangeValue
  <2>2. UNCHANGED <<Accounts, Requesting>>
    BY <2>1, AccountsUntouched DEF hardwareVars, Requesting
  <2>3. sem_queue[s] = <<>>
    BY <1>1, <1>2 DEF semaphore_up, semaphore_down, WaitersFindNoUnit
  <2> QED
    BY <1>1, <2>1, <2>2, <2>3, UnitsWithoutWaiters DEF hardwareVars
<1>3. ASSUME semaphore_up(s)
      PROVE  Manager!Up(s)
  <2>1. Units' = [Units EXCEPT ![s] = @ + 1]
    BY <1>1, <1>2, <1>3, UnitsOfValue DEF semaphore_up, ChangeValue
  <2>2. ~ (Units[s] < 0)
    BY <1>1, <1>2, <1>3
  <2> QED
    BY <1>2, <1>3, <2>1, <2>2, ManagerRunning DEF Manager!Up, Units, Accounts
<1>4. ASSUME semaphore_down(s)
      PROVE  Manager!Down(s)
  <2>1. sem_value' = [sem_value EXCEPT ![s] = @ + (-1)]
    BY <1>4 DEF semaphore_down, ChangeValue
  <2>2. Units' = [Units EXCEPT ![s] = @ + (-1)]
    BY <1>1, <1>2, <1>4, <2>1, UnitsOfValue
  <2>3. Units[s] + (-1) = Units[s] - 1 /\ ~ (Units[s] <= 0)
    BY <1>1, <1>2, <1>4 DEF semaphore_down
  <2>4. Units' = [Units EXCEPT ![s] = @ - 1]
    BY <2>2, <2>3
  <2> QED
    BY <1>2, <1>4, <2>3, <2>4, ManagerRunning DEF Manager!Down, Units, Accounts
<1> QED
  BY <1>3, <1>4

\* FORK_PROGRAM goes on with the account of the pid.
LEMMA ForkImplemented ==
  ASSUME IInv, IInv', NEW pid \in Pids, handle_fork(pid)
  PROVE  Manager!Fork(pid)
<1>1. /\ Trap /\ outcome = "up" /\ current_pid \in Pids
      /\ proc_state[current_pid] = "RUNNING" /\ proc_state[pid] = "UNINITIALIZED"
      /\ BlockedHome
  BY TrapFacts DEF handle_fork, IInv, OneHome
<1>2. /\ UNCHANGED <<io_pending, current_pid, sem_value, sem_queue, outcome>>
      /\ UNCHANGED <<Units, Requesting>>
  BY DEF handle_fork, hardwareVars, Units, Requesting
<1>3. OnQueues(ready_queues') = OnQueues(ready_queues) \cup {pid}
  BY <1>1, <1>2, ReadyGrows DEF handle_fork
<1>4. OnQueues(ready_queues) = Ready
  BY <1>1, IInvReady DEF ReadyQueued
<1>5. /\ pid # current_pid /\ pid \notin Ready /\ pid \notin Requesting
      /\ \A s \in SemIds : pid \notin Elements(sem_queue[s])
  BY <1>1 DEF Ready, BlockedHome
<1>6. pid \notin Manager!Live(current_pid, OnQueues(ready_queues), Requesting, sem_queue)
  BY <1>4, <1>5, ManagerWaiting DEF Manager!Live
<1>7. UNCHANGED Accounts
  BY AccountsUntouched DEF handle_fork, hardwareVars
<1> QED
  BY <1>1, <1>2, <1>3, <1>6, <1>7, ManagerRunning DEF Manager!Fork, Units, Accounts, OnQueues

\* A clock interrupt at the end of a quantum, and any other.
LEMMA ClockInterruptImplemented ==
  ASSUME IInv, IInv', handle_clock_interrupt
  PROVE  Manager!Preempt \/ UNCHANGED Manager!managerVars
<1>1. /\ outcome = "up" /\ StateTypeOK /\ BlockedHome
      /\ UNCHANGED <<clock, io_pending>> /\ UNCHANGED Requesting
  BY DEF handle_clock_interrupt, RaiseTimer, IInv, OneHome, TypeOK, Requesting
<1>2. CASE UNCHANGED kernelVars
  <2>1. UNCHANGED <<Units, Accounts>>
    BY <1>1, <1>2 DEF kernelVars, Units, Accounts, Used, Elapsed
  <2> QED
    BY <1>1, <1>2, <2>1 DEF Manager!managerVars, kernelVars, Units, Accounts
<1>3. CASE ~ UNCHANGED kernelVars
  <2> DEFINE table == [proc_state EXCEPT ![current_pid] = "READY"]
             queues == Queued(ready_queues, priority'[current_pid], current_pid)
  <2>1. /\ QuantumExpired
        /\ cpu_time' = ChargedTime(current_pid)
        /\ priority' = Demoted(current_pid)
        /\ schedule(table, queues, active_processes, io_processes)
        /\ current_quantum_start_time' = clock
        /\ UNCHANGED <<sem_value, sem_queue>>
    BY <1>3 DEF handle_clock_interrupt
  <2>2. /\ current_pid \in Pids /\ current_pid # IDLE_PROCESS
        /\ proc_state[current_pid] = "RUNNING"
        /\ Schedulable(table, queues, priority')
    BY <1>1, <2>1, PreemptFacts DEF QuantumExpired
  <2>3. UNCHANGED Accounts /\ UNCHANGED Units
    BY <1>1, <2>1, <2>2, AccountsKept DEF Units, IInv, TypeOK
  <2>4. \A p \in Pids : table[p] = IF p = current_pid THEN "READY" ELSE proc_state[p]
    BY <1>1, <2>2 DEF StateTypeOK
  <2> HIDE DEF table, queues
  <2>5. \A p \in Pids : table[p] = "BLOCKED" <=>
          p \in Requesting' \/ \E s \in SemIds : p \in Elements(sem_queue'[s])
    BY <1>1, <2>1, <2>2, <2>4 DEF BlockedHome
  <2>6. active_processes \in Int /\ io_processes \in Int
    BY <1>1 DEF StateTypeOK
  <2>7. Ready \cup {current_pid} = {p \in Pids : table[p] = "READY"}
    BY <2>2, <2>4 DEF Ready
  <2>8. Manager!Dispatch(Ready \cup {current_pid}, Requesting', sem_queue')
    BY <1>1, <2>1, <2>2, <2>5, <2>6, <2>7, ScheduleDispatches
  <2>9. Manager!Dispatch(OnQueues(ready_queues) \cup {current_pid}, Requesting, sem_queue)
    BY <1>1, <2>1, <2>8, IInvReady DEF ReadyQueued
  <2>10. Manager!Running
    BY <1>1, <2>2 DEF Manager!Running
  <2> QED
    BY <1>1, <2>1, <2>3, <2>9, <2>10 DEF Manager!Preempt, Units, Accounts, OnQueues
<1> QED
  BY <1>2, <1>3

\* A completed read.
LEMMA ReadDoneImplemented ==
  ASSUME IInv, IInv', outcome = "up", NEW pid \in Pids, NEW kind \in IOKinds,
         IOComplete(pid, kind), WakeFromIO(pid)
  PROVE  Manager!ReadDone(pid)
<1> DEFINE table == [proc_state EXCEPT ![pid] = "READY"]
           queues == Queued(ready_queues, priority[pid], pid)
<1>1. /\ StateTypeOK /\ BlockedHome /\ WaitingApart /\ VerdictIsTrue
      /\ UNCHANGED <<clock, sem_value, sem_queue, cpu_time, priority>> /\ UNCHANGED Units
  BY DEF IOComplete, WakeFromIO, IInv, OneHome, TypeOK, Units
<1>2. /\ proc_state[pid] = "BLOCKED"
      /\ \A p \in Pids : table[p] = IF p = pid THEN "READY" ELSE proc_state[p]
      /\ current_pid = IDLE_PROCESS => Schedulable(table, queues, priority)
  BY AwakenFacts
<1>3. /\ pid \in Requesting
      /\ Requesting' = Requesting \ {pid}
      /\ \A p \in Pids : Waits(p)' <=> Waits(p) /\ p # pid
  BY <1>1, CompletionWaits
<1>4. CASE current_pid = IDLE_PROCESS
  <2>1. /\ current_quantum_start_time' = clock
        /\ schedule(table, queues, active_processes, io_processes - 1)
        /\ active_processes \in Int /\ io_processes - 1 \in Int
    BY <1>1, <1>4 DEF WakeFromIO, StateTypeOK
  <2>2. UNCHANGED Accounts
    BY <1>1, <1>4, <2>1, AccountsKept DEF IInv, TypeOK
  <2> HIDE DEF table, queues
  <2>3. \A p \in Pids : table[p] = "BLOCKED" <=>
          p \in Requesting' \/ \E s \in SemIds : p \in Elements(sem_queue'[s])
    <3> TAKE p \in Pids
    <3>1. proc_state[p] = "BLOCKED" <=> Waits(p)
      BY <1>1 DEF BlockedHome, Waits
    <3>2. table[p] = "BLOCKED" <=> Waits(p) /\ p # pid
      BY <1>2, <3>1
    <3> QED
      BY <1>3, <3>2 DEF Waits
  <2>4. {pid} = {p \in Pids : table[p] = "READY"}
    <3>1. OnQueues(ready_queues) = {}
      BY <1>1, <1>4 DEF VerdictIsTrue, OnQueues, Elements
    <3>2. Ready = {}
      BY <3>1, IInvReady DEF ReadyQueued
    <3> QED
      BY <1>2, <3>2 DEF Ready
  <2>5. Schedulable(table, queues, priority')
    BY <1>1, <1>2, <1>4
  <2>6. Manager!Dispatch({pid}, Requesting', sem_queue')
    BY <2>1, <2>3, <2>4, <2>5, ScheduleDispatches
  <2>7. Manager!Dispatch({pid}, Requesting', sem_queue)
    BY <1>1, <2>6
  <2> QED
    BY <1>1, <1>3, <1>4, <2>2, <2>7 DEF Manager!ReadDone, Units, Accounts
<1>5. CASE current_pid # IDLE_PROCESS
  <2>1. proc_state' = table /\ UNCHANGED <<current_pid, current_quantum_start_time, outcome>>
    BY <1>5 DEF WakeFromIO
  <2>2. UNCHANGED Accounts
    BY <1>1, <2>1, AccountsUntouched
  <2>3. OnQueues(ready_queues') = OnQueues(ready_queues) \cup {pid}
    BY <2>1, ReadyGrows
  <2> QED
    BY <1>1, <1>3, <1>5, <2>1, <2>2, <2>3 DEF Manager!ReadDone, Units, Accounts, OnQueues
<1> QED
  BY <1>4, <1>5

\* The parts of a tick.
LEMMA TickImplemented ==
  ASSUME IInv, IInv', Tick, CLOCK_MOD % INT_MOD = 0
  PROVE  Manager!Tick \/ UNCHANGED Manager!managerVars
<1>1. /\ outcome = "up" /\ UNCHANGED kernelVars /\ UNCHANGED io_pending
      /\ StateTypeOK /\ StateTypeOK' /\ current_pid \in Pids \cup {IDLE_PROCESS}
  BY DEF Tick, EndRun, EndEvents, AdvanceClock, IInv, TypeOK, StateTypeOK
<1>2. UNCHANGED <<current_pid, outcome, ready_queues, sem_queue, Units, Requesting>>
  BY <1>1 DEF kernelVars, Units, Requesting
<1>3. CASE EndRun \/ EndEvents
  <2>1. UNCHANGED Accounts
    BY <1>1, <1>3, AccountsUntouched DEF EndRun, EndEvents, kernelVars
  <2> QED
    BY <1>2, <2>1 DEF Manager!managerVars, Units, Accounts
<1>4. CASE AdvanceClock
  <2>1. /\ current_pid = IDLE_PROCESS => UNCHANGED Accounts
        /\ current_pid # IDLE_PROCESS =>
             Accounts' = [Accounts EXCEPT ![current_pid] = (@ + 1) % INT_MOD]
    BY <1>1, <1>4, AccountsOfTick DEF kernelVars, AdvanceClock
  <2>2. CASE current_pid = IDLE_PROCESS
    BY <1>2, <2>1, <2>2 DEF Manager!managerVars, Units, Accounts
  <2>3. CASE current_pid # IDLE_PROCESS
    BY <1>1, <1>2, <2>1, <2>3 DEF Manager!Tick, Manager!Running, Units, Accounts
  <2> QED
    BY <2>2, <2>3
<1> QED
  BY <1>3, <1>4 DEF Tick

\* The initial states map to the manager's.
LEMMA InitImplemented == Init => Manager!Init
<1> SUFFICES ASSUME Init PROVE Manager!Init
  OBVIOUS
<1>1. \A p \in Pids : Used(p) = 0
  <2>1. Elapsed = 0
    <3>1. clock - current_quantum_start_time = 0
      BY DEF Init, HardwareInit, initialize_kernel, initialize_state
    <3> QED
      BY <3>1, ModSmall, ClockAssumption DEF Elapsed
  <2>2. \A p \in Pids : Used(p) = (0 + 0) % INT_MOD
    BY <2>1 DEF Used, Init, initialize_kernel, initialize_state
  <2>3. 0 % INT_MOD = 0 /\ 0 + 0 = 0
    BY ModSmall, IntModAssumption
  <2> QED
    BY <2>2, <2>3
<1>2. OnQueues(ready_queues) = {} /\ Requesting = {}
  BY DEF Init, HardwareInit, initialize_kernel, OnQueues, Elements, Requesting
<1>3. \A s \in SemIds : sem_value[s] - Len(sem_queue[s]) = INITIAL_SEMAPHORE_VALUE
  BY SemaphoreAssumption DEF Init, initialize_kernel, initialize_state
<1> QED
  BY <1>1, <1>2, <1>3 DEF Manager!Init, Init, initialize_kernel, initialize_state, OnQueues

\* Every step maps to one of the manager's, or to none.
LEMMA NextImplemented ==
  ASSUME IInv, IInv', [Next]_vars, CLOCK_MOD % INT_MOD = 0
  PROVE  [Manager!Next]_(Manager!managerVars)
<1>1. CASE handle_disk_read \/ handle_keyboard
  BY <1>1, ReadImplemented DEF handle_disk_read, handle_keyboard, IOKinds, Manager!Next
<1>2. CASE \E pid \in Pids : handle_fork(pid)
  BY <1>2, ForkImplemented DEF Manager!Next
<1>3. CASE handle_kill
  BY <1>3, ExitImplemented DEF Manager!Next
<1>4. CASE \E s \in SemIds : handle_semaphore(s)
  BY <1>4, WakeImplemented, ValueImplemented, WaitImplemented DEF handle_semaphore, Manager!Next
<1>5. CASE handle_clock_interrupt
  BY <1>5, ClockInterruptImplemented DEF Manager!Next
<1>6. CASE \E pid \in Pids : handle_disk_interrupt(pid) \/ handle_keyboard_interrupt(pid)
  BY <1>6, ReadDoneImplemented DEF handle_disk_interrupt, handle_keyboard_interrupt, IOKinds, Manager!Next
<1>7. CASE Tick
  BY <1>7, TickImplemented DEF Manager!Next
<1>8. CASE UNCHANGED vars
  BY <1>8 DEF vars, hardwareVars, kernelVars, Manager!managerVars, Used, Elapsed, Requesting
<1> QED
  BY <1>1, <1>2, <1>3, <1>4, <1>5, <1>6, <1>7, <1>8
     DEF Next, handle_trap, Interrupt, Exited, disk_write

\* The kernel implements the process manager, for any number of processes,
\* semaphores and priorities, any quantum and period, with accounts that a fork
\* does not reset, if the clock is a whole number of times as wide as they are.
THEOREM ProcessesManaged ==
  ASSUME CLOCK_MOD % INT_MOD = 0
  PROVE  Spec => ManagesProcesses
<1>1. IInv /\ IInv' /\ [Next]_vars => [Manager!Next]_(Manager!managerVars)
  BY NextImplemented
<1> QED
  BY <1>1, InitImplemented, Invariance, PTL DEF Spec, ManagesProcesses, Manager!Spec
=============================================================================
