---------------------------- MODULE KernelProofs ----------------------------
(***************************************************************************)
(* Theorems about Kernel, for any processes, semaphores and quantum: its   *)
(* invariants, and what it promises from one step to the next, exact CPU   *)
(* accounts, queues nobody overtakes and the steps of ProcessManager.      *)
(***************************************************************************)
EXTENDS Kernel, KernelStateProofs

\* The inductive invariant.  Where a process is and what the counters count
\* depend on one another: schedule() ends the simulation on the counters.
IInv == TypeOK /\ OneHome /\ CountersAgree /\ WaitersFindNoUnit /\ VerdictIsTrue

-----------------------------------------------------------------------------
(* schedule().                                                             *)

\* What a handler has brought about when it calls schedule().
Schedulable(table, queue) ==
  /\ table \in [Pids -> ProcessStates]
  /\ queue \in Seq(Pids)
  /\ NoDuplicates(queue)
  /\ \A p \in Pids : table[p] = "READY" <=> p \in Elements(queue)
  /\ \A p \in Pids : table[p] # "RUNNING"

\* schedule() never has a blocked process to drop, runs the head of the ready
\* queue, and otherwise leaves the table and the queue as they were.
LEMMA ScheduleOutcome ==
  ASSUME NEW table, NEW queue, NEW active \in Int, NEW io \in Int,
         Schedulable(table, queue), current_pid \in Pids \cup {IDLE_PROCESS},
         outcome = "up", schedule(table, queue, active, io)
  PROVE  /\ proc_state' \in [Pids -> ProcessStates]
         /\ ready_queue' \in Seq(Pids)
         /\ current_pid' \in Pids \cup {IDLE_PROCESS}
         /\ outcome' \in Outcomes
         /\ outcome' = "finished" <=> active = 0
         /\ outcome' = "deadlocked" <=> active # 0 /\ queue = <<>> /\ io = 0
         /\ outcome' # "up" => proc_state' = table
         /\ \A p \in Pids : proc_state'[p] = "BLOCKED" <=> table[p] = "BLOCKED"
         /\ \A p \in Pids : proc_state'[p] = "UNINITIALIZED" <=> table[p] = "UNINITIALIZED"
         /\ outcome' = "up" /\ current_pid' = IDLE_PROCESS => ready_queue' = <<>> /\ io # 0
         /\ outcome' = "up" => RunningHome' /\ ReadyHome'
<1> USE DEF Schedulable
<1>1. ClearBlocked(table, queue) = queue
  BY NothingToClear DEF Elements
<1>2. CASE active = 0
  BY <1>1, <1>2 DEF schedule, Outcomes
<1>3. CASE active # 0 /\ queue = <<>>
  <2>1. \A p \in Pids : table[p] # "READY"
    BY <1>3, NoElements
  <2>2. io = 0 => outcome' = "deadlocked"
    BY <1>1, <1>3 DEF schedule
  <2>3. io # 0 => current_pid' = IDLE_PROCESS /\ outcome' = "up"
    BY <1>1, <1>3 DEF schedule
  <2>4. proc_state' = table /\ ready_queue' = <<>>
    BY <1>1, <1>3 DEF schedule
  <2>5. outcome' = "up" => RunningHome' /\ ReadyHome'
    BY <2>1, <2>2, <2>3, <2>4, IdleAssumption
       DEF RunningHome, ReadyHome, Elements, NoDuplicates
  <2> QED
    BY <1>3, <2>2, <2>3, <2>4, <2>5, <1>1 DEF schedule, Outcomes
<1>4. CASE active # 0 /\ queue # <<>>
  <2>1. /\ current_pid' = Head(queue)
        /\ proc_state' = [table EXCEPT ![Head(queue)] = "RUNNING"]
        /\ ready_queue' = Tail(queue)
        /\ outcome' = "up"
    BY <1>1, <1>4 DEF schedule
  <2>2. /\ Head(queue) \in Pids
        /\ Tail(queue) \in Seq(Pids)
        /\ Elements(queue) = Elements(Tail(queue)) \cup {Head(queue)}
        /\ NoDuplicates(Tail(queue))
        /\ Head(queue) \notin Elements(Tail(queue))
    BY <1>4, HeadTail, HeadTailNoDuplicates
  <2>3. table[Head(queue)] = "READY"
    BY <2>2
  <2>4. proc_state' \in [Pids -> ProcessStates]
    BY <2>1, <2>2 DEF ProcessStates
  <2>5. \A p \in Pids : proc_state'[p] = IF p = Head(queue) THEN "RUNNING" ELSE table[p]
    BY <2>1, <2>2
  <2>6. RunningHome'
    BY <2>1, <2>5 DEF RunningHome
  <2>7. ReadyHome'
    BY <2>1, <2>2, <2>5 DEF ReadyHome
  <2> QED
    BY <1>4, <2>1, <2>2, <2>3, <2>4, <2>5, <2>6, <2>7, IdleAssumption DEF Outcomes
<1> QED
  BY <1>2, <1>3, <1>4

-----------------------------------------------------------------------------
(* The counters.                                                           *)

\* A handler that calls schedule() keeps the invariant if what it did before
\* the call put every process in one place and counted it.
LEMMA ScheduleKeepsIInv ==
  ASSUME NEW table, NEW queue, TypeOK, outcome = "up", Schedulable(table, queue),
         schedule(table, queue, active_processes', io_processes'),
         HardwareTypeOK', cpu_time' \in [Pids -> 0 .. INT_MOD - 1],
         sem_value' \in [SemIds -> 0 .. MaxSemValue],
         sem_queue' \in [SemIds -> Seq(Pids)],
         current_quantum_start_time' \in Times,
         active_processes' = Cardinality({p \in Pids : table[p] # "UNINITIALIZED"}),
         io_processes' = Cardinality(io_pending'),
         \A p \in Pids : table[p] = "BLOCKED" <=> Waits(p)',
         WaitingApart', WaitersFindNoUnit'
  PROVE  IInv'
<1> DEFINE live == {p \in Pids : table[p] # "UNINITIALIZED"}
<1>0. IsFiniteSet(live) /\ IsFiniteSet(io_pending')
  BY PidsAssumption, FS_Subset, FiniteRequests DEF HardwareTypeOK
<1>1. active_processes' \in Int /\ io_processes' \in Int
  BY <1>0, FS_CardinalityType
<1>2. /\ proc_state' \in [Pids -> ProcessStates]
      /\ ready_queue' \in Seq(Pids)
      /\ current_pid' \in Pids \cup {IDLE_PROCESS}
      /\ outcome' \in Outcomes
      /\ outcome' = "finished" <=> active_processes' = 0
      /\ outcome' = "deadlocked" <=> active_processes' # 0 /\ queue = <<>> /\ io_processes' = 0
      /\ outcome' # "up" => proc_state' = table
      /\ \A p \in Pids : proc_state'[p] = "BLOCKED" <=> table[p] = "BLOCKED"
      /\ \A p \in Pids : proc_state'[p] = "UNINITIALIZED" <=> table[p] = "UNINITIALIZED"
      /\ outcome' = "up" /\ current_pid' = IDLE_PROCESS => ready_queue' = <<>> /\ io_processes' # 0
      /\ outcome' = "up" => RunningHome' /\ ReadyHome'
  BY <1>1, ScheduleOutcome DEF TypeOK, StateTypeOK
<1>3. TypeOK'
  BY <1>1, <1>2 DEF TypeOK, StateTypeOK
<1>4. OneHome'
  BY <1>2 DEF OneHome, BlockedHome, Waits
<1>5. Live' = live
  BY <1>2 DEF Live
<1>6. CountersAgree'
  BY <1>5 DEF CountersAgree
<1>8. (active_processes' = 0 <=> live = {}) /\ (io_processes' = 0 <=> io_pending' = {})
  BY <1>0, FS_EmptySet
<1>9. outcome' = "deadlocked" =>
        \A p \in Live' : \E s \in SemIds : p \in Elements(sem_queue'[s]) /\ sem_value'[s] = 0
  <2> SUFFICES ASSUME outcome' = "deadlocked", NEW p \in Live'
               PROVE  \E s \in SemIds : p \in Elements(sem_queue'[s]) /\ sem_value'[s] = 0
    OBVIOUS
  <2>1. io_pending' = {} /\ queue = <<>>
    BY <1>2, <1>8
  <2>2. table[p] # "READY"
    BY <2>1, <1>5, NoElements DEF Schedulable
  <2>3. table[p] = "BLOCKED"
    BY <2>2, <1>5 DEF Schedulable, ProcessStates
  <2>4. PICK s \in SemIds : p \in Elements(sem_queue'[s])
    BY <2>1, <2>3, <1>5 DEF Requesting, Waits
  <2>5. sem_queue'[s] # <<>>
    BY <2>4, NoElements
  <2> QED
    BY <2>4, <2>5 DEF WaitersFindNoUnit
<1>10. VerdictIsTrue'
  BY <1>2, <1>5, <1>8, <1>9 DEF VerdictIsTrue
<1> QED
  BY <1>3, <1>4, <1>6, <1>10 DEF IInv

-----------------------------------------------------------------------------
(* The handlers.                                                           *)

\* The process that traps is on no queue and has no request; once it is marked
\* as waiting or gone, the rest can be scheduled.
LEMMA TrapFacts ==
  ASSUME IInv, Trap
  PROVE  /\ outcome = "up"
         /\ current_pid \in Pids
         /\ proc_state[current_pid] = "RUNNING"
         /\ \A p \in Pids : proc_state[p] = "RUNNING" => p = current_pid
         /\ current_pid \notin Elements(ready_queue)
         /\ ~ Waits(current_pid)
         /\ \A state \in {"BLOCKED", "UNINITIALIZED"} :
              Schedulable([proc_state EXCEPT ![current_pid] = state], ready_queue)
<1>1. /\ outcome = "up"
      /\ current_pid \in Pids
      /\ RunningHome /\ ReadyHome /\ BlockedHome
  BY DEF IInv, Trap, TypeOK, StateTypeOK, OneHome
<1>2. /\ proc_state[current_pid] = "RUNNING"
      /\ \A p \in Pids : proc_state[p] = "RUNNING" => p = current_pid
  BY <1>1 DEF RunningHome
<1>3. current_pid \notin Elements(ready_queue)
  BY <1>1, <1>2 DEF ReadyHome
<1>4. ~ Waits(current_pid)
  BY <1>1, <1>2 DEF BlockedHome, Waits
<1>5. ASSUME NEW state \in {"BLOCKED", "UNINITIALIZED"}
      PROVE  Schedulable([proc_state EXCEPT ![current_pid] = state], ready_queue)
  <2>1. proc_state \in [Pids -> ProcessStates] /\ ready_queue \in Seq(Pids)
    BY DEF IInv, TypeOK, StateTypeOK
  <2>2. [proc_state EXCEPT ![current_pid] = state] \in [Pids -> ProcessStates]
    BY <2>1 DEF ProcessStates
  <2>3. \A p \in Pids : [proc_state EXCEPT ![current_pid] = state][p]
                          = IF p = current_pid THEN state ELSE proc_state[p]
    BY <2>1, <1>1
  <2> QED
    BY <1>1, <1>2, <1>3, <2>1, <2>2, <2>3 DEF Schedulable, ReadyHome
<1> QED
  BY <1>1, <1>2, <1>3, <1>4, <1>5

\* The process whose quantum is over can be scheduled again, behind the others.
LEMMA PreemptFacts ==
  ASSUME IInv, outcome = "up", QuantumExpired
  PROVE  /\ current_pid \in Pids
         /\ proc_state[current_pid] = "RUNNING"
         /\ current_pid \notin Elements(ready_queue)
         /\ Elements(Append(ready_queue, current_pid)) = Elements(ready_queue) \cup {current_pid}
         /\ Schedulable([proc_state EXCEPT ![current_pid] = "READY"],
                        Append(ready_queue, current_pid))
<1> DEFINE table == [proc_state EXCEPT ![current_pid] = "READY"]
           queue == Append(ready_queue, current_pid)
<1>1. TypeOK /\ RunningHome /\ ReadyHome
  BY DEF IInv, OneHome
<1>2. current_pid \in Pids /\ proc_state[current_pid] = "RUNNING"
  BY <1>1 DEF QuantumExpired, TypeOK, StateTypeOK, RunningHome
<1>3. \A p \in Pids : table[p] = IF p = current_pid THEN "READY" ELSE proc_state[p]
  BY <1>1, <1>2 DEF TypeOK, StateTypeOK
<1>4. current_pid \notin Elements(ready_queue)
  BY <1>1, <1>2 DEF ReadyHome
<1>5. /\ queue \in Seq(Pids)
      /\ Elements(queue) = Elements(ready_queue) \cup {current_pid}
      /\ NoDuplicates(queue)
  BY <1>1, <1>2, <1>4, AppendElements, AppendNoDuplicates DEF TypeOK, StateTypeOK, ReadyHome
<1>6. table \in [Pids -> ProcessStates]
  BY <1>1 DEF TypeOK, StateTypeOK, ProcessStates
<1> QED
  BY <1>1, <1>2, <1>3, <1>4, <1>5, <1>6 DEF Schedulable, ReadyHome, RunningHome

\* The process whose read is done waited for it and for nothing else; an idle
\* processor can be given to it.
LEMMA AwakenFacts ==
  ASSUME IInv, outcome = "up", NEW pid \in Pids, NEW kind \in IOKinds, IOComplete(pid, kind)
  PROVE  /\ pid \in Requesting
         /\ proc_state[pid] = "BLOCKED"
         /\ pid \notin Elements(ready_queue)
         /\ Requesting' = Requesting \ {pid}
         /\ Elements(Append(ready_queue, pid)) = Elements(ready_queue) \cup {pid}
         /\ Append(ready_queue, pid) \in Seq(Pids)
         /\ NoDuplicates(Append(ready_queue, pid))
         /\ current_pid = IDLE_PROCESS =>
              Schedulable([proc_state EXCEPT ![pid] = "READY"], Append(ready_queue, pid))
<1> DEFINE table == [proc_state EXCEPT ![pid] = "READY"]
           queue == Append(ready_queue, pid)
<1>1. TypeOK /\ RunningHome /\ ReadyHome /\ BlockedHome /\ WaitingApart
  BY DEF IInv, OneHome
<1>2. pid \in Requesting /\ Requesting' = Requesting \ {pid}
  <2>1. <<pid, kind>>[1] = pid
    OBVIOUS
  <2>2. \A r \in io_pending : r[1] = pid <=> r = <<pid, kind>>
    BY <1>1, <2>1 DEF WaitingApart, IOComplete
  <2>3. pid \in Requesting /\ pid \notin Requesting' /\ Requesting' \subseteq Requesting
    BY <2>1, <2>2 DEF IOComplete, Requesting
  <2>4. ASSUME NEW p \in Requesting, p # pid
        PROVE  p \in Requesting'
    <3>1. PICK r \in io_pending : r[1] = p
      BY <2>4 DEF Requesting
    <3>2. r \in io_pending'
      BY <2>1, <2>4, <3>1 DEF IOComplete
    <3> QED
      BY <3>1, <3>2 DEF Requesting
  <2> QED
    BY <2>3, <2>4
<1>3. proc_state[pid] = "BLOCKED" /\ pid \notin Elements(ready_queue)
  BY <1>1, <1>2 DEF BlockedHome, ReadyHome
<1>5. \A p \in Pids : table[p] = IF p = pid THEN "READY" ELSE proc_state[p]
  BY <1>1 DEF TypeOK, StateTypeOK
<1>6. /\ queue \in Seq(Pids)
      /\ Elements(queue) = Elements(ready_queue) \cup {pid}
      /\ NoDuplicates(queue)
      /\ table \in [Pids -> ProcessStates]
  BY <1>1, <1>3, AppendElements, AppendNoDuplicates DEF TypeOK, StateTypeOK, ReadyHome, ProcessStates
<1>7. current_pid = IDLE_PROCESS => Schedulable(table, queue)
  BY <1>1, <1>3, <1>5, <1>6, IdleAssumption DEF Schedulable, ReadyHome, RunningHome
<1> QED
  BY <1>2, <1>3, <1>6, <1>7

\* DISK_READ and KEYBOARD_READ.
LEMMA BlockForIOStep ==
  ASSUME IInv, Trap, NEW kind \in IOKinds, BlockForIO(kind)
  PROVE  IInv'
<1> DEFINE table == [proc_state EXCEPT ![current_pid] = "BLOCKED"]
<1>1. /\ outcome = "up"
      /\ current_pid \in Pids
      /\ proc_state[current_pid] = "RUNNING"
      /\ ~ Waits(current_pid)
      /\ Schedulable(table, ready_queue)
  BY TrapFacts
<1>2. TypeOK /\ BlockedHome /\ WaitingApart /\ CountersAgree /\ WaitersFindNoUnit
  BY <1>1 DEF IInv, OneHome
<1>3. \A p \in Pids : table[p] = IF p = current_pid THEN "BLOCKED" ELSE proc_state[p]
  BY <1>1, <1>2 DEF TypeOK, StateTypeOK
<1>4. /\ io_pending' \in SUBSET (Pids \X IOKinds)
      /\ Cardinality(io_pending') = Cardinality(io_pending) + 1
      /\ WaitingApart'
      /\ \A p \in Pids : Waits(p)' <=> Waits(p) \/ p = current_pid
  BY <1>1, <1>2, RequestWaits DEF BlockForIO, TypeOK
<1>5. /\ schedule(table, ready_queue, active_processes', io_processes')
      /\ HardwareTypeOK'
      /\ cpu_time' \in [Pids -> 0 .. INT_MOD - 1]
      /\ sem_value' \in [SemIds -> 0 .. MaxSemValue]
      /\ sem_queue' \in [SemIds -> Seq(Pids)]
      /\ current_quantum_start_time' \in Times
  BY <1>1, <1>2, <1>4, ChargedTimeType DEF BlockForIO, TypeOK, StateTypeOK, HardwareTypeOK
<1>6. active_processes' = Cardinality({p \in Pids : table[p] # "UNINITIALIZED"})
  <2>1. {p \in Pids : table[p] # "UNINITIALIZED"} = Live
    BY <1>1, <1>3 DEF Live
  <2> QED
    BY <2>1, <1>1, <1>2 DEF BlockForIO, CountersAgree
<1>7. io_processes' = Cardinality(io_pending')
  BY <1>1, <1>2, <1>4 DEF BlockForIO, CountersAgree
<1>8. \A p \in Pids : table[p] = "BLOCKED" <=> Waits(p)'
  BY <1>2, <1>3, <1>4 DEF BlockedHome, Waits
<1>9. WaitersFindNoUnit'
  BY <1>2 DEF BlockForIO, WaitersFindNoUnit
<1> QED
  BY <1>1, <1>2, <1>4, <1>5, <1>6, <1>7, <1>8, <1>9, ScheduleKeepsIInv

\* FORK_PROGRAM.
LEMMA ForkStep ==
  ASSUME IInv, NEW pid \in Pids, handle_fork(pid)
  PROVE  IInv'
<1>1. /\ outcome = "up" /\ outcome' = "up"
      /\ current_pid \in Pids /\ current_pid' = current_pid
      /\ proc_state[current_pid] = "RUNNING"
  BY TrapFacts DEF handle_fork
<1>2. /\ TypeOK /\ RunningHome /\ ReadyHome /\ BlockedHome /\ WaitingApart
      /\ CountersAgree /\ WaitersFindNoUnit
  BY <1>1 DEF IInv, OneHome
<1>3. \A p \in Pids : proc_state'[p] = IF p = pid THEN "READY" ELSE proc_state[p]
  BY <1>2 DEF handle_fork, TypeOK, StateTypeOK
<1>4. proc_state[pid] = "UNINITIALIZED"
  BY DEF handle_fork
<1>5. /\ ready_queue' \in Seq(Pids)
      /\ Elements(ready_queue') = Elements(ready_queue) \cup {pid}
      /\ NoDuplicates(ready_queue')
  <2>1. pid \notin Elements(ready_queue)
    BY <1>2, <1>4 DEF ReadyHome
  <2> QED
    BY <2>1, <1>2, AppendElements, AppendNoDuplicates
       DEF handle_fork, enqueue, ReadyHome, TypeOK, StateTypeOK
<1>6. TypeOK'
  <2>1. proc_state' \in [Pids -> ProcessStates]
    BY <1>2 DEF handle_fork, TypeOK, StateTypeOK, ProcessStates
  <2>2. cpu_time' \in [Pids -> 0 .. INT_MOD - 1]
    BY <1>2, IntModAssumption DEF handle_fork, TypeOK, StateTypeOK
  <2> QED
    BY <1>2, <1>5, <2>1, <2>2 DEF handle_fork, TypeOK, StateTypeOK, HardwareTypeOK, hardwareVars
<1>7. OneHome'
  <2>1. RunningHome'
    BY <1>1, <1>2, <1>3, <1>4 DEF RunningHome
  <2>2. ReadyHome'
    BY <1>2, <1>3, <1>5 DEF ReadyHome
  <2>3. BlockedHome'
    BY <1>2, <1>3, <1>4 DEF BlockedHome, Requesting, handle_fork, hardwareVars
  <2>4. WaitingApart'
    BY <1>2 DEF WaitingApart, Requesting, handle_fork, hardwareVars
  <2> QED
    BY <2>1, <2>2, <2>3, <2>4 DEF OneHome
<1>8. CountersAgree'
  <2>1. Live' = Live \cup {pid} /\ pid \notin Live
    BY <1>3, <1>4 DEF Live
  <2>2. IsFiniteSet(Live)
    BY PidsAssumption, FS_Subset DEF Live
  <2>3. Cardinality(Live') = Cardinality(Live) + 1
    BY <2>1, <2>2, FS_AddElement
  <2>4. /\ active_processes' = active_processes + 1
        /\ io_processes' = io_processes
        /\ io_pending' = io_pending
    BY DEF handle_fork, hardwareVars
  <2> QED
    BY <1>1, <1>2, <2>3, <2>4 DEF CountersAgree
<1>9. WaitersFindNoUnit'
  BY <1>2 DEF WaitersFindNoUnit, handle_fork
<1>10. VerdictIsTrue'
  BY <1>1, IdleAssumption DEF VerdictIsTrue
<1> QED
  BY <1>6, <1>7, <1>8, <1>9, <1>10 DEF IInv

\* END_PROGRAM.
LEMMA KillStep ==
  ASSUME IInv, handle_kill
  PROVE  IInv'
<1> DEFINE table == [proc_state EXCEPT ![current_pid] = "UNINITIALIZED"]
<1>1. /\ outcome = "up"
      /\ current_pid \in Pids
      /\ proc_state[current_pid] = "RUNNING"
      /\ ~ Waits(current_pid)
      /\ Schedulable(table, ready_queue)
  BY TrapFacts DEF handle_kill
<1>2. TypeOK /\ BlockedHome /\ WaitingApart /\ CountersAgree /\ WaitersFindNoUnit
  BY <1>1 DEF IInv, OneHome
<1>3. \A p \in Pids : table[p] = IF p = current_pid THEN "UNINITIALIZED" ELSE proc_state[p]
  BY <1>1, <1>2 DEF TypeOK, StateTypeOK
<1>4. /\ schedule(table, ready_queue, active_processes', io_processes')
      /\ HardwareTypeOK'
      /\ cpu_time' \in [Pids -> 0 .. INT_MOD - 1]
      /\ sem_value' \in [SemIds -> 0 .. MaxSemValue]
      /\ sem_queue' \in [SemIds -> Seq(Pids)]
      /\ current_quantum_start_time' \in Times
  BY <1>1, <1>2, ChargedTimeType DEF handle_kill, hardwareVars, TypeOK, StateTypeOK, HardwareTypeOK
<1>5. active_processes' = Cardinality({p \in Pids : table[p] # "UNINITIALIZED"})
  <2>1. {p \in Pids : table[p] # "UNINITIALIZED"} = Live \ {current_pid}
    BY <1>3 DEF Live
  <2>2. current_pid \in Live
    BY <1>1 DEF Live
  <2>3. IsFiniteSet(Live)
    BY PidsAssumption, FS_Subset DEF Live
  <2> QED
    BY <2>1, <2>2, <2>3, <1>1, <1>2, FS_RemoveElement DEF handle_kill, CountersAgree
<1>6. io_processes' = Cardinality(io_pending')
  BY <1>1, <1>2 DEF handle_kill, hardwareVars, CountersAgree
<1>7. \A p \in Pids : table[p] = "BLOCKED" <=> Waits(p)'
  BY <1>1, <1>2, <1>3 DEF handle_kill, hardwareVars, BlockedHome, Requesting, Waits
<1>8. WaitingApart' /\ WaitersFindNoUnit'
  BY <1>2 DEF handle_kill, hardwareVars, WaitingApart, WaitersFindNoUnit, Requesting
<1> QED
  BY <1>1, <1>2, <1>4, <1>5, <1>6, <1>7, <1>8, ScheduleKeepsIInv

\* SEMAPHORE_OP, UP with a waiter.
LEMMA WakeStep ==
  ASSUME IInv, NEW s \in SemIds, semaphore_wake(s)
  PROVE  IInv'
<1> DEFINE pid == Head(sem_queue[s])
<1>1. /\ outcome = "up" /\ outcome' = "up"
      /\ current_pid \in Pids /\ current_pid' = current_pid
      /\ proc_state[current_pid] = "RUNNING"
  BY TrapFacts DEF semaphore_wake
<1>2. /\ TypeOK /\ RunningHome /\ ReadyHome /\ BlockedHome /\ WaitingApart
      /\ CountersAgree /\ WaitersFindNoUnit
  BY <1>1 DEF IInv, OneHome
<1>3. /\ pid \in Pids
      /\ sem_queue' \in [SemIds -> Seq(Pids)]
      /\ \A t \in SemIds : sem_queue'[t] = IF t = s THEN Tail(sem_queue[s]) ELSE sem_queue[t]
      /\ Waits(pid)
      /\ WaitingApart'
      /\ \A p \in Pids : Waits(p)' <=> Waits(p) /\ p # pid
  BY <1>2, DequeueWaits DEF semaphore_wake, hardwareVars, TypeOK
<1>4. proc_state[pid] = "BLOCKED"
  BY <1>2, <1>3 DEF BlockedHome, Waits
<1>5. \A p \in Pids : proc_state'[p] = IF p = pid THEN "READY" ELSE proc_state[p]
  BY <1>2, <1>3 DEF semaphore_wake, TypeOK, StateTypeOK
<1>7. /\ ready_queue' \in Seq(Pids)
      /\ Elements(ready_queue') = Elements(ready_queue) \cup {pid}
      /\ NoDuplicates(ready_queue')
  <2>1. pid \notin Elements(ready_queue)
    BY <1>2, <1>3, <1>4 DEF ReadyHome
  <2> QED
    BY <2>1, <1>2, <1>3, AppendElements, AppendNoDuplicates
       DEF semaphore_wake, enqueue, ReadyHome, TypeOK, StateTypeOK
<1>8. TypeOK'
  <2>1. proc_state' \in [Pids -> ProcessStates]
    BY <1>2, <1>3 DEF semaphore_wake, TypeOK, StateTypeOK, ProcessStates
  <2> QED
    BY <1>2, <1>3, <1>7, <2>1 DEF semaphore_wake, TypeOK, StateTypeOK, HardwareTypeOK, hardwareVars
<1>9. io_pending' = io_pending
  BY DEF semaphore_wake, hardwareVars
<1>10. OneHome'
  <2>1. RunningHome'
    BY <1>1, <1>2, <1>3, <1>4, <1>5 DEF RunningHome
  <2>2. ReadyHome'
    BY <1>2, <1>3, <1>5, <1>7 DEF ReadyHome
  <2>3. BlockedHome'
    BY <1>2, <1>3, <1>5 DEF BlockedHome, Waits
  <2> QED
    BY <1>3, <2>1, <2>2, <2>3 DEF OneHome
<1>11. CountersAgree'
  <2>1. Live' = Live
    BY <1>4, <1>5 DEF Live
  <2> QED
    BY <1>1, <1>2, <1>9, <2>1 DEF CountersAgree, semaphore_wake
<1>12. WaitersFindNoUnit'
  BY <1>2, <1>3 DEF WaitersFindNoUnit, semaphore_wake
<1>13. VerdictIsTrue'
  BY <1>1, IdleAssumption DEF VerdictIsTrue
<1> QED
  BY <1>8, <1>10, <1>11, <1>12, <1>13 DEF IInv

\* SEMAPHORE_OP that changes the value: UP with nobody waiting, DOWN with a unit.
LEMMA ValueStep ==
  ASSUME IInv, NEW s \in SemIds, semaphore_up(s) \/ semaphore_down(s)
  PROVE  IInv'
<1>1. outcome = "up" /\ current_pid \in Pids
  BY TrapFacts DEF semaphore_up, semaphore_down
<1>2. /\ TypeOK /\ RunningHome /\ ReadyHome /\ BlockedHome /\ WaitingApart
      /\ CountersAgree /\ WaitersFindNoUnit
  BY <1>1 DEF IInv, OneHome
<1>3. UNCHANGED <<hardwareVars, current_pid, proc_state, cpu_time, ready_queue, sem_queue,
                  current_quantum_start_time, active_processes, io_processes, outcome>>
  BY DEF semaphore_up, semaphore_down
<1>4. /\ sem_value' \in [SemIds -> 0 .. MaxSemValue]
      /\ sem_queue[s] = <<>>
      /\ \A t \in SemIds : t # s => sem_value'[t] = sem_value[t]
  <2>1. sem_queue[s] = <<>>
    BY <1>2 DEF semaphore_up, semaphore_down, WaitersFindNoUnit
  <2>2. sem_value \in [SemIds -> 0 .. MaxSemValue] /\ MaxSemValue \in Nat
    BY <1>2, SemaphoreAssumption DEF TypeOK, StateTypeOK
  <2>3. CASE semaphore_up(s)
    BY <2>1, <2>2, <2>3 DEF semaphore_up
  <2>4. CASE semaphore_down(s)
    BY <2>1, <2>2, <2>4 DEF semaphore_down
  <2> QED
    BY <2>3, <2>4
<1>5. TypeOK'
  BY <1>2, <1>3, <1>4 DEF TypeOK, StateTypeOK, HardwareTypeOK, hardwareVars
<1>6. OneHome' /\ CountersAgree'
  BY <1>2, <1>3 DEF OneHome, RunningHome, ReadyHome, BlockedHome, WaitingApart,
                    CountersAgree, Live, Requesting, hardwareVars
<1>7. WaitersFindNoUnit'
  BY <1>2, <1>3, <1>4 DEF WaitersFindNoUnit
<1>8. VerdictIsTrue'
  BY <1>1, <1>3, IdleAssumption DEF VerdictIsTrue
<1> QED
  BY <1>5, <1>6, <1>7, <1>8 DEF IInv

\* SEMAPHORE_OP, DOWN without a unit.
LEMMA WaitStep ==
  ASSUME IInv, NEW s \in SemIds, semaphore_wait(s)
  PROVE  IInv'
<1> DEFINE table == [proc_state EXCEPT ![current_pid] = "BLOCKED"]
<1>1. /\ outcome = "up"
      /\ current_pid \in Pids
      /\ proc_state[current_pid] = "RUNNING"
      /\ ~ Waits(current_pid)
      /\ Schedulable(table, ready_queue)
  BY TrapFacts DEF semaphore_wait
<1>2. TypeOK /\ BlockedHome /\ WaitingApart /\ CountersAgree /\ WaitersFindNoUnit
  BY <1>1 DEF IInv, OneHome
<1>3. \A p \in Pids : table[p] = IF p = current_pid THEN "BLOCKED" ELSE proc_state[p]
  BY <1>1, <1>2 DEF TypeOK, StateTypeOK
<1>4. /\ sem_queue' \in [SemIds -> Seq(Pids)]
      /\ \A t \in SemIds : sem_queue'[t] = IF t = s THEN Append(sem_queue[s], current_pid)
                                           ELSE sem_queue[t]
      /\ WaitingApart'
      /\ \A p \in Pids : Waits(p)' <=> Waits(p) \/ p = current_pid
  BY <1>1, <1>2, EnqueueWaits DEF semaphore_wait, enqueue, hardwareVars, TypeOK
<1>5. \A p \in Pids : table[p] = "BLOCKED" <=> Waits(p)'
  BY <1>2, <1>3, <1>4 DEF BlockedHome, Waits
<1>6. /\ schedule(table, ready_queue, active_processes', io_processes')
      /\ HardwareTypeOK'
      /\ cpu_time' \in [Pids -> 0 .. INT_MOD - 1]
      /\ sem_value' \in [SemIds -> 0 .. MaxSemValue]
      /\ sem_queue' \in [SemIds -> Seq(Pids)]
      /\ current_quantum_start_time' \in Times
  BY <1>1, <1>2, <1>4, ChargedTimeType
     DEF semaphore_wait, enqueue, hardwareVars, TypeOK, StateTypeOK, HardwareTypeOK
<1>7. active_processes' = Cardinality({p \in Pids : table[p] # "UNINITIALIZED"})
  <2>1. {p \in Pids : table[p] # "UNINITIALIZED"} = Live
    BY <1>1, <1>3 DEF Live
  <2> QED
    BY <2>1, <1>1, <1>2 DEF semaphore_wait, CountersAgree
<1>8. io_processes' = Cardinality(io_pending')
  BY <1>1, <1>2 DEF semaphore_wait, hardwareVars, CountersAgree
<1>9. WaitersFindNoUnit'
  BY <1>2, <1>4 DEF semaphore_wait, WaitersFindNoUnit
<1> QED
  BY <1>1, <1>2, <1>4, <1>5, <1>6, <1>7, <1>8, <1>9, ScheduleKeepsIInv

\* CLOCK_INTERRUPT.
LEMMA ClockInterruptStep ==
  ASSUME IInv, handle_clock_interrupt
  PROVE  IInv'
<1> DEFINE table == [proc_state EXCEPT ![current_pid] = "READY"]
           queue == Append(ready_queue, current_pid)
<1>1. /\ outcome = "up"
      /\ TypeOK /\ RunningHome /\ ReadyHome /\ BlockedHome /\ WaitingApart
      /\ CountersAgree /\ WaitersFindNoUnit /\ VerdictIsTrue
  BY DEF IInv, OneHome, handle_clock_interrupt
<1>2. HardwareTypeOK' /\ UNCHANGED <<clock, io_pending>>
  BY <1>1 DEF handle_clock_interrupt, RaiseTimer, TypeOK, StateTypeOK, HardwareTypeOK, Phases
<1>3. CASE UNCHANGED kernelVars
  BY <1>1, <1>2, <1>3 DEF kernelVars, IInv, TypeOK, StateTypeOK, OneHome, RunningHome, ReadyHome, BlockedHome,
       WaitingApart, CountersAgree, WaitersFindNoUnit, VerdictIsTrue, Live, Requesting
<1>4. CASE /\ QuantumExpired
           /\ cpu_time' = ChargedTime(current_pid)
           /\ schedule(table, queue, active_processes, io_processes)
           /\ current_quantum_start_time' = clock
           /\ UNCHANGED <<sem_value, sem_queue, active_processes, io_processes>>
  <2>1. /\ current_pid \in Pids
        /\ proc_state[current_pid] = "RUNNING"
        /\ Schedulable(table, queue)
    BY <1>1, <1>4, PreemptFacts
  <2>2. \A p \in Pids : table[p] = IF p = current_pid THEN "READY" ELSE proc_state[p]
    BY <1>1, <2>1 DEF TypeOK, StateTypeOK
  <2>4. /\ schedule(table, queue, active_processes', io_processes')
        /\ cpu_time' \in [Pids -> 0 .. INT_MOD - 1]
        /\ sem_value' \in [SemIds -> 0 .. MaxSemValue]
        /\ sem_queue' \in [SemIds -> Seq(Pids)]
        /\ current_quantum_start_time' \in Times
    BY <1>1, <1>4, <2>1, ChargedTimeType DEF TypeOK, StateTypeOK, HardwareTypeOK
  <2>5. active_processes' = Cardinality({p \in Pids : table[p] # "UNINITIALIZED"})
    <3>1. {p \in Pids : table[p] # "UNINITIALIZED"} = Live
      BY <2>1, <2>2 DEF Live
    <3> QED
      BY <3>1, <1>1, <1>4 DEF CountersAgree
  <2>6. io_processes' = Cardinality(io_pending') /\ Requesting' = Requesting
    BY <1>1, <1>2, <1>4 DEF CountersAgree, Requesting
  <2>7. \A p \in Pids : table[p] = "BLOCKED" <=> Waits(p)'
    BY <1>1, <1>4, <2>1, <2>2, <2>6 DEF BlockedHome, Waits
  <2>8. WaitingApart' /\ WaitersFindNoUnit'
    BY <1>1, <1>2, <1>4, <2>6 DEF WaitingApart, WaitersFindNoUnit
  <2> QED
    BY <1>1, <1>2, <2>1, <2>4, <2>5, <2>6, <2>7, <2>8, ScheduleKeepsIInv
<1> QED
  BY <1>3, <1>4 DEF handle_clock_interrupt, enqueue

\* DISK_INTERRUPT and KEYBOARD_INTERRUPT.
LEMMA WakeFromIOStep ==
  ASSUME IInv, outcome = "up", NEW pid \in Pids, NEW kind \in IOKinds,
         IOComplete(pid, kind), WakeFromIO(pid)
  PROVE  IInv'
<1> DEFINE table == [proc_state EXCEPT ![pid] = "READY"]
           queue == Append(ready_queue, pid)
<1>1. /\ TypeOK /\ RunningHome /\ ReadyHome /\ BlockedHome /\ WaitingApart
      /\ CountersAgree /\ WaitersFindNoUnit /\ VerdictIsTrue
  BY DEF IInv, OneHome
<1>2. UNCHANGED <<clock, phase, sem_queue>>
  BY DEF IOComplete, WakeFromIO
<1>3. pid \in Requesting /\ proc_state[pid] = "BLOCKED"
  BY AwakenFacts
<1>4. /\ io_pending' \in SUBSET (Pids \X IOKinds)
      /\ Cardinality(io_pending') = Cardinality(io_pending) - 1
      /\ WaitingApart'
      /\ \A p \in Pids : Waits(p)' <=> Waits(p) /\ p # pid
  BY <1>1, <1>2, CompletionWaits DEF TypeOK
<1>5. \A p \in Pids : table[p] = IF p = pid THEN "READY" ELSE proc_state[p]
  BY <1>1 DEF TypeOK, StateTypeOK
<1>6. /\ queue \in Seq(Pids)
      /\ Elements(queue) = Elements(ready_queue) \cup {pid}
      /\ NoDuplicates(queue)
      /\ table \in [Pids -> ProcessStates]
      /\ HardwareTypeOK'
  BY <1>1, <1>2, <1>4, AwakenFacts DEF TypeOK, StateTypeOK, ProcessStates, HardwareTypeOK
<1>7. {p \in Pids : table[p] # "UNINITIALIZED"} = Live
  BY <1>3, <1>5 DEF Live
<1>8. active_processes' = Cardinality(Live) /\ UNCHANGED <<cpu_time, sem_value, sem_queue>>
  BY <1>1 DEF CountersAgree, WakeFromIO
<1>9. io_processes' = io_processes - 1 /\ io_processes' = Cardinality(io_pending')
  BY <1>1, <1>4 DEF CountersAgree, WakeFromIO
<1>10. \A p \in Pids : table[p] = "BLOCKED" <=> Waits(p)'
  BY <1>1, <1>4, <1>5 DEF BlockedHome, Waits
<1>11. WaitingApart' /\ WaitersFindNoUnit'
  BY <1>1, <1>4, <1>8 DEF WaitersFindNoUnit
<1>12. CASE current_pid = IDLE_PROCESS
  <2>1. current_quantum_start_time' = clock /\ schedule(table, queue, active_processes', io_processes')
    BY <1>8, <1>9, <1>12 DEF WakeFromIO, enqueue
  <2>2. Schedulable(table, queue)
    BY <1>12, AwakenFacts
  <2> QED
    BY <1>1, <1>6, <1>7, <1>8, <1>9, <1>10, <1>11, <2>1, <2>2, ScheduleKeepsIInv
       DEF TypeOK, StateTypeOK, HardwareTypeOK
<1>13. CASE current_pid # IDLE_PROCESS
  <2>1. proc_state' = table /\ ready_queue' = queue
        /\ UNCHANGED <<current_pid, current_quantum_start_time, outcome, active_processes>>
    BY <1>13 DEF WakeFromIO, enqueue
  <2>2. TypeOK'
    BY <1>1, <1>6, <1>8, <1>9, <2>1 DEF TypeOK, StateTypeOK
  <2>3. RunningHome' /\ ReadyHome' /\ BlockedHome'
    BY <1>1, <1>3, <1>5, <1>6, <1>10, <2>1 DEF RunningHome, ReadyHome, BlockedHome, Waits
  <2>4. CountersAgree'
    <3>1. Live' = Live
      BY <1>7, <2>1 DEF Live
    <3> QED
      BY <1>8, <1>9, <3>1 DEF CountersAgree
  <2>5. VerdictIsTrue'
    BY <1>13, <2>1 DEF VerdictIsTrue
  <2> QED
    BY <1>11, <2>2, <2>3, <2>4, <2>5 DEF IInv, OneHome
<1> QED
  BY <1>12, <1>13

\* A step that touches neither the kernel's state nor the requests.
LEMMA OtherStep ==
  ASSUME IInv, UNCHANGED <<kernelVars, io_pending>>, HardwareTypeOK'
  PROVE  IInv'
  BY DEF IInv, kernelVars, TypeOK, StateTypeOK, OneHome, RunningHome, ReadyHome, BlockedHome, WaitingApart,
         CountersAgree, WaitersFindNoUnit, VerdictIsTrue, Live, Requesting

-----------------------------------------------------------------------------
\* initialize_kernel establishes the invariant.
LEMMA InitIInv == Init => IInv
<1> SUFFICES ASSUME Init PROVE IInv
  OBVIOUS
<1> USE DEF Init, HardwareInit, initialize_kernel, initialize_state
<1>1. TypeOK
  BY InitPidAssumption, ClockAssumption, IntModAssumption, SemaphoreAssumption
     DEF TypeOK, StateTypeOK, HardwareTypeOK, Times, Phases, ProcessStates, Outcomes
<1>2. OneHome
  BY IdleAssumption DEF OneHome, RunningHome, ReadyHome, BlockedHome, WaitingApart,
     Elements, NoDuplicates, Requesting
<1>3. CountersAgree
  <2>1. Live = {InitPid}
    BY InitPidAssumption DEF Live
  <2> QED
    BY <2>1, FS_Singleton, FS_EmptySet DEF CountersAgree
<1>4. WaitersFindNoUnit /\ VerdictIsTrue
  BY InitPidAssumption, IdleAssumption DEF WaitersFindNoUnit, VerdictIsTrue
<1> QED
  BY <1>1, <1>2, <1>3, <1>4 DEF IInv

\* Every step of the machine keeps the invariant.
LEMMA NextIInv == IInv /\ [Next]_vars => IInv'
<1> SUFFICES ASSUME IInv, [Next]_vars PROVE IInv'
  OBVIOUS
<1>1. CASE handle_disk_read
  BY <1>1, BlockForIOStep DEF handle_disk_read, IOKinds
<1>2. CASE handle_keyboard
  BY <1>2, BlockForIOStep DEF handle_keyboard, IOKinds
<1>3. CASE \E pid \in Pids : handle_fork(pid)
  BY <1>3, ForkStep
<1>4. CASE handle_kill
  BY <1>4, KillStep
<1>5. CASE \E s \in SemIds : handle_semaphore(s)
  BY <1>5, WakeStep, ValueStep, WaitStep DEF handle_semaphore
<1>6. CASE handle_clock_interrupt
  BY <1>6, ClockInterruptStep
<1>7. CASE \E pid \in Pids : handle_disk_interrupt(pid) \/ handle_keyboard_interrupt(pid)
  BY <1>7, WakeFromIOStep DEF handle_disk_interrupt, handle_keyboard_interrupt, IOKinds
<1>8. CASE Tick
  <2>1. HardwareTypeOK
    BY DEF IInv, TypeOK, StateTypeOK
  <2>2. clock' \in Times
    BY <1>8, <2>1, ModRange, ClockAssumption
       DEF Tick, EndRun, EndEvents, AdvanceClock, HardwareTypeOK, Times
  <2>3. phase' \in Phases /\ UNCHANGED io_pending
    BY <1>8 DEF Tick, EndRun, EndEvents, AdvanceClock, Phases
  <2> QED
    BY <1>8, <2>1, <2>2, <2>3, OtherStep DEF Tick, HardwareTypeOK
<1>9. CASE UNCHANGED vars
  BY <1>9, OtherStep DEF vars, hardwareVars, IInv, TypeOK, StateTypeOK, HardwareTypeOK
<1> QED
  BY <1>1, <1>2, <1>3, <1>4, <1>5, <1>6, <1>7, <1>8, <1>9
     DEF Next, handle_trap, Interrupt, Exited, disk_write

\* The inductive invariant holds in every state the kernel reaches.
THEOREM Invariance == Spec => []IInv
<1> QED
  BY InitIInv, NextIInv, PTL DEF Spec

\* Every variable keeps its type, for any number of processes and semaphores.
THEOREM TypeCorrect == Spec => []TypeOK
<1>1. IInv => TypeOK
  BY DEF IInv
<1> QED
  BY <1>1, Invariance, PTL

\* Every live process is in exactly one place, the one its table entry says.
THEOREM OneHomeHolds == Spec => []OneHome
<1>1. IInv => OneHome
  BY DEF IInv
<1> QED
  BY <1>1, Invariance, PTL

\* The counters schedule() decides with never drift.
THEOREM CountersHold == Spec => []CountersAgree
<1>1. IInv => CountersAgree
  BY DEF IInv
<1> QED
  BY <1>1, Invariance, PTL

\* The simulation ends with "no more processes" or "DEADLOCKED SYSTEM" exactly
\* when that is so, and the processor idles only with nothing to run.
THEOREM VerdictHolds == Spec => []VerdictIsTrue
<1>1. IInv => VerdictIsTrue
  BY DEF IInv
<1> QED
  BY <1>1, Invariance, PTL

\* Nobody waits on a semaphore that has a unit.
THEOREM WaitersHold == Spec => []WaitersFindNoUnit
<1>1. IInv => WaitersFindNoUnit
  BY DEF IInv
<1> QED
  BY <1>1, Invariance, PTL

-----------------------------------------------------------------------------
(* CPU accounts.                                                           *)

\* What a step does to the accounts.
Charged ==
  \A p \in Pids :
    Used(p)' = IF phase = "advance" /\ p = current_pid THEN (Used(p) + 1) % INT_MOD
               ELSE IF p \notin Live /\ p \in Live' THEN 0
               ELSE Used(p)

\* Giving the processor away changes no account and starts no process.
LEMMA ScheduleCharges ==
  ASSUME IInv, IInv', outcome = "up", phase # "advance",
         NEW table, NEW queue, NEW active \in Int, NEW io \in Int,
         Schedulable(table, queue), schedule(table, queue, active, io),
         \A p \in Pids : proc_state[p] = "UNINITIALIZED" => table[p] = "UNINITIALIZED",
         UNCHANGED clock, current_quantum_start_time' = clock,
         cpu_time' = IF current_pid = IDLE_PROCESS THEN cpu_time ELSE ChargedTime(current_pid)
  PROVE  Charged
<1>1. StateTypeOK /\ StateTypeOK'
  BY DEF IInv, TypeOK
<1>2. \A p \in Pids : Used(p)' = Used(p)
  BY <1>1, ChargeKeepsUsed
<1>3. \A p \in Pids : proc_state'[p] = "UNINITIALIZED" <=> table[p] = "UNINITIALIZED"
  BY <1>1, ScheduleOutcome DEF StateTypeOK
<1>4. Live' \subseteq Live
  BY <1>3 DEF Live
<1> QED
  BY <1>2, <1>4 DEF Charged

\* A trap that blocks or ends the running process charges it.
LEMMA TrapCharges ==
  ASSUME IInv, IInv', Trap, NEW state \in {"BLOCKED", "UNINITIALIZED"},
         NEW active \in Int, NEW io \in Int,
         schedule([proc_state EXCEPT ![current_pid] = state], ready_queue, active, io),
         UNCHANGED clock, current_quantum_start_time' = clock,
         cpu_time' = ChargedTime(current_pid)
  PROVE  Charged
<1> DEFINE table == [proc_state EXCEPT ![current_pid] = state]
<1>1. /\ outcome = "up"
      /\ current_pid \in Pids
      /\ proc_state[current_pid] = "RUNNING"
      /\ Schedulable(table, ready_queue)
  BY TrapFacts
<1>2. phase # "advance" /\ current_pid # IDLE_PROCESS
  BY DEF Trap
<1>3. \A p \in Pids : proc_state[p] = "UNINITIALIZED" => table[p] = "UNINITIALIZED"
  BY <1>1 DEF IInv, TypeOK, StateTypeOK
<1> HIDE DEF table
<1>4. schedule(table, ready_queue, active, io)
  BY DEF table
<1> QED
  BY <1>1, <1>2, <1>3, <1>4, ScheduleCharges

\* A step that leaves the process table's live entries and the accounts alone.
LEMMA NothingCharged ==
  ASSUME phase # "advance", Live' = Live, UNCHANGED <<cpu_time, outcome, current_pid>>,
         UNCHANGED <<clock, current_quantum_start_time>>
  PROVE  Charged
  BY DEF Charged, Used, Elapsed

\* FORK_PROGRAM opens an account.
LEMMA ForkCharges ==
  ASSUME IInv, IInv', NEW pid \in Pids, handle_fork(pid)
  PROVE  Charged
<1>1. /\ outcome = "up" /\ phase = "run" /\ current_pid \in Pids
      /\ proc_state[current_pid] = "RUNNING" /\ proc_state[pid] = "UNINITIALIZED"
      /\ StateTypeOK /\ StateTypeOK'
  BY TrapFacts DEF handle_fork, Trap, IInv, TypeOK
<1>2. UNCHANGED <<clock, current_quantum_start_time, current_pid, outcome>>
  BY DEF handle_fork, hardwareVars
<1>3. \A p \in Pids : /\ cpu_time'[p] = IF p = pid THEN 0 ELSE cpu_time[p]
                      /\ proc_state'[p] = IF p = pid THEN "READY" ELSE proc_state[p]
  BY <1>1 DEF handle_fork, StateTypeOK
<1>4. \A p \in Pids \ {pid} : Used(p)' = Used(p)
  BY <1>2, <1>3 DEF Used, Elapsed
<1>5. Used(pid)' = 0
  <2>1. current_pid' # pid
    BY <1>1, <1>2
  <2>2. Used(pid)' = (0 + 0) % INT_MOD
    BY <1>3, <2>1 DEF Used
  <2> QED
    BY <2>2, ModSmall, IntModAssumption
<1>6. Live' = Live \cup {pid} /\ pid \notin Live
  BY <1>1, <1>3 DEF Live
<1> QED
  BY <1>1, <1>4, <1>5, <1>6 DEF Charged

\* Every step of the kernel and of the machine.
LEMMA NextCharges ==
  ASSUME IInv, IInv', Next, CLOCK_MOD % INT_MOD = 0
  PROVE  Charged \/ UNCHANGED vars
<1>0. /\ StateTypeOK /\ StateTypeOK'
      /\ outcome = "up" => active_processes \in Int /\ io_processes \in Int
  BY DEF IInv, TypeOK, StateTypeOK
<1>1. ASSUME NEW kind \in IOKinds, Trap, BlockForIO(kind)
      PROVE  Charged
  <2>1. active_processes \in Int /\ io_processes + 1 \in Int
    BY <1>0 DEF StateTypeOK
  <2> QED
    BY <1>1, <2>1, TrapCharges DEF BlockForIO
<1>2. CASE handle_kill
  <2>1. active_processes - 1 \in Int /\ io_processes \in Int
    BY <1>0 DEF StateTypeOK
  <2> QED
    BY <1>2, <2>1, TrapCharges DEF handle_kill, hardwareVars
<1>3. ASSUME NEW s \in SemIds, semaphore_wait(s)
      PROVE  Charged
  <2>1. active_processes \in Int /\ io_processes \in Int
    BY <1>0 DEF StateTypeOK
  <2> QED
    BY <1>3, <2>1, TrapCharges DEF semaphore_wait, hardwareVars
<1>4. ASSUME NEW s \in SemIds, semaphore_wake(s)
      PROVE  Charged
  <2>1. Head(sem_queue[s]) \in Pids
    BY <1>0, <1>4, HeadTail DEF semaphore_wake, StateTypeOK
  <2>2. Head(sem_queue[s]) \in Elements(sem_queue[s])
    BY <1>0, <1>4, HeadTail DEF semaphore_wake, StateTypeOK
  <2>3. proc_state[Head(sem_queue[s])] = "BLOCKED"
    BY <1>4, <2>1, <2>2 DEF semaphore_wake, Trap, IInv, OneHome, BlockedHome
  <2>4. Live' = Live
    BY <1>0, <1>4, <2>1, <2>3 DEF semaphore_wake, Live, StateTypeOK
  <2> QED
    BY <1>4, <2>4, NothingCharged DEF semaphore_wake, Trap, hardwareVars
<1>5. ASSUME NEW s \in SemIds, semaphore_up(s) \/ semaphore_down(s)
      PROVE  Charged
  <2>1. phase # "advance" /\ UNCHANGED <<hardwareVars, current_pid, proc_state, cpu_time,
                                         current_quantum_start_time, outcome>>
    BY <1>5 DEF semaphore_up, semaphore_down, Trap
  <2> QED
    BY <2>1, NothingCharged DEF Live, hardwareVars
<1>6. CASE handle_clock_interrupt
  <2>1. outcome = "up" /\ phase # "advance" /\ UNCHANGED clock
    BY <1>6 DEF handle_clock_interrupt, RaiseTimer
  <2>2. CASE UNCHANGED kernelVars
    BY <2>1, <2>2, NothingCharged DEF kernelVars, Live
  <2>3. CASE ~ UNCHANGED kernelVars
    <3> DEFINE table == [proc_state EXCEPT ![current_pid] = "READY"]
               queue == Append(ready_queue, current_pid)
    <3>1. /\ QuantumExpired
          /\ cpu_time' = ChargedTime(current_pid)
          /\ schedule(table, queue, active_processes, io_processes)
          /\ current_quantum_start_time' = clock
      BY <1>6, <2>3 DEF handle_clock_interrupt, enqueue
    <3>2. current_pid \in Pids /\ Schedulable(table, queue)
      BY <2>1, <3>1, PreemptFacts
    <3>3. \A p \in Pids : proc_state[p] = "UNINITIALIZED" => table[p] = "UNINITIALIZED"
      BY <2>1, <3>1, <3>2, PreemptFacts DEF IInv, TypeOK, StateTypeOK
    <3>4. current_pid # IDLE_PROCESS
      BY <3>2, IdleAssumption
    <3> HIDE DEF table, queue
    <3> QED
      BY <1>0, <2>1, <3>1, <3>2, <3>3, <3>4, ScheduleCharges
  <2> QED
    BY <2>2, <2>3
<1>7. ASSUME NEW pid \in Pids, handle_disk_interrupt(pid) \/ handle_keyboard_interrupt(pid)
      PROVE  Charged
  <2>1. PICK kind \in IOKinds : outcome = "up" /\ IOComplete(pid, kind) /\ WakeFromIO(pid)
    BY <1>7 DEF handle_disk_interrupt, handle_keyboard_interrupt, IOKinds
  <2>2. phase # "advance" /\ UNCHANGED <<clock, cpu_time>>
    BY <2>1 DEF IOComplete, WakeFromIO
  <2> DEFINE table == [proc_state EXCEPT ![pid] = "READY"]
             queue == Append(ready_queue, pid)
  <2>3. /\ proc_state[pid] = "BLOCKED"
        /\ current_pid = IDLE_PROCESS => Schedulable(table, queue)
    BY <2>1, AwakenFacts
  <2>4. \A p \in Pids : table[p] = IF p = pid THEN "READY" ELSE proc_state[p]
    BY <1>0 DEF StateTypeOK
  <2>5. CASE current_pid = IDLE_PROCESS
    <3>1. /\ current_quantum_start_time' = clock
          /\ schedule(table, queue, active_processes, io_processes - 1)
      BY <2>1, <2>5 DEF WakeFromIO, enqueue
    <3>2. active_processes \in Int /\ io_processes - 1 \in Int
      BY <1>0 DEF StateTypeOK
    <3> HIDE DEF table, queue
    <3> QED
      BY <2>1, <2>2, <2>3, <2>4, <2>5, <3>1, <3>2, ScheduleCharges
  <2>6. CASE current_pid # IDLE_PROCESS
    <3>1. proc_state' = table /\ UNCHANGED <<current_pid, current_quantum_start_time, outcome>>
      BY <2>1, <2>6 DEF WakeFromIO
    <3>2. Live' = Live
      BY <2>3, <2>4, <3>1 DEF Live
    <3> QED
      BY <2>2, <3>1, <3>2, NothingCharged
  <2> QED
    BY <2>5, <2>6
<1>8. CASE Tick
  <2>1. outcome = "up" /\ UNCHANGED kernelVars /\ Live' = Live
    BY <1>8 DEF Tick, kernelVars, Live
  <2>2. CASE EndRun \/ EndEvents
    BY <2>1, <2>2, NothingCharged DEF EndRun, EndEvents, kernelVars
  <2>3. CASE AdvanceClock
    <3>1. \A p \in Pids : Used(p)' = IF p = current_pid THEN (Used(p) + 1) % INT_MOD ELSE Used(p)
      BY <1>0, <2>1, <2>3, MillisecondCharged DEF kernelVars, AdvanceClock
    <3> QED
      BY <2>1, <2>3, <3>1 DEF Charged, AdvanceClock
  <2> QED
    BY <1>8, <2>2, <2>3 DEF Tick
<1>9. ASSUME NEW pid \in Pids, handle_fork(pid)
      PROVE  Charged
  BY <1>9, ForkCharges
<1> QED
  BY <1>1, <1>2, <1>3, <1>4, <1>5, <1>6, <1>7, <1>8, <1>9
     DEF Next, handle_trap, handle_semaphore, Interrupt, Exited, disk_write, handle_disk_read,
         handle_keyboard, IOKinds

\* CPU time is charged exactly, for any quantum and period, if the clock is a
\* whole number of times as wide as the accounts: in the code both are 32 bits.
THEOREM EveryMillisecondIsCharged ==
  ASSUME CLOCK_MOD % INT_MOD = 0
  PROVE  Spec => EveryMillisecondCharged
<1>1. IInv /\ IInv' /\ [Next]_vars => [Charged]_vars
  BY NextCharges
<1> QED
  BY <1>1, Invariance, PTL DEF Spec, EveryMillisecondCharged, Charged

-----------------------------------------------------------------------------
(* The order of the queues.                                                *)

\* enqueue puts a newcomer behind everybody.
LEMMA AppendKeepsOrder ==
  ASSUME NEW queue \in Seq(Pids), NEW pid \in Pids, pid \notin Elements(queue)
  PROVE  KeepsOrder(queue, Append(queue, pid))
<1> DEFINE new == Append(queue, pid)
<1>1. /\ Len(new) = Len(queue) + 1 /\ new[Len(queue) + 1] = pid
      /\ \A i \in 1 .. Len(queue) : i \in 1 .. Len(new) /\ new[i] = queue[i]
      /\ Len(queue) \in Nat
  OBVIOUS
<1>2. Elements(new) = Elements(queue) \cup {pid}
  BY AppendElements
<1> HIDE DEF new
<1>3. ASSUME NEW p \in Elements(queue), NEW q \in Pids, Ahead(p, q, queue)
      PROVE  Ahead(p, q, new)
  BY <1>1, <1>3 DEF Ahead
<1>4. ASSUME NEW p \in Elements(queue)
      PROVE  Ahead(p, pid, new)
  BY <1>1 DEF Elements, Ahead
<1> QED
  BY <1>2, <1>3, <1>4 DEF KeepsOrder, new

\* Dequeuing takes the first, who was ahead of everybody.
LEMMA TailKeepsOrder ==
  ASSUME NEW queue \in Seq(Pids), queue # <<>>, NoDuplicates(queue)
  PROVE  KeepsOrder(queue, Tail(queue))
<1> DEFINE new == Tail(queue)
<1>1. /\ Len(new) = Len(queue) - 1 /\ Len(queue) \in Nat \ {0}
      /\ \A i \in 1 .. Len(new) : new[i] = queue[i + 1]
      /\ Head(queue) = queue[1]
  OBVIOUS
<1>2. Elements(queue) = Elements(new) \cup {Head(queue)} /\ Head(queue) \notin Elements(new)
  BY HeadTail, HeadTailNoDuplicates
<1> HIDE DEF new
<1>3. ASSUME NEW p \in Elements(new), NEW q \in Pids, Ahead(p, q, queue)
      PROVE  Ahead(p, q, new)
  <2>1. PICK i, j \in 1 .. Len(queue) : i < j /\ queue[i] = p /\ queue[j] = q
    BY <1>3 DEF Ahead
  <2>2. i # 1
    BY <1>1, <1>2, <2>1
  <2>3. /\ i - 1 \in 1 .. Len(new) /\ j - 1 \in 1 .. Len(new) /\ i - 1 < j - 1
        /\ (i - 1) + 1 = i /\ (j - 1) + 1 = j
    BY <1>1, <2>1, <2>2
  <2>4. new[i - 1] = p /\ new[j - 1] = q
    BY <1>1, <2>1, <2>3
  <2> QED
    BY <2>3, <2>4 DEF Ahead
<1> QED
  BY <1>2, <1>3 DEF KeepsOrder, new

\* Order is kept by two moves in a row if nobody comes back in the second.
LEMMA OrderComposes ==
  ASSUME NEW old, NEW mid, NEW new, KeepsOrder(old, mid), KeepsOrder(mid, new),
         Elements(new) \subseteq Elements(mid), Elements(old) \subseteq Elements(mid)
  PROVE  KeepsOrder(old, new)
  BY DEF KeepsOrder

\* schedule() serves the ready queue from its head.
LEMMA ScheduleKeepsOrder ==
  ASSUME NEW table, NEW queue, NEW active, NEW io, Schedulable(table, queue),
         ready_queue \in Seq(Pids),
         \/ queue = ready_queue
         \/ \E p \in Pids : p \notin Elements(ready_queue) /\ queue = Append(ready_queue, p),
         schedule(table, queue, active, io)
  PROVE  KeepsOrder(ready_queue, ready_queue')
<1>1. ClearBlocked(table, queue) = queue
  BY NothingToClear DEF Schedulable, Elements
<1>2. ready_queue' = queue \/ (queue # <<>> /\ ready_queue' = Tail(queue))
  BY <1>1 DEF schedule
<1>3. /\ KeepsOrder(ready_queue, queue)
      /\ Elements(ready_queue) \subseteq Elements(queue)
  <2>1. CASE queue = ready_queue
    BY <2>1 DEF KeepsOrder
  <2>2. ASSUME NEW p \in Pids, p \notin Elements(ready_queue), queue = Append(ready_queue, p)
        PROVE  /\ KeepsOrder(ready_queue, queue)
               /\ Elements(ready_queue) \subseteq Elements(queue)
    BY <2>2, AppendKeepsOrder, AppendElements
  <2> QED
    BY <2>1, <2>2
<1>4. CASE queue # <<>> /\ ready_queue' = Tail(queue)
  <2>1. KeepsOrder(queue, Tail(queue)) /\ Elements(Tail(queue)) \subseteq Elements(queue)
    BY <1>4, TailKeepsOrder, HeadTail DEF Schedulable
  <2> QED
    BY <1>3, <1>4, <2>1, OrderComposes
<1> QED
  BY <1>2, <1>3, <1>4

\* What a step does to the queues.
InOrder ==
  /\ KeepsOrder(ready_queue, ready_queue')
  /\ \A s \in SemIds : KeepsOrder(sem_queue[s], sem_queue[s]')

\* A queue that does not change keeps its order.
LEMMA SameOrder ==
  ASSUME NEW queue
  PROVE  KeepsOrder(queue, queue)
  BY DEF KeepsOrder

\* Every step of the kernel and of the machine.
LEMMA NextInOrder ==
  ASSUME IInv, Next
  PROVE  InOrder
<1>0. /\ ready_queue \in Seq(Pids)
      /\ sem_queue \in [SemIds -> Seq(Pids)]
      /\ proc_state \in [Pids -> ProcessStates]
      /\ outcome = "up" => ReadyHome /\ BlockedHome /\ WaitingApart
  BY DEF IInv, TypeOK, StateTypeOK, OneHome
<1>1. ASSUME NEW state \in {"BLOCKED", "UNINITIALIZED"}, Trap, NEW active, NEW io,
             schedule([proc_state EXCEPT ![current_pid] = state], ready_queue, active, io)
      PROVE  KeepsOrder(ready_queue, ready_queue')
  BY <1>0, <1>1, TrapFacts, ScheduleKeepsOrder
<1>2. ASSUME NEW kind \in IOKinds, Trap, BlockForIO(kind)
      PROVE  InOrder
  BY <1>1, <1>2, SameOrder DEF BlockForIO, InOrder
<1>3. CASE handle_kill
  BY <1>1, <1>3, SameOrder DEF handle_kill, InOrder
<1>4. ASSUME NEW s \in SemIds, semaphore_wait(s)
      PROVE  InOrder
  <2>1. current_pid \in Pids /\ current_pid \notin Elements(sem_queue[s])
    BY <1>4, TrapFacts DEF semaphore_wait, Waits
  <2>2. KeepsOrder(sem_queue[s], Append(sem_queue[s], current_pid))
    BY <1>0, <2>1, AppendKeepsOrder
  <2>3. \A t \in SemIds : sem_queue[t]' =
          IF t = s THEN Append(sem_queue[s], current_pid) ELSE sem_queue[t]
    BY <1>0, <1>4 DEF semaphore_wait, enqueue
  <2>4. KeepsOrder(ready_queue, ready_queue')
    BY <1>1, <1>4 DEF semaphore_wait
  <2> QED
    BY <2>2, <2>3, <2>4, SameOrder DEF InOrder
<1>5. ASSUME NEW s \in SemIds, semaphore_wake(s)
      PROVE  InOrder
  <2> DEFINE pid == Head(sem_queue[s])
  <2>1. outcome = "up" /\ sem_queue[s] # <<>>
    BY <1>5 DEF semaphore_wake, Trap
  <2>2. pid \in Pids /\ pid \in Elements(sem_queue[s])
    BY <1>0, <2>1, HeadTail
  <2>3. pid \notin Elements(ready_queue)
    BY <1>0, <2>1, <2>2 DEF ReadyHome, BlockedHome
  <2>4. KeepsOrder(ready_queue, ready_queue')
    BY <1>0, <1>5, <2>2, <2>3, AppendKeepsOrder DEF semaphore_wake, enqueue
  <2>5. KeepsOrder(sem_queue[s], Tail(sem_queue[s]))
    BY <1>0, <2>1, TailKeepsOrder DEF WaitingApart
  <2>6. \A t \in SemIds : sem_queue[t]' = IF t = s THEN Tail(sem_queue[s]) ELSE sem_queue[t]
    BY <1>0, <1>5 DEF semaphore_wake
  <2> QED
    BY <2>4, <2>5, <2>6, SameOrder DEF InOrder
<1>6. ASSUME NEW s \in SemIds, semaphore_up(s) \/ semaphore_down(s)
      PROVE  InOrder
  BY <1>6, SameOrder DEF semaphore_up, semaphore_down, InOrder
<1>7. ASSUME NEW pid \in Pids, handle_fork(pid)
      PROVE  InOrder
  <2>1. pid \notin Elements(ready_queue)
    BY <1>0, <1>7 DEF handle_fork, Trap, ReadyHome
  <2>2. KeepsOrder(ready_queue, Append(ready_queue, pid))
    BY <1>0, <2>1, AppendKeepsOrder
  <2> QED
    BY <1>7, <2>2, SameOrder DEF handle_fork, enqueue, InOrder
<1>8. CASE handle_clock_interrupt
  <2>1. CASE UNCHANGED kernelVars
    BY <2>1, SameOrder DEF kernelVars, InOrder
  <2>2. CASE ~ UNCHANGED kernelVars
    <3>1. /\ outcome = "up" /\ QuantumExpired /\ UNCHANGED sem_queue
          /\ schedule([proc_state EXCEPT ![current_pid] = "READY"],
                      Append(ready_queue, current_pid), active_processes, io_processes)
      BY <1>8, <2>2 DEF handle_clock_interrupt, enqueue
    <3>2. KeepsOrder(ready_queue, ready_queue')
      BY <1>0, <3>1, PreemptFacts, ScheduleKeepsOrder
    <3> QED
      BY <3>1, <3>2, SameOrder DEF InOrder
  <2> QED
    BY <2>1, <2>2
<1>9. ASSUME NEW pid \in Pids, handle_disk_interrupt(pid) \/ handle_keyboard_interrupt(pid)
      PROVE  InOrder
  <2>1. PICK kind \in IOKinds : outcome = "up" /\ IOComplete(pid, kind) /\ WakeFromIO(pid)
    BY <1>9 DEF handle_disk_interrupt, handle_keyboard_interrupt, IOKinds
  <2>2. pid \notin Elements(ready_queue) /\ UNCHANGED sem_queue
    BY <2>1, AwakenFacts DEF WakeFromIO
  <2>3. CASE current_pid = IDLE_PROCESS
    <3>1. schedule([proc_state EXCEPT ![pid] = "READY"], Append(ready_queue, pid),
                   active_processes, io_processes - 1)
      BY <2>1, <2>3 DEF WakeFromIO, enqueue
    <3>2. KeepsOrder(ready_queue, ready_queue')
      BY <1>0, <2>1, <2>2, <2>3, <3>1, AwakenFacts, ScheduleKeepsOrder
    <3> QED
      BY <2>2, <3>2, SameOrder DEF InOrder
  <2>4. CASE current_pid # IDLE_PROCESS
    BY <1>0, <2>1, <2>2, <2>4, AppendKeepsOrder, SameOrder DEF WakeFromIO, enqueue, InOrder
  <2> QED
    BY <2>3, <2>4
<1>10. CASE Tick \/ UNCHANGED vars
  BY <1>10, SameOrder DEF Tick, kernelVars, vars, InOrder
<1> QED
  BY <1>2, <1>3, <1>4, <1>5, <1>6, <1>7, <1>8, <1>9, <1>10
     DEF Next, handle_trap, handle_semaphore, Interrupt, Exited, disk_write, handle_disk_read,
         handle_keyboard, IOKinds

\* First come, first served, on the ready queue and on every semaphore.
THEOREM NobodyOvertakes == Spec => NoOvertaking
<1>1. IInv /\ [Next]_vars => [InOrder]_vars
  BY NextInOrder
<1> QED
  BY <1>1, Invariance, PTL DEF Spec, NoOvertaking, InOrder

-----------------------------------------------------------------------------
(* The quantum.                                                            *)

\* A step that is not the last of a millisecond leaves the quantum as it is.
LEMMA SameQuantum ==
  ASSUME QuantumLeft, UNCHANGED <<clock, current_pid, current_quantum_start_time, outcome>>,
         SinceTimer' = SinceTimer
  PROVE  QuantumLeft'
  BY DEF QuantumLeft, Elapsed

\* Only the clock interrupt and the end of a millisecond move SinceTimer.
LEMMA SameSinceTimer ==
  ASSUME UNCHANGED clock,
         UNCHANGED phase \/ EndRun \/ EndEvents
  PROVE  SinceTimer' = SinceTimer
<1>1. CASE UNCHANGED phase
  BY <1>1 DEF SinceTimer, TimerDue
<1>2. CASE EndRun
  BY <1>2 DEF EndRun, SinceTimer, TimerDue
<1>3. CASE EndEvents
  BY <1>3 DEF EndEvents, SinceTimer, TimerDue
<1> QED
  BY <1>1, <1>2, <1>3

\* A clock interrupt ends the quantum that is over.
LEMMA ClockInterruptQuantum ==
  ASSUME StateTypeOK, StateTypeOK', QuantumLeft, QUANTUM # 0, handle_clock_interrupt
  PROVE  QuantumLeft'
<1>1. UNCHANGED clock
  BY DEF handle_clock_interrupt, RaiseTimer
<1>2. CASE current_quantum_start_time' = clock
  BY <1>1, <1>2, NewQuantum
<1>3. CASE ~ QuantumExpired /\ UNCHANGED kernelVars
  <2>1. /\ UNCHANGED <<current_pid, outcome>>
        /\ Elapsed' = Elapsed
    BY <1>1, <1>3 DEF kernelVars, Elapsed
  <2>2. Elapsed \in Int /\ SinceTimer' \in Nat
    BY ElapsedType, ClockAssumption, SinceTimerTypeNext DEF Times, SinceTimerOK
  <2>3. current_pid # IDLE_PROCESS => Elapsed < QUANTUM
    BY <1>3, <2>2, QuantumAssumption DEF QuantumExpired
  <2>4. \A e \in Int, n \in Nat : e < QUANTUM => e < QUANTUM + n
    BY QuantumAssumption
  <2>5. current_pid # IDLE_PROCESS => Elapsed < QUANTUM + SinceTimer'
    BY <2>2, <2>3, <2>4
  <2> QED
    BY <2>1, <2>5 DEF QuantumLeft
<1> QED
  BY <1>2, <1>3 DEF handle_clock_interrupt

\* A millisecond passes.
LEMMA MillisecondQuantum ==
  ASSUME StateTypeOK, StateTypeOK', QuantumLeft, CLOCK_MOD > CLOCK_INTERRUPT_PERIOD,
         AdvanceClock, UNCHANGED kernelVars
  PROVE  QuantumLeft'
<1>1. UNCHANGED <<current_pid, outcome, current_quantum_start_time>>
  BY DEF kernelVars
<1>2. Elapsed \in 0 .. CLOCK_MOD - 1
  BY ElapsedType DEF Times
<1>3. Elapsed' \in Int /\ Elapsed' <= Elapsed + 1
  <2>1. Elapsed' = (Elapsed + 1) % CLOCK_MOD
    BY <1>1, ElapsedAdvances DEF AdvanceClock
  <2>2. (Elapsed + 1) % CLOCK_MOD = IF Elapsed % CLOCK_MOD = CLOCK_MOD - 1 THEN 0
                                    ELSE (Elapsed % CLOCK_MOD) + 1
    <3>1. Elapsed \in Int
      BY <1>2, ClockAssumption
    <3> QED
      BY <3>1, ModNext, ClockAssumption
  <2>3. Elapsed % CLOCK_MOD = Elapsed
    BY <1>2, ModSmall, ClockAssumption
  <2> QED
    BY <1>2, <2>1, <2>2, <2>3, ClockAssumption
<1>4. SinceTimer \in Nat /\ SinceTimer' \in Nat /\ SinceTimer' >= SinceTimer + 1
  BY SinceTimerType, SinceTimerTypeNext, SinceTimerAdvances DEF SinceTimerOK
<1>5. Elapsed < QUANTUM + SinceTimer => Elapsed' < QUANTUM + SinceTimer'
  <2>1. \A e, f, n, m \in Int : f <= e + 1 /\ m >= n + 1 /\ e < QUANTUM + n => f < QUANTUM + m
    BY QuantumAssumption
  <2> QED
    BY <1>2, <1>3, <1>4, <2>1, ClockAssumption
<1> QED
  BY <1>1, <1>5 DEF QuantumLeft

\* Every step of the kernel and of the machine keeps the bound inductive.
LEMMA NextQuantum ==
  ASSUME TypeOK, TypeOK', QuantumLeft, [Next]_vars,
         QUANTUM # 0, CLOCK_MOD > CLOCK_INTERRUPT_PERIOD
  PROVE  QuantumLeft'
<1>1. StateTypeOK /\ StateTypeOK'
  BY DEF TypeOK
<1>2. ASSUME NEW kind \in IOKinds, BlockForIO(kind)
      PROVE  QuantumLeft'
  BY <1>1, <1>2, NewQuantum DEF BlockForIO
<1>3. CASE handle_kill
  BY <1>1, <1>3, NewQuantum DEF handle_kill, hardwareVars
<1>4. CASE \E s \in SemIds : semaphore_wait(s)
  BY <1>1, <1>4, NewQuantum DEF semaphore_wait, hardwareVars
<1>5. ASSUME \/ \E pid \in Pids : handle_fork(pid)
             \/ \E s \in SemIds : semaphore_wake(s) \/ semaphore_up(s) \/ semaphore_down(s)
             \/ UNCHANGED vars
      PROVE  QuantumLeft'
  <2>1. UNCHANGED <<clock, phase, current_pid, current_quantum_start_time, outcome>>
    BY <1>5 DEF handle_fork, semaphore_wake, semaphore_up, semaphore_down, hardwareVars, vars, kernelVars
  <2> QED
    BY <2>1, SameSinceTimer, SameQuantum
<1>6. CASE handle_clock_interrupt
  BY <1>1, <1>6, ClockInterruptQuantum
<1>7. ASSUME NEW pid \in Pids, NEW kind \in IOKinds, IOComplete(pid, kind), WakeFromIO(pid)
      PROVE  QuantumLeft'
  <2>1. UNCHANGED <<clock, phase>>
    BY <1>7 DEF IOComplete
  <2>2. CASE current_quantum_start_time' = clock
    BY <1>1, <2>1, <2>2, NewQuantum
  <2>3. CASE UNCHANGED <<current_pid, current_quantum_start_time, outcome>>
    BY <2>1, <2>3, SameSinceTimer, SameQuantum
  <2> QED
    BY <1>7, <2>2, <2>3 DEF WakeFromIO
<1>8. CASE Tick
  <2>1. UNCHANGED kernelVars /\ UNCHANGED <<current_pid, current_quantum_start_time, outcome>>
    BY <1>8 DEF Tick, kernelVars
  <2>2. CASE EndRun \/ EndEvents
    <3>1. UNCHANGED clock
      BY <2>2 DEF EndRun, EndEvents
    <3> QED
      BY <2>1, <2>2, <3>1, SameSinceTimer, SameQuantum
  <2>3. CASE AdvanceClock
    BY <1>1, <2>1, <2>3, MillisecondQuantum
  <2> QED
    BY <1>8, <2>2, <2>3 DEF Tick
<1> QED
  BY <1>2, <1>3, <1>4, <1>5, <1>6, <1>7, <1>8
     DEF Next, handle_trap, handle_semaphore, Interrupt, Exited, disk_write, handle_disk_read,
         handle_keyboard, handle_disk_interrupt, handle_keyboard_interrupt, IOKinds

\* A quantum starts with the simulation.
LEMMA InitQuantum == QUANTUM # 0 /\ Init => QuantumLeft
<1> SUFFICES ASSUME QUANTUM # 0, Init PROVE QuantumLeft
  OBVIOUS
<1>1. StateTypeOK /\ clock = 0 /\ current_quantum_start_time = clock
  BY InitIInv DEF IInv, TypeOK, Init, HardwareInit, initialize_kernel, initialize_state
<1>2. Elapsed = 0
  <2>1. clock - current_quantum_start_time = 0
    BY <1>1
  <2> QED
    BY <2>1, ModSmall, ClockAssumption DEF Elapsed
<1>3. SinceTimer \in Nat
  BY <1>1, SinceTimerType DEF SinceTimerOK
<1>4. \A n \in Nat : 0 < QUANTUM + n
  BY QuantumAssumption
<1> QED
  BY <1>2, <1>3, <1>4 DEF QuantumLeft

\* No process holds the processor longer than its quantum and the wait for the
\* next clock interrupt, for any period and any width of the clock; the quantum
\* of the code is 40 ms, and without one a process dispatched by a clock interrupt
\* would reach the bound at the next.
THEOREM QuantumIsBounded ==
  ASSUME QUANTUM # 0
  PROVE  Spec => []QuantumBound
<1>1. CASE CLOCK_MOD <= CLOCK_INTERRUPT_PERIOD
  <2>1. TypeOK => QuantumBound
    BY <1>1, NarrowClockBounds DEF TypeOK
  <2> QED
    BY <2>1, TypeCorrect, PTL
<1>2. CASE CLOCK_MOD > CLOCK_INTERRUPT_PERIOD
  <2>1. Init => QuantumLeft
    BY InitQuantum
  <2>2. TypeOK /\ TypeOK' /\ QuantumLeft /\ [Next]_vars => QuantumLeft'
    BY <1>2, NextQuantum
  <2>3. TypeOK /\ QuantumLeft => QuantumBound
    BY QuantumLeftBounds DEF TypeOK
  <2> QED
    BY <2>1, <2>2, <2>3, TypeCorrect, PTL DEF Spec
<1> QED
  BY <1>1, <1>2, PeriodAssumption, ClockAssumption

-----------------------------------------------------------------------------
(* The kernel implements ProcessManager.                                   *)

\* The waiters of the manager are those on the kernel's semaphore queues.
LEMMA ManagerWaiting ==
  ASSUME NEW w
  PROVE  Manager!Waiting(w) = UNION {Elements(w[s]) : s \in SemIds}
  BY DEF Manager!Waiting, Elements

\* schedule() gives the processor to a ready process, or to nobody and with the
\* manager's verdict.
LEMMA ScheduleDispatches ==
  ASSUME IInv, IInv', outcome = "up", NEW table, NEW queue, NEW active \in Int, NEW io \in Int,
         Schedulable(table, queue), schedule(table, queue, active, io),
         \A p \in Pids : table[p] = "BLOCKED" <=>
           p \in Requesting' \/ \E s \in SemIds : p \in Elements(sem_queue'[s])
  PROVE  Manager!Dispatch(Elements(queue), Requesting', sem_queue')
<1> DEFINE waiting == UNION {Elements(sem_queue'[s]) : s \in SemIds}
<1>0. /\ current_pid \in Pids \cup {IDLE_PROCESS}
      /\ io_pending' \subseteq Pids \X IOKinds
      /\ sem_queue' \in [SemIds -> Seq(Pids)]
  BY DEF IInv, TypeOK, StateTypeOK, HardwareTypeOK
<1>1. /\ outcome' = "finished" <=> active = 0
      /\ outcome' = "deadlocked" <=> active # 0 /\ queue = <<>> /\ io = 0
      /\ outcome' \in Outcomes
      /\ outcome' # "up" => proc_state' = table
      /\ proc_state' \in [Pids -> ProcessStates]
      /\ outcome' = "up" /\ current_pid' = IDLE_PROCESS => ready_queue' = <<>>
  BY <1>0, ScheduleOutcome
<1>2. ClearBlocked(table, queue) = queue
  BY NothingToClear DEF Schedulable, Elements
<1>3. Requesting' \subseteq Pids /\ waiting \subseteq Pids
  <2>1. Requesting' \subseteq Pids
    BY <1>0 DEF Requesting
  <2>2. \A s \in SemIds : Elements(sem_queue'[s]) \subseteq Pids
    BY <1>0 DEF Elements
  <2> QED
    BY <2>1, <2>2
<1>4. Manager!Live(IDLE_PROCESS, {}, {}, sem_queue') = waiting
  BY <1>3, ManagerWaiting, IdleAssumption DEF Manager!Live
<1>5. Requesting' = {} <=> io_pending' = {}
  BY DEF Requesting
<1>6. CASE outcome' = "finished"
  <2>1. \A p \in Pids : table[p] = "UNINITIALIZED"
    BY <1>1, <1>6 DEF IInv, VerdictIsTrue, Live
  <2>2. Requesting' = {} /\ waiting = {}
    BY <1>3, <2>1
  <2>3. queue = <<>>
    BY <2>1, NoElements DEF Schedulable, Elements
  <2>4. ready_queue' = queue
    BY <1>2, <2>3 DEF schedule
  <2>5. Elements(queue) = {}
    BY <2>3 DEF Elements
  <2> HIDE DEF waiting
  <2> QED
    BY <1>4, <1>6, <2>2, <2>4, <2>5 DEF Manager!Dispatch
<1>7. CASE outcome' = "deadlocked"
  <2>1. Live' # {} /\ Requesting' = {}
    BY <1>5, <1>7 DEF IInv, VerdictIsTrue
  <2>2. \A p \in Live' : \E s \in SemIds : p \in Elements(sem_queue'[s])
    BY <1>7 DEF IInv, VerdictIsTrue
  <2>3. waiting # {}
    BY <2>1, <2>2
  <2>4. queue = <<>> /\ active # 0
    BY <1>1, <1>7
  <2>5. ready_queue' = <<>>
    BY <1>2, <2>4 DEF schedule
  <2>6. Elements(queue) = {} /\ Elements(ready_queue') = {}
    BY <2>4, <2>5 DEF Elements
  <2> HIDE DEF waiting
  <2> QED
    BY <1>4, <1>7, <2>1, <2>3, <2>6 DEF Manager!Dispatch
<1>8. CASE outcome' = "up" /\ queue = <<>>
  <2>1. active # 0 /\ io # 0
    BY <1>1, <1>8
  <2>2. current_pid' = IDLE_PROCESS /\ ready_queue' = <<>>
    BY <1>2, <1>8, <2>1 DEF schedule
  <2>3. Requesting' # {}
    BY <1>5, <1>8, <2>2 DEF IInv, VerdictIsTrue
  <2>4. Elements(queue) = {} /\ Elements(ready_queue') = {}
    BY <1>8, <2>2 DEF Elements
  <2> QED
    BY <1>8, <2>2, <2>3, <2>4 DEF Manager!Dispatch
<1>9. CASE outcome' = "up" /\ queue # <<>>
  <2>1. active # 0
    BY <1>1, <1>9
  <2>2. current_pid' = Head(queue) /\ ready_queue' = Tail(queue)
    BY <1>2, <1>9, <2>1 DEF schedule
  <2>3. /\ Elements(queue) = Elements(Tail(queue)) \cup {Head(queue)}
        /\ Head(queue) \notin Elements(Tail(queue))
    BY <1>9, HeadTail, HeadTailNoDuplicates DEF Schedulable
  <2>4. Elements(ready_queue') = Elements(queue) \ {Head(queue)} /\ Head(queue) \in Elements(queue)
    BY <2>2, <2>3
  <2> QED
    BY <1>9, <2>2, <2>4 DEF Manager!Dispatch
<1> QED
  BY <1>1, <1>6, <1>7, <1>8, <1>9 DEF Outcomes

\* What the manager sees of a trap, before and after.
LEMMA ManagerRunning ==
  ASSUME Trap
  PROVE  Manager!Running /\ (IF outcome = "up" THEN current_pid ELSE IDLE_PROCESS) = current_pid
  BY DEF Trap, Manager!Running

\* A read.
LEMMA ReadImplemented ==
  ASSUME IInv, IInv', NEW kind \in IOKinds, Trap, BlockForIO(kind)
  PROVE  Manager!Read
<1> DEFINE table == [proc_state EXCEPT ![current_pid] = "BLOCKED"]
<1>1. /\ outcome = "up"
      /\ current_pid \in Pids
      /\ Schedulable(table, ready_queue)
      /\ StateTypeOK /\ BlockedHome
      /\ current_pid # IDLE_PROCESS
  BY TrapFacts DEF IInv, OneHome, TypeOK, Trap
<1>2. \A p \in Pids : table[p] = IF p = current_pid THEN "BLOCKED" ELSE proc_state[p]
  BY <1>1 DEF StateTypeOK
<1>3. Requesting' = Requesting \cup {current_pid}
  <2>1. io_pending' = io_pending \cup {<<current_pid, kind>>}
    BY DEF BlockForIO, IORequest
  <2>2. <<current_pid, kind>>[1] = current_pid
    OBVIOUS
  <2> QED
    BY <2>1, <2>2 DEF Requesting
<1>4. UNCHANGED <<sem_value, sem_queue>> /\ UNCHANGED Units
  BY DEF BlockForIO, Units
<1>5. UNCHANGED Accounts
  BY <1>1, AccountsKept DEF BlockForIO, IInv, TypeOK
<1>6. \A p \in Pids : table[p] = "BLOCKED" <=>
        p \in Requesting' \/ \E s \in SemIds : p \in Elements(sem_queue'[s])
  BY <1>1, <1>2, <1>3, <1>4 DEF BlockedHome
<1>7. schedule(table, ready_queue, active_processes, io_processes + 1)
      /\ active_processes \in Int /\ io_processes + 1 \in Int
  BY <1>1 DEF BlockForIO, StateTypeOK
<1> HIDE DEF table
<1>8. Manager!Dispatch(Elements(ready_queue), Requesting', sem_queue')
  BY <1>1, <1>6, <1>7, ScheduleDispatches
<1> QED
  BY <1>3, <1>4, <1>5, <1>8, ManagerRunning DEF Manager!Read, Units, Accounts

\* The end of a process.
LEMMA ExitImplemented ==
  ASSUME IInv, IInv', handle_kill
  PROVE  Manager!Exit
<1> DEFINE table == [proc_state EXCEPT ![current_pid] = "UNINITIALIZED"]
<1>1. /\ outcome = "up"
      /\ current_pid \in Pids
      /\ proc_state[current_pid] = "RUNNING"
      /\ Schedulable(table, ready_queue)
      /\ StateTypeOK /\ BlockedHome
      /\ current_pid # IDLE_PROCESS
  BY TrapFacts DEF IInv, OneHome, TypeOK, Trap, handle_kill
<1>2. \A p \in Pids : table[p] = IF p = current_pid THEN "UNINITIALIZED" ELSE proc_state[p]
  BY <1>1 DEF StateTypeOK
<1>3. UNCHANGED <<io_pending, sem_value, sem_queue>> /\ UNCHANGED Units /\ UNCHANGED Requesting
  BY DEF handle_kill, hardwareVars, Units, Requesting
<1>4. UNCHANGED Accounts
  BY <1>1, AccountsKept DEF handle_kill, hardwareVars, IInv, TypeOK
<1>5. \A p \in Pids : table[p] = "BLOCKED" <=>
        p \in Requesting' \/ \E s \in SemIds : p \in Elements(sem_queue'[s])
  BY <1>1, <1>2, <1>3 DEF BlockedHome
<1>6. schedule(table, ready_queue, active_processes - 1, io_processes)
      /\ active_processes - 1 \in Int /\ io_processes \in Int
  BY <1>1 DEF handle_kill, StateTypeOK
<1> HIDE DEF table
<1>7. Manager!Dispatch(Elements(ready_queue), Requesting', sem_queue')
  BY <1>1, <1>5, <1>6, ScheduleDispatches
<1>8. Manager!Dispatch(Elements(ready_queue), Requesting, sem_queue)
  BY <1>3, <1>7
<1> QED
  BY <1>3, <1>4, <1>8, ManagerRunning DEF Manager!Exit, Units, Accounts, handle_kill

\* UP with a waiter.
LEMMA WakeImplemented ==
  ASSUME IInv, IInv', NEW s \in SemIds, semaphore_wake(s)
  PROVE  Manager!Up(s)
<1> DEFINE pid == Head(sem_queue[s])
<1>1. /\ StateTypeOK /\ sem_queue[s] # <<>> /\ sem_value[s] = 0 /\ Trap
      /\ sem_queue \in [SemIds -> Seq(Pids)] /\ ready_queue \in Seq(Pids)
      /\ sem_value \in [SemIds -> 0 .. MaxSemValue]
  BY DEF semaphore_wake, IInv, TypeOK, StateTypeOK
<1>2. UNCHANGED <<io_pending, current_pid, outcome, sem_value>>
  BY DEF semaphore_wake, hardwareVars
<1>3. pid \in Pids
  BY <1>1, HeadTail
<1>4. Elements(ready_queue') = Elements(ready_queue) \cup {pid}
  BY <1>1, <1>3, AppendElements DEF semaphore_wake, enqueue
<1>5. sem_queue' = [sem_queue EXCEPT ![s] = Tail(@)]
  BY DEF semaphore_wake
<1>6. Units[s] < 0 /\ Units' = [Units EXCEPT ![s] = @ + 1]
  BY <1>1, <1>2, <1>5, UnitsOfWake
<1>7. UNCHANGED Accounts
  BY AccountsUntouched DEF semaphore_wake, hardwareVars
<1>8. UNCHANGED Requesting
  BY <1>2 DEF Requesting
<1> QED
  BY <1>1, <1>2, <1>4, <1>5, <1>6, <1>7, <1>8, ManagerRunning DEF Manager!Up, Units, Accounts

\* UP and DOWN that change the value.
LEMMA ValueImplemented ==
  ASSUME IInv, NEW s \in SemIds
  PROVE  /\ semaphore_up(s) => Manager!Up(s)
         /\ semaphore_down(s) => Manager!Down(s)
<1>1. /\ StateTypeOK /\ WaitersFindNoUnit
      /\ sem_value[s] \in Nat
  BY SemaphoreAssumption DEF IInv, TypeOK, StateTypeOK
<1>2. ASSUME semaphore_up(s) \/ semaphore_down(s)
      PROVE  /\ UNCHANGED <<io_pending, sem_queue, ready_queue, current_pid, outcome>>
             /\ UNCHANGED <<Accounts, Requesting>>
             /\ Trap
             /\ sem_queue[s] = <<>>
             /\ Units[s] = sem_value[s]
  <2>1. /\ UNCHANGED <<hardwareVars, current_pid, cpu_time, current_quantum_start_time, outcome,
                       ready_queue, sem_queue>>
        /\ Trap
    BY <1>2 DEF semaphore_up, semaphore_down
  <2>2. UNCHANGED <<Accounts, Requesting>>
    BY <2>1, AccountsUntouched DEF hardwareVars, Requesting
  <2>3. sem_queue[s] = <<>>
    BY <1>1, <1>2 DEF semaphore_up, semaphore_down, WaitersFindNoUnit
  <2> QED
    BY <1>1, <2>1, <2>2, <2>3, UnitsWithoutWaiters DEF hardwareVars
<1>3. ASSUME semaphore_up(s)
      PROVE  Manager!Up(s)
  <2>1. Units' = [Units EXCEPT ![s] = @ + 1]
    BY <1>1, <1>2, <1>3, UnitsOfValue DEF semaphore_up
  <2>2. ~ (Units[s] < 0)
    BY <1>1, <1>2, <1>3
  <2> QED
    BY <1>2, <1>3, <2>1, <2>2, ManagerRunning DEF Manager!Up, Units, Accounts
<1>4. ASSUME semaphore_down(s)
      PROVE  Manager!Down(s)
  <2>1. sem_value' = [sem_value EXCEPT ![s] = @ + (-1)]
    <3>1. sem_value[s] - 1 = sem_value[s] + (-1)
      BY <1>1
    <3> QED
      BY <1>4, <3>1 DEF semaphore_down
  <2>2. Units' = [Units EXCEPT ![s] = @ + (-1)]
    BY <1>1, <1>2, <1>4, <2>1, UnitsOfValue
  <2>3. Units[s] + (-1) = Units[s] - 1 /\ ~ (Units[s] <= 0)
    BY <1>1, <1>2, <1>4 DEF semaphore_down
  <2>4. Units' = [Units EXCEPT ![s] = @ - 1]
    BY <2>2, <2>3
  <2> QED
    BY <1>2, <1>4, <2>3, <2>4, ManagerRunning DEF Manager!Down, Units, Accounts
<1> QED
  BY <1>3, <1>4

\* DOWN without a unit.
LEMMA WaitImplemented ==
  ASSUME IInv, IInv', NEW s \in SemIds, semaphore_wait(s)
  PROVE  Manager!Down(s)
<1> DEFINE table == [proc_state EXCEPT ![current_pid] = "BLOCKED"]
<1>1. /\ outcome = "up" /\ Trap
      /\ current_pid \in Pids
      /\ Schedulable(table, ready_queue)
      /\ StateTypeOK /\ BlockedHome
      /\ current_pid # IDLE_PROCESS
      /\ sem_queue \in [SemIds -> Seq(Pids)]
      /\ sem_value[s] = 0
  BY TrapFacts DEF IInv, OneHome, TypeOK, StateTypeOK, Trap, semaphore_wait
<1>2. \A p \in Pids : table[p] = IF p = current_pid THEN "BLOCKED" ELSE proc_state[p]
  BY <1>1 DEF StateTypeOK
<1>3. UNCHANGED <<io_pending, sem_value, clock>> /\ UNCHANGED Requesting
  BY DEF semaphore_wait, hardwareVars, Requesting
<1>4. sem_queue' = [sem_queue EXCEPT ![s] = Append(@, current_pid)]
  BY DEF semaphore_wait, enqueue
<1>5. UNCHANGED Accounts
  BY <1>1, <1>3, AccountsKept DEF semaphore_wait, IInv, TypeOK
<1>6. \A t \in SemIds : sem_queue'[t] =
        IF t = s THEN Append(sem_queue[s], current_pid) ELSE sem_queue[t]
  BY <1>1, <1>4
<1>7. \A p \in Pids : table[p] = "BLOCKED" <=>
        p \in Requesting' \/ \E t \in SemIds : p \in Elements(sem_queue'[t])
  <2>1. Elements(Append(sem_queue[s], current_pid)) = Elements(sem_queue[s]) \cup {current_pid}
    BY <1>1, AppendElements
  <2> HIDE DEF table
  <2> QED
    BY <1>1, <1>2, <1>3, <1>6, <2>1 DEF BlockedHome
<1>8. schedule(table, ready_queue, active_processes, io_processes)
      /\ active_processes \in Int /\ io_processes \in Int
  BY <1>1 DEF semaphore_wait, StateTypeOK
<1> HIDE DEF table
<1>9. Manager!Dispatch(Elements(ready_queue), Requesting, sem_queue')
  BY <1>1, <1>3, <1>7, <1>8, ScheduleDispatches
<1>10. Units[s] <= 0 /\ Units' = [Units EXCEPT ![s] = @ - 1]
  BY <1>1, <1>3, <1>4, UnitsOfWait
<1> QED
  BY <1>1, <1>3, <1>4, <1>5, <1>9, <1>10, ManagerRunning DEF Manager!Down, Units, Accounts

\* FORK_PROGRAM.
LEMMA ForkImplemented ==
  ASSUME IInv, IInv', NEW pid \in Pids, handle_fork(pid)
  PROVE  Manager!Fork(pid)
<1>1. /\ Trap /\ outcome = "up" /\ current_pid \in Pids
      /\ proc_state[current_pid] = "RUNNING" /\ proc_state[pid] = "UNINITIALIZED"
      /\ ReadyHome /\ BlockedHome
      /\ ready_queue \in Seq(Pids)
  BY TrapFacts DEF handle_fork, IInv, OneHome, TypeOK
<1>2. /\ UNCHANGED <<io_pending, current_pid, sem_value, sem_queue, outcome>>
      /\ UNCHANGED <<Units, Requesting>>
  BY DEF handle_fork, hardwareVars, Units, Requesting
<1>3. Elements(ready_queue') = Elements(ready_queue) \cup {pid}
  BY <1>1, AppendElements DEF handle_fork, enqueue
<1>4. /\ pid # current_pid /\ pid \notin Elements(ready_queue) /\ pid \notin Requesting
      /\ \A s \in SemIds : pid \notin Elements(sem_queue[s])
  BY <1>1 DEF ReadyHome, BlockedHome
<1>5. pid \notin Manager!Live(current_pid, Elements(ready_queue), Requesting, sem_queue)
  BY <1>4, ManagerWaiting DEF Manager!Live
<1>6. Charged
  BY ForkCharges
<1>7. Accounts' = [Accounts EXCEPT ![pid] = 0]
  <2>1. \A p \in Pids : proc_state'[p] = IF p = pid THEN "READY" ELSE proc_state[p]
    BY DEF handle_fork, IInv, TypeOK, StateTypeOK
  <2>2. Live' = Live \cup {pid} /\ pid \notin Live /\ phase # "advance"
    BY <1>1, <2>1 DEF Live, Trap
  <2>3. \A p \in Pids : Used(p)' = IF p = pid THEN 0 ELSE Used(p)
    BY <1>6, <2>2 DEF Charged
  <2> QED
    BY <2>3 DEF Accounts
<1> QED
  BY <1>1, <1>2, <1>3, <1>5, <1>7, ManagerRunning DEF Manager!Fork, Units, Accounts

\* A clock interrupt at the end of a quantum, and any other.
LEMMA ClockInterruptImplemented ==
  ASSUME IInv, IInv', handle_clock_interrupt
  PROVE  Manager!Preempt \/ UNCHANGED Manager!managerVars
<1>1. /\ outcome = "up" /\ StateTypeOK /\ BlockedHome
      /\ UNCHANGED <<clock, io_pending>> /\ UNCHANGED Requesting
  BY DEF handle_clock_interrupt, RaiseTimer, IInv, OneHome, TypeOK, Requesting
<1>2. CASE UNCHANGED kernelVars
  <2>1. UNCHANGED <<Units, Accounts>>
    BY <1>1, <1>2 DEF kernelVars, Units, Accounts, Used, Elapsed
  <2> QED
    BY <1>1, <1>2, <2>1 DEF Manager!managerVars, kernelVars, Units, Accounts
<1>3. CASE ~ UNCHANGED kernelVars
  <2> DEFINE table == [proc_state EXCEPT ![current_pid] = "READY"]
             queue == Append(ready_queue, current_pid)
  <2>1. /\ QuantumExpired
        /\ cpu_time' = ChargedTime(current_pid)
        /\ schedule(table, queue, active_processes, io_processes)
        /\ current_quantum_start_time' = clock
        /\ UNCHANGED <<sem_value, sem_queue>>
    BY <1>3 DEF handle_clock_interrupt, enqueue
  <2>2. /\ current_pid \in Pids /\ current_pid # IDLE_PROCESS
        /\ proc_state[current_pid] = "RUNNING"
        /\ Schedulable(table, queue)
        /\ Elements(queue) = Elements(ready_queue) \cup {current_pid}
    BY <1>1, <2>1, PreemptFacts DEF QuantumExpired
  <2>3. UNCHANGED Accounts /\ UNCHANGED Units
    BY <1>1, <2>1, <2>2, AccountsKept DEF Units, IInv, TypeOK
  <2>4. \A p \in Pids : table[p] = "BLOCKED" <=>
          p \in Requesting' \/ \E s \in SemIds : p \in Elements(sem_queue'[s])
    <3>1. \A p \in Pids : table[p] = IF p = current_pid THEN "READY" ELSE proc_state[p]
      BY <1>1, <2>2 DEF StateTypeOK
    <3> QED
      BY <1>1, <2>1, <2>2, <3>1 DEF BlockedHome
  <2>5. active_processes \in Int /\ io_processes \in Int
    BY <1>1 DEF StateTypeOK
  <2> HIDE DEF table, queue
  <2>6. Manager!Dispatch(Elements(queue), Requesting, sem_queue)
    BY <1>1, <2>1, <2>2, <2>4, <2>5, ScheduleDispatches
  <2>7. Manager!Dispatch(Elements(ready_queue) \cup {current_pid}, Requesting, sem_queue)
    BY <2>2, <2>6
  <2>8. Manager!Running
    BY <1>1, <2>2 DEF Manager!Running
  <2> QED
    BY <1>1, <2>1, <2>3, <2>7, <2>8 DEF Manager!Preempt, Units, Accounts
<1> QED
  BY <1>2, <1>3

\* A completed read.
LEMMA ReadDoneImplemented ==
  ASSUME IInv, IInv', outcome = "up", NEW pid \in Pids, NEW kind \in IOKinds,
         IOComplete(pid, kind), WakeFromIO(pid)
  PROVE  Manager!ReadDone(pid)
<1> DEFINE table == [proc_state EXCEPT ![pid] = "READY"]
           queue == Append(ready_queue, pid)
<1>1. /\ StateTypeOK /\ BlockedHome /\ WaitingApart /\ VerdictIsTrue
      /\ UNCHANGED <<clock, sem_value, sem_queue, cpu_time>> /\ UNCHANGED Units
  BY DEF IOComplete, WakeFromIO, IInv, OneHome, TypeOK, Units
<1>2. /\ pid \in Requesting
      /\ proc_state[pid] = "BLOCKED"
      /\ Requesting' = Requesting \ {pid}
      /\ Elements(queue) = Elements(ready_queue) \cup {pid}
      /\ current_pid = IDLE_PROCESS => Schedulable(table, queue)
  BY AwakenFacts
<1>3. CASE current_pid = IDLE_PROCESS
  <2>1. /\ current_quantum_start_time' = clock
        /\ schedule(table, queue, active_processes, io_processes - 1)
        /\ active_processes \in Int /\ io_processes - 1 \in Int
    BY <1>1, <1>3 DEF WakeFromIO, enqueue, StateTypeOK
  <2>2. UNCHANGED Accounts
    BY <1>1, <1>3, <2>1, AccountsKept DEF IInv, TypeOK
  <2>3. \A p \in Pids : table[p] = "BLOCKED" <=>
          p \in Requesting' \/ \E s \in SemIds : p \in Elements(sem_queue'[s])
    <3>1. \A p \in Pids : table[p] = IF p = pid THEN "READY" ELSE proc_state[p]
      BY <1>1 DEF StateTypeOK
    <3> QED
      BY <1>1, <1>2, <3>1 DEF BlockedHome, WaitingApart
  <2>4. Elements(queue) = {pid}
    <3>1. ready_queue = <<>>
      BY <1>1, <1>3 DEF VerdictIsTrue
    <3> QED
      BY <1>2, <3>1 DEF Elements
  <2> HIDE DEF table, queue
  <2>5. Manager!Dispatch(Elements(queue), Requesting', sem_queue)
    BY <1>1, <1>2, <1>3, <2>1, <2>3, ScheduleDispatches
  <2>6. Manager!Dispatch({pid}, Requesting', sem_queue)
    BY <2>4, <2>5
  <2> QED
    BY <1>1, <1>2, <1>3, <2>2, <2>6 DEF Manager!ReadDone, Units, Accounts
<1>4. CASE current_pid # IDLE_PROCESS
  <2>1. ready_queue' = queue /\ UNCHANGED <<current_pid, current_quantum_start_time, outcome>>
    BY <1>4 DEF WakeFromIO, enqueue
  <2>2. UNCHANGED Accounts
    BY <1>1, <2>1 DEF Accounts, Used, Elapsed
  <2> HIDE DEF queue
  <2> QED
    BY <1>1, <1>2, <1>4, <2>1, <2>2 DEF Manager!ReadDone, Units, Accounts
<1> QED
  BY <1>3, <1>4

\* The parts of a tick.
LEMMA TickImplemented ==
  ASSUME IInv, IInv', Tick, CLOCK_MOD % INT_MOD = 0
  PROVE  Manager!Tick \/ UNCHANGED Manager!managerVars
<1>1. /\ outcome = "up" /\ UNCHANGED kernelVars /\ UNCHANGED io_pending
      /\ StateTypeOK /\ StateTypeOK' /\ current_pid \in Pids \cup {IDLE_PROCESS}
  BY DEF Tick, EndRun, EndEvents, AdvanceClock, IInv, TypeOK, StateTypeOK
<1>2. UNCHANGED <<current_pid, outcome, ready_queue, sem_queue, Units, Requesting>>
  BY <1>1 DEF kernelVars, Units, Requesting
<1>3. CASE EndRun \/ EndEvents
  <2>1. UNCHANGED Accounts
    BY <1>1, <1>3 DEF EndRun, EndEvents, kernelVars, Accounts, Used, Elapsed
  <2> QED
    BY <1>2, <2>1 DEF Manager!managerVars, Units, Accounts
<1>4. CASE AdvanceClock
  <2>1. /\ current_pid = IDLE_PROCESS => UNCHANGED Accounts
        /\ current_pid # IDLE_PROCESS =>
             Accounts' = [Accounts EXCEPT ![current_pid] = (@ + 1) % INT_MOD]
    BY <1>1, <1>4, AccountsOfTick DEF kernelVars, AdvanceClock
  <2>2. CASE current_pid = IDLE_PROCESS
    BY <1>2, <2>1, <2>2 DEF Manager!managerVars, Units, Accounts
  <2>3. CASE current_pid # IDLE_PROCESS
    BY <1>1, <1>2, <2>1, <2>3 DEF Manager!Tick, Manager!Running, Units, Accounts
  <2> QED
    BY <2>2, <2>3
<1> QED
  BY <1>3, <1>4 DEF Tick

\* The initial states map to the manager's.
LEMMA InitImplemented == Init => Manager!Init
<1> SUFFICES ASSUME Init PROVE Manager!Init
  OBVIOUS
<1>1. IInv
  BY InitIInv
<1>2. \A p \in Pids : Used(p) = 0
  <2>1. Elapsed = 0
    <3>1. clock - current_quantum_start_time = 0
      BY DEF Init, HardwareInit, initialize_kernel, initialize_state
    <3> QED
      BY <3>1, ModSmall, ClockAssumption DEF Elapsed
  <2>2. \A p \in Pids : Used(p) = (0 + 0) % INT_MOD
    BY <2>1 DEF Used, Init, initialize_kernel, initialize_state
  <2>3. 0 % INT_MOD = 0 /\ 0 + 0 = 0
    BY ModSmall, IntModAssumption
  <2> QED
    BY <2>2, <2>3
<1>3. Elements(ready_queue) = {} /\ Requesting = {}
  BY DEF Init, HardwareInit, initialize_kernel, Elements, Requesting
<1>4. \A s \in SemIds : sem_value[s] - Len(sem_queue[s]) = INITIAL_SEMAPHORE_VALUE
  BY SemaphoreAssumption DEF Init, initialize_kernel, initialize_state
<1> QED
  BY <1>2, <1>3, <1>4 DEF Manager!Init, Init, initialize_kernel, initialize_state

\* Every step maps to one of the manager's, or to none.
LEMMA NextImplemented ==
  ASSUME IInv, IInv', [Next]_vars, CLOCK_MOD % INT_MOD = 0
  PROVE  [Manager!Next]_(Manager!managerVars)
<1>1. CASE handle_disk_read \/ handle_keyboard
  BY <1>1, ReadImplemented DEF handle_disk_read, handle_keyboard, IOKinds, Manager!Next
<1>2. CASE \E pid \in Pids : handle_fork(pid)
  BY <1>2, ForkImplemented DEF Manager!Next
<1>3. CASE handle_kill
  BY <1>3, ExitImplemented DEF Manager!Next
<1>4. CASE \E s \in SemIds : handle_semaphore(s)
  BY <1>4, WakeImplemented, ValueImplemented, WaitImplemented DEF handle_semaphore, Manager!Next
<1>5. CASE handle_clock_interrupt
  BY <1>5, ClockInterruptImplemented DEF Manager!Next
<1>6. CASE \E pid \in Pids : handle_disk_interrupt(pid) \/ handle_keyboard_interrupt(pid)
  BY <1>6, ReadDoneImplemented DEF handle_disk_interrupt, handle_keyboard_interrupt, IOKinds, Manager!Next
<1>7. CASE Tick
  BY <1>7, TickImplemented DEF Manager!Next
<1>8. CASE UNCHANGED vars
  BY <1>8 DEF vars, hardwareVars, kernelVars, Manager!managerVars, Used, Elapsed, Requesting
<1> QED
  BY <1>1, <1>2, <1>3, <1>4, <1>5, <1>6, <1>7, <1>8
     DEF Next, handle_trap, Interrupt, Exited, disk_write

\* The kernel implements the process manager, for any number of processes and
\* semaphores, any quantum and period.
THEOREM ProcessesManaged ==
  ASSUME CLOCK_MOD % INT_MOD = 0
  PROVE  Spec => ManagesProcesses
<1>1. IInv /\ IInv' /\ [Next]_vars => [Manager!Next]_(Manager!managerVars)
  BY NextImplemented
<1> QED
  BY <1>1, InitImplemented, Invariance, PTL DEF Spec, ManagesProcesses, Manager!Spec
=============================================================================
