---------------------------- MODULE KernelState ----------------------------
(***************************************************************************)
(* What the kernels of "Project 1" and "Project 1 Honors" have in common:  *)
(* the process table, the semaphores, the counters and the quantum, what   *)
(* their handlers compute from them, and the properties that do not depend *)
(* on how the ready processes are queued.  The lines that comments and     *)
(* properties name are those of "Project 1/kernel.c".                      *)
(***************************************************************************)
EXTENDS Hardware, Sequences, FiniteSets

CONSTANTS
  InitPid,                  \* the process the machine boots with (pid 0)
  IDLE_PROCESS,             \* value of current_pid while no process runs
  SemIds,                   \* 0 .. NUMBER_OF_SEMAPHORES-1
  INITIAL_SEMAPHORE_VALUE,
  QUANTUM,
  INT_MOD,                  \* total_CPU_time_used counts modulo 2^32
  MaxSemValue               \* bound of the model: no UP beyond this value

ASSUME InitPidAssumption == InitPid \in Pids
ASSUME IdleAssumption == IDLE_PROCESS \notin Pids
ASSUME PidsAssumption == IsFiniteSet(Pids)
ASSUME QuantumAssumption == QUANTUM \in Nat
ASSUME IntModAssumption == INT_MOD \in Nat \ {0}
ASSUME SemaphoreAssumption ==
  /\ MaxSemValue \in Nat
  /\ INITIAL_SEMAPHORE_VALUE \in 0 .. MaxSemValue

VARIABLES
  current_pid,                 \* register: the running process or IDLE_PROCESS
  proc_state,                  \* process_table[p].state
  cpu_time,                    \* process_table[p].total_CPU_time_used
  sem_value,                   \* semaphores[s].value
  sem_queue,                   \* semaphores[s].ready_queue
  current_quantum_start_time,
  active_processes,
  io_processes,
  outcome                      \* "up", or how exit(0) ended the simulation

ProcessStates == {"RUNNING", "READY", "BLOCKED", "UNINITIALIZED"}
Outcomes == {"up", "finished", "deadlocked"}

StateTypeOK ==
  /\ HardwareTypeOK
  /\ current_pid \in Pids \cup {IDLE_PROCESS}
  /\ proc_state \in [Pids -> ProcessStates]
  /\ cpu_time \in [Pids -> 0 .. INT_MOD - 1]
  /\ sem_value \in [SemIds -> 0 .. MaxSemValue]
  /\ sem_queue \in [SemIds -> Seq(Pids)]
  /\ current_quantum_start_time \in Times
  /\ active_processes \in Int
  /\ io_processes \in Int
  /\ outcome \in Outcomes

-----------------------------------------------------------------------------
\* clock - current_quantum_start_time, in unsigned arithmetic.
Elapsed == (clock - current_quantum_start_time) % CLOCK_MOD

\* Mutant of ChargedTime: the table is left alone.
ChargedTime_forgotten(pid) == cpu_time

\* total_CPU_time_used += clock - current_quantum_start_time
ChargedTime(pid) == [cpu_time EXCEPT ![pid] = (@ + Elapsed) % INT_MOD]

Elements(queue) == {queue[i] : i \in 1 .. Len(queue)}

\* Mutant of enqueue: the new element becomes the head.
enqueue_at_head(queue, pid) == <<pid>> \o queue

enqueue(queue, pid) == Append(queue, pid)

\* The recursion of schedule() drops blocked processes from the front.
ClearBlocked(table, queue) ==
  LET kept == {i \in 1 .. Len(queue) : table[queue[i]] # "BLOCKED"}
  IN  IF kept = {} THEN <<>>
      ELSE SubSeq(queue, CHOOSE i \in kept : \A j \in kept : i <= j, Len(queue))

\* A trap comes from the running process, in the "run" phase of a tick.
Trap ==
  /\ outcome = "up"
  /\ phase = "run"
  /\ current_pid # IDLE_PROCESS

\* Mutant of QuantumExpired: the last millisecond is not counted.
QuantumExpired_strict == current_pid # IDLE_PROCESS /\ Elapsed > QUANTUM

QuantumExpired == current_pid # IDLE_PROCESS /\ Elapsed >= QUANTUM

initialize_state ==
  /\ current_pid = InitPid
  /\ proc_state = [p \in Pids |-> IF p = InitPid THEN "RUNNING" ELSE "UNINITIALIZED"]
  /\ cpu_time = [p \in Pids |-> 0]
  /\ sem_value = [s \in SemIds |-> INITIAL_SEMAPHORE_VALUE]
  /\ sem_queue = [s \in SemIds |-> <<>>]
  /\ current_quantum_start_time = clock
  /\ active_processes = 1
  /\ io_processes = 0
  /\ outcome = "up"

-----------------------------------------------------------------------------
Live == {p \in Pids : proc_state[p] # "UNINITIALIZED"}
Requesting == {r[1] : r \in io_pending}
NoDuplicates(queue) == \A i, j \in 1 .. Len(queue) : queue[i] = queue[j] => i = j

RunningHome == \A p \in Pids : proc_state[p] = "RUNNING" <=> current_pid = p

BlockedHome ==
  \A p \in Pids : proc_state[p] = "BLOCKED" <=>
    p \in Requesting \/ \E s \in SemIds : p \in Elements(sem_queue[s])

\* Nobody waits for two things.
WaitingApart ==
  /\ \A r, q \in io_pending : r[1] = q[1] => r = q
  /\ \A s \in SemIds : /\ NoDuplicates(sem_queue[s])
                       /\ Elements(sem_queue[s]) \cap Requesting = {}
  /\ \A s, t \in SemIds : s # t => Elements(sem_queue[s]) \cap Elements(sem_queue[t]) = {}

\* The two counters schedule() decides with count what they are meant to:
\* live processes and accepted, unfinished reads (kernel.c:125-131).
CountersAgree ==
  outcome = "up" => /\ active_processes = Cardinality(Live)
                    /\ io_processes = Cardinality(io_pending)

\* Nobody waits for a unit a semaphore still has (kernel.c:291-320).
WaitersFindNoUnit == \A s \in SemIds : sem_queue[s] # <<>> => sem_value[s] = 0

\* The longest stretch between two clock interrupts, which the wrap of the
\* clock can make longer than the period (there is none at time 0).
LongestPeriod ==
  CLOCK_INTERRUPT_PERIOD
    + (IF CLOCK_MOD % CLOCK_INTERRUPT_PERIOD = 0 THEN CLOCK_INTERRUPT_PERIOD
       ELSE CLOCK_MOD % CLOCK_INTERRUPT_PERIOD)

\* No process holds the processor longer than its quantum and the wait for
\* the next clock interrupt, across a wrap of the clock too, whatever other
\* processes are awakened meanwhile (kernel.c:334-357, 359-395).
QuantumBound ==
  outcome = "up" /\ current_pid # IDLE_PROCESS => Elapsed < QUANTUM + LongestPeriod

\* CPU time of p, the part not yet charged included.
Used(p) ==
  (cpu_time[p] + IF outcome = "up" /\ current_pid = p THEN Elapsed ELSE 0) % INT_MOD
=============================================================================
