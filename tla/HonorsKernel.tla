---------------------------- MODULE HonorsKernel ----------------------------
(***************************************************************************)
(* The kernel of "Project 1 Honors" (kernel.c): the kernel of "Project 1"  *)
(* with a ready queue for each of five priorities.  A process that blocks  *)
(* before its quantum is over rises by one, a process that uses it up      *)
(* falls by one, and schedule() serves the highest queue that is not       *)
(* empty.  Handlers run with interrupts off, one action each.              *)
(***************************************************************************)
EXTENDS KernelState

CONSTANT TOP_PRIORITY   \* 4

ASSUME TopAssumption == TOP_PRIORITY \in Nat

VARIABLES
  ready_queues,   \* one for each priority
  priority        \* process_table[p].priority

kernelVars == <<current_pid, proc_state, cpu_time, ready_queues, priority,
                sem_value, sem_queue, current_quantum_start_time,
                active_processes, io_processes, outcome>>
vars == <<hardwareVars, kernelVars>>

Levels == 0 .. TOP_PRIORITY

-----------------------------------------------------------------------------
\* Mutant of Promoted: there is no highest priority.
Promoted_uncapped(pid) ==
  IF Elapsed < QUANTUM THEN [priority EXCEPT ![pid] = @ + 1] ELSE priority

\* A process that blocks before its quantum is over rises.
Promoted(pid) ==
  IF Elapsed < QUANTUM /\ priority[pid] < TOP_PRIORITY
  THEN [priority EXCEPT ![pid] = @ + 1]
  ELSE priority

\* A process that used up its quantum falls.
Demoted(pid) == [priority EXCEPT ![pid] = IF @ > 0 THEN @ - 1 ELSE @]

\* enqueue(&ready_queues[process_table[pid].priority], pid)
Queued(queues, level, pid) == [queues EXCEPT ![level] = enqueue(@, pid)]

\* Mutant of TopLevel: the search goes up from queue 0.
TopLevel_lowest(levels) == CHOOSE q \in levels : \A r \in levels : q <= r

\* The search for a process goes down from the top queue.
TopLevel(levels) == CHOOSE q \in levels : \A r \in levels : r <= q

(***************************************************************************)
(* schedule(4), called by a handler that has already brought the table,    *)
(* the ready queues and the two counters to the given values.  On its way  *)
(* down it drops the blocked processes it finds in front.                  *)
(***************************************************************************)
schedule(table, queues, active, io) ==
  LET cleared == [q \in Levels |-> ClearBlocked(table, queues[q])]
      candidates == {q \in Levels : cleared[q] # <<>>}
  IN
  \/ /\ active = 0
     /\ outcome' = "finished"
     /\ proc_state' = table
     /\ ready_queues' = queues
     /\ UNCHANGED current_pid
  \/ /\ active # 0
     /\ candidates = {}
     /\ proc_state' = table
     /\ ready_queues' = cleared
     /\ \/ io = 0 /\ outcome' = "deadlocked" /\ UNCHANGED current_pid
        \/ io # 0 /\ current_pid' = IDLE_PROCESS /\ UNCHANGED outcome
  \/ /\ active # 0
     /\ candidates # {}
     /\ LET level == TopLevel(candidates) IN
        /\ current_pid' = Head(cleared[level])
        /\ proc_state' = [table EXCEPT ![Head(cleared[level])] = "RUNNING"]
        /\ ready_queues' = [q \in Levels |-> IF q > level THEN cleared[q]
                                             ELSE IF q = level THEN Tail(cleared[q])
                                             ELSE queues[q]]
     /\ UNCHANGED outcome

-----------------------------------------------------------------------------
BlockForIO(kind) ==
  /\ IORequest(current_pid, kind)
  /\ priority' = Promoted(current_pid)
  /\ io_processes' = io_processes + 1
  /\ cpu_time' = ChargedTime(current_pid)
  /\ current_quantum_start_time' = clock
  /\ schedule([proc_state EXCEPT ![current_pid] = "BLOCKED"], ready_queues,
              active_processes, io_processes + 1)
  /\ UNCHANGED <<clock, phase, sem_value, sem_queue, active_processes>>

handle_disk_read == Trap /\ BlockForIO("disk")

handle_keyboard == Trap /\ BlockForIO("keyboard")

disk_write == Trap /\ UNCHANGED vars

\* As in "Project 1" the pid names no live process; its CPU account goes on
\* and its priority is what its predecessor left.
handle_fork(pid) ==
  /\ Trap
  /\ proc_state[pid] = "UNINITIALIZED"
  /\ proc_state' = [proc_state EXCEPT ![pid] = "READY"]
  /\ active_processes' = active_processes + 1
  /\ ready_queues' = Queued(ready_queues, priority[pid], pid)
  /\ UNCHANGED <<hardwareVars, current_pid, cpu_time, priority, sem_value, sem_queue,
                 current_quantum_start_time, io_processes, outcome>>

\* Mutant of handle_kill: the priority stays for the next process of that pid.
handle_kill_keeps_priority ==
  /\ Trap
  /\ cpu_time' = ChargedTime(current_pid)
  /\ active_processes' = active_processes - 1
  /\ current_quantum_start_time' = clock
  /\ schedule([proc_state EXCEPT ![current_pid] = "UNINITIALIZED"], ready_queues,
              active_processes - 1, io_processes)
  /\ UNCHANGED <<hardwareVars, priority, sem_value, sem_queue, io_processes>>

handle_kill ==
  /\ Trap
  /\ cpu_time' = ChargedTime(current_pid)
  /\ priority' = [priority EXCEPT ![current_pid] = 0]
  /\ active_processes' = active_processes - 1
  /\ current_quantum_start_time' = clock
  /\ schedule([proc_state EXCEPT ![current_pid] = "UNINITIALIZED"], ready_queues,
              active_processes - 1, io_processes)
  /\ UNCHANGED <<hardwareVars, sem_value, sem_queue, io_processes>>

\* UP on a semaphore with a waiter: the waiter gets the unit.
semaphore_wake(s) ==
  /\ Trap
  /\ sem_value[s] = 0
  /\ sem_queue[s] # <<>>
  /\ LET pid == Head(sem_queue[s]) IN
     /\ proc_state' = [proc_state EXCEPT ![pid] = "READY"]
     /\ ready_queues' = Queued(ready_queues, priority[pid], pid)
  /\ sem_queue' = [sem_queue EXCEPT ![s] = Tail(@)]
  /\ UNCHANGED <<hardwareVars, current_pid, cpu_time, priority, sem_value, outcome,
                 current_quantum_start_time, active_processes, io_processes>>

\* The value of a semaphore changes by one and nothing else.
ChangeValue(s, change) ==
  /\ sem_value' = [sem_value EXCEPT ![s] = @ + change]
  /\ UNCHANGED <<hardwareVars, current_pid, proc_state, cpu_time, ready_queues, priority,
                 sem_queue, current_quantum_start_time, active_processes,
                 io_processes, outcome>>

\* UP otherwise (MaxSemValue bounds the model).
semaphore_up(s) ==
  /\ Trap
  /\ ~ (sem_value[s] = 0 /\ sem_queue[s] # <<>>)
  /\ sem_value[s] < MaxSemValue
  /\ ChangeValue(s, 1)

\* DOWN on a semaphore with units.
semaphore_down(s) == Trap /\ sem_value[s] # 0 /\ ChangeValue(s, -1)

\* DOWN without a unit: the process waits on the semaphore's queue.
semaphore_wait(s) ==
  /\ Trap
  /\ sem_value[s] = 0
  /\ sem_queue' = [sem_queue EXCEPT ![s] = enqueue(@, current_pid)]
  /\ priority' = Promoted(current_pid)
  /\ cpu_time' = ChargedTime(current_pid)
  /\ current_quantum_start_time' = clock
  /\ schedule([proc_state EXCEPT ![current_pid] = "BLOCKED"], ready_queues,
              active_processes, io_processes)
  /\ UNCHANGED <<hardwareVars, sem_value, active_processes, io_processes>>

handle_semaphore(s) ==
  semaphore_wake(s) \/ semaphore_up(s) \/ semaphore_down(s) \/ semaphore_wait(s)

-----------------------------------------------------------------------------
\* Mutant of handle_clock_interrupt: the process is enqueued at the priority
\* it had.
handle_clock_interrupt_late_demotion ==
  /\ outcome = "up"
  /\ RaiseTimer
  /\ \/ /\ QuantumExpired
        /\ cpu_time' = ChargedTime(current_pid)
        /\ priority' = Demoted(current_pid)
        /\ schedule([proc_state EXCEPT ![current_pid] = "READY"],
                    Queued(ready_queues, priority[current_pid], current_pid),
                    active_processes, io_processes)
        /\ current_quantum_start_time' = clock
        /\ UNCHANGED <<sem_value, sem_queue, active_processes, io_processes>>
     \/ ~ QuantumExpired /\ UNCHANGED kernelVars

handle_clock_interrupt ==
  /\ outcome = "up"
  /\ RaiseTimer
  /\ \/ /\ QuantumExpired
        /\ cpu_time' = ChargedTime(current_pid)
        /\ priority' = Demoted(current_pid)
        /\ schedule([proc_state EXCEPT ![current_pid] = "READY"],
                    Queued(ready_queues, priority'[current_pid], current_pid),
                    active_processes, io_processes)
        /\ current_quantum_start_time' = clock
        /\ UNCHANGED <<sem_value, sem_queue, active_processes, io_processes>>
     \/ ~ QuantumExpired /\ UNCHANGED kernelVars

\* Mutant of WakeFromIO: an idle processor stays idle.
WakeFromIO_never_schedules(pid) ==
  /\ io_processes' = io_processes - 1
  /\ proc_state' = [proc_state EXCEPT ![pid] = "READY"]
  /\ ready_queues' = Queued(ready_queues, priority[pid], pid)
  /\ UNCHANGED <<current_pid, current_quantum_start_time, outcome, cpu_time, priority,
                 sem_value, sem_queue, active_processes>>

\* handle_disk_interrupt and handle_keyboard_interrupt: the same code twice.
WakeFromIO(pid) ==
  LET queues == Queued(ready_queues, priority[pid], pid)
      table == [proc_state EXCEPT ![pid] = "READY"]
  IN
  /\ io_processes' = io_processes - 1
  /\ \/ /\ current_pid = IDLE_PROCESS
        /\ current_quantum_start_time' = clock
        /\ schedule(table, queues, active_processes, io_processes - 1)
     \/ /\ current_pid # IDLE_PROCESS
        /\ proc_state' = table
        /\ ready_queues' = queues
        /\ UNCHANGED <<current_pid, current_quantum_start_time, outcome>>
  /\ UNCHANGED <<cpu_time, priority, sem_value, sem_queue, active_processes>>

handle_disk_interrupt(pid) ==
  outcome = "up" /\ IOComplete(pid, "disk") /\ WakeFromIO(pid)

handle_keyboard_interrupt(pid) ==
  outcome = "up" /\ IOComplete(pid, "keyboard") /\ WakeFromIO(pid)

-----------------------------------------------------------------------------
initialize_kernel ==
  /\ initialize_state
  /\ ready_queues = [q \in Levels |-> <<>>]
  /\ priority = [p \in Pids |-> 0]

Init == HardwareInit /\ initialize_kernel

\* The parts of a tick in which no handler runs.
Tick == outcome = "up" /\ (EndRun \/ EndEvents \/ AdvanceClock) /\ UNCHANGED kernelVars

handle_trap ==
  \/ handle_disk_read
  \/ disk_write
  \/ handle_keyboard
  \/ \E pid \in Pids : handle_fork(pid)
  \/ handle_kill
  \/ \E s \in SemIds : handle_semaphore(s)

Interrupt ==
  \/ handle_clock_interrupt
  \/ \E pid \in Pids : handle_disk_interrupt(pid) \/ handle_keyboard_interrupt(pid)

\* exit(0) has been called: the simulation is over.
Exited == outcome # "up" /\ UNCHANGED vars

Next == handle_trap \/ Interrupt \/ Tick \/ Exited

Spec == Init /\ [][Next]_vars

\* The clock goes on and a due clock interrupt is raised; no trap is fair.
FairSpec == Spec /\ WF_vars(Tick) /\ WF_vars(handle_clock_interrupt)

-----------------------------------------------------------------------------
TypeOK ==
  /\ StateTypeOK
  /\ ready_queues \in [Levels -> Seq(Pids)]
  /\ priority \in [Pids -> Levels]

\* A ready process is on the queue of its priority, once, and on no other.
ReadyHome ==
  /\ \A p \in Pids : proc_state[p] = "READY" <=> p \in Elements(ready_queues[priority[p]])
  /\ \A q \in Levels : /\ NoDuplicates(ready_queues[q])
                       /\ \A p \in Elements(ready_queues[q]) : priority[p] = q

\* While the system is up every live process is in exactly one place, the one
\* its table entry says, and a priority never changes under a process that is
\* queued by it (kernel.c:244-258, 294-302, 354-417).
OneHome == outcome = "up" => RunningHome /\ ReadyHome /\ BlockedHome /\ WaitingApart

\* handle_fork sets no priority: a new process enters the lowest queue because
\* whoever had the pid before left a 0 behind (kernel.c:250-256, 267).
NewProcessesAreLowest ==
  \A p \in Pids : proc_state[p] = "UNINITIALIZED" => priority[p] = 0

\* The verdict is true, and the processor idles only if no queue of any
\* priority has a process and a read is outstanding (kernel.c:419-472).
VerdictIsTrue ==
  /\ outcome = "finished" => Live = {}
  /\ outcome = "deadlocked" =>
       /\ Live # {}
       /\ io_pending = {}
       /\ \A p \in Live : \E s \in SemIds : p \in Elements(sem_queue[s]) /\ sem_value[s] = 0
  /\ outcome = "up" /\ current_pid = IDLE_PROCESS =>
       io_pending # {} /\ \A q \in Levels : ready_queues[q] = <<>>

\* Who gets the processor has the highest priority of all that are ready,
\* whichever handler gave it away (kernel.c:419-472).
HighestIsDispatched ==
  [][\A p \in Pids :
       /\ current_pid' = p
       /\ current_pid # p \/ current_quantum_start_time' # current_quantum_start_time
       => \A r \in Pids : proc_state'[r] = "READY" => priority'[r] <= priority'[p]]_vars

\* A ready process of the highest priority gets the processor, or the
\* simulation ends; a process of a lower one may wait for ever.
TopRuns ==
  \A p \in Pids :
    (outcome = "up" /\ proc_state[p] = "READY" /\ priority[p] = TOP_PRIORITY) ~>
      (outcome # "up" \/ proc_state[p] = "RUNNING")

-----------------------------------------------------------------------------
\* Refinement: the same promises as the kernel of "Project 1".
Manager == INSTANCE ProcessManager WITH
  NoPid <- IDLE_PROCESS,
  InitialCount <- INITIAL_SEMAPHORE_VALUE,
  UsedMod <- INT_MOD,
  ForkResets <- FALSE,
  running <- IF outcome = "up" THEN current_pid ELSE IDLE_PROCESS,
  ready <- UNION {Elements(ready_queues[q]) : q \in Levels},
  reading <- Requesting,
  count <- [s \in SemIds |-> sem_value[s] - Len(sem_queue[s])],
  waiters <- sem_queue,
  used <- [p \in Pids |-> Used(p)],
  verdict <- outcome

\* The kernel is a process manager: every handler does one of its steps.
ManagesProcesses == Manager!Spec
=============================================================================
