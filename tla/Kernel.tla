------------------------------- MODULE Kernel -------------------------------
(***************************************************************************)
(* The kernel of "Project 1" (kernel.c): a round-robin scheduler with a    *)
(* 40 ms quantum, blocking disk and keyboard reads, counting semaphores    *)
(* and the detection of a deadlocked system.  Every handler runs with      *)
(* interrupts off, so a handler with all the functions it calls is one     *)
(* action; what interleaves is the order in which Hardware raises traps    *)
(* and interrupts.                                                         *)
(*                                                                         *)
(* A PID_QUEUE is the sequence of the pids on it; PidQueue.tla shows that  *)
(* the linked list of the code implements that sequence.                   *)
(***************************************************************************)
EXTENDS KernelState

VARIABLE ready_queue

kernelVars == <<current_pid, proc_state, cpu_time, ready_queue, sem_value,
                sem_queue, current_quantum_start_time, active_processes,
                io_processes, outcome>>
vars == <<hardwareVars, kernelVars>>

-----------------------------------------------------------------------------
\* Mutant of schedule: the deadlock test is made before the ready queue is
\* looked at, as if every process on it were blocked.
schedule_deadlock_first(table, queue, active, io) ==
  LET candidates == ClearBlocked(table, queue) IN
  \/ /\ active = 0 \/ io = 0
     /\ outcome' = IF active = 0 THEN "finished" ELSE "deadlocked"
     /\ proc_state' = table
     /\ ready_queue' = queue
     /\ UNCHANGED current_pid
  \/ /\ active # 0 /\ io # 0
     /\ UNCHANGED outcome
     /\ current_pid' = IF candidates = <<>> THEN IDLE_PROCESS ELSE Head(candidates)
     /\ proc_state' = [p \in Pids |-> IF p = current_pid' THEN "RUNNING" ELSE table[p]]
     /\ ready_queue' = IF candidates = <<>> THEN <<>> ELSE Tail(candidates)

(***************************************************************************)
(* schedule(), called by a handler that has already brought the table, the *)
(* ready queue and the two counters to the given values.                   *)
(***************************************************************************)
schedule(table, queue, active, io) ==
  LET candidates == ClearBlocked(table, queue) IN
  \/ /\ active = 0
     /\ outcome' = "finished"
     /\ proc_state' = table
     /\ ready_queue' = queue
     /\ UNCHANGED current_pid
  \/ /\ active # 0
     /\ candidates = <<>>
     /\ proc_state' = table
     /\ ready_queue' = candidates
     /\ \/ io = 0 /\ outcome' = "deadlocked" /\ UNCHANGED current_pid
        \/ io # 0 /\ current_pid' = IDLE_PROCESS /\ UNCHANGED outcome
  \/ /\ active # 0
     /\ candidates # <<>>
     /\ current_pid' = Head(candidates)
     /\ proc_state' = [table EXCEPT ![Head(candidates)] = "RUNNING"]
     /\ ready_queue' = Tail(candidates)
     /\ UNCHANGED outcome

-----------------------------------------------------------------------------
\* What handle_disk_read and handle_keyboard share.
BlockForIO(kind) ==
  /\ IORequest(current_pid, kind)
  /\ io_processes' = io_processes + 1
  /\ cpu_time' = ChargedTime(current_pid)
  /\ current_quantum_start_time' = clock
  /\ schedule([proc_state EXCEPT ![current_pid] = "BLOCKED"], ready_queue,
              active_processes, io_processes + 1)
  /\ UNCHANGED <<clock, phase, sem_value, sem_queue, active_processes>>

handle_disk_read == Trap /\ BlockForIO("disk")

handle_keyboard == Trap /\ BlockForIO("keyboard")

\* DISK_WRITE does not block and takes no time: nothing changes.
disk_write == Trap /\ UNCHANGED vars

\* The workload forks a pid that names no live process: prog.py hands out
\* each pid once, and kernel.c does not check it.
handle_fork(pid) ==
  /\ Trap
  /\ proc_state[pid] = "UNINITIALIZED"
  /\ proc_state' = [proc_state EXCEPT ![pid] = "READY"]
  /\ cpu_time' = [cpu_time EXCEPT ![pid] = 0]
  /\ active_processes' = active_processes + 1
  /\ ready_queue' = enqueue(ready_queue, pid)
  /\ UNCHANGED <<hardwareVars, current_pid, sem_value, sem_queue,
                 current_quantum_start_time, io_processes, outcome>>

handle_kill ==
  /\ Trap
  /\ cpu_time' = ChargedTime(current_pid)
  /\ active_processes' = active_processes - 1
  /\ current_quantum_start_time' = clock
  /\ schedule([proc_state EXCEPT ![current_pid] = "UNINITIALIZED"], ready_queue,
              active_processes - 1, io_processes)
  /\ UNCHANGED <<hardwareVars, sem_value, sem_queue, io_processes>>

\* Mutant of semaphore_wake: the unit is handed over and kept.
semaphore_wake_and_count(s) ==
  /\ Trap
  /\ sem_value[s] = 0
  /\ sem_queue[s] # <<>>
  /\ sem_value' = [sem_value EXCEPT ![s] = @ + 1]
  /\ proc_state' = [proc_state EXCEPT ![Head(sem_queue[s])] = "READY"]
  /\ ready_queue' = enqueue(ready_queue, Head(sem_queue[s]))
  /\ sem_queue' = [sem_queue EXCEPT ![s] = Tail(@)]
  /\ UNCHANGED <<hardwareVars, current_pid, cpu_time, outcome,
                 current_quantum_start_time, active_processes, io_processes>>

\* UP on a semaphore with a waiter: the waiter gets the unit.
semaphore_wake(s) ==
  /\ Trap
  /\ sem_value[s] = 0
  /\ sem_queue[s] # <<>>
  /\ proc_state' = [proc_state EXCEPT ![Head(sem_queue[s])] = "READY"]
  /\ ready_queue' = enqueue(ready_queue, Head(sem_queue[s]))
  /\ sem_queue' = [sem_queue EXCEPT ![s] = Tail(@)]
  /\ UNCHANGED <<hardwareVars, current_pid, cpu_time, sem_value, outcome,
                 current_quantum_start_time, active_processes, io_processes>>

\* UP otherwise: the value grows (MaxSemValue bounds the model).
semaphore_up(s) ==
  /\ Trap
  /\ ~ (sem_value[s] = 0 /\ sem_queue[s] # <<>>)
  /\ sem_value[s] < MaxSemValue
  /\ sem_value' = [sem_value EXCEPT ![s] = @ + 1]
  /\ UNCHANGED <<hardwareVars, current_pid, proc_state, cpu_time, ready_queue,
                 sem_queue, current_quantum_start_time, active_processes,
                 io_processes, outcome>>

\* Mutant of semaphore_down: the value is not tested.
semaphore_down_unchecked(s) ==
  /\ Trap
  /\ sem_value' = [sem_value EXCEPT ![s] = @ - 1]
  /\ UNCHANGED <<hardwareVars, current_pid, proc_state, cpu_time, ready_queue,
                 sem_queue, current_quantum_start_time, active_processes,
                 io_processes, outcome>>

\* DOWN on a positive semaphore.
semaphore_down(s) ==
  /\ Trap
  /\ sem_value[s] # 0
  /\ sem_value' = [sem_value EXCEPT ![s] = @ - 1]
  /\ UNCHANGED <<hardwareVars, current_pid, proc_state, cpu_time, ready_queue,
                 sem_queue, current_quantum_start_time, active_processes,
                 io_processes, outcome>>

\* DOWN on a semaphore of value 0: the process waits on its queue.
semaphore_wait(s) ==
  /\ Trap
  /\ sem_value[s] = 0
  /\ sem_queue' = [sem_queue EXCEPT ![s] = enqueue(@, current_pid)]
  /\ cpu_time' = ChargedTime(current_pid)
  /\ current_quantum_start_time' = clock
  /\ schedule([proc_state EXCEPT ![current_pid] = "BLOCKED"], ready_queue,
              active_processes, io_processes)
  /\ UNCHANGED <<hardwareVars, sem_value, active_processes, io_processes>>

handle_semaphore(s) ==
  semaphore_wake(s) \/ semaphore_up(s) \/ semaphore_down(s) \/ semaphore_wait(s)

-----------------------------------------------------------------------------
handle_clock_interrupt ==
  /\ outcome = "up"
  /\ RaiseTimer
  /\ \/ /\ QuantumExpired
        /\ cpu_time' = ChargedTime(current_pid)
        /\ schedule([proc_state EXCEPT ![current_pid] = "READY"],
                    enqueue(ready_queue, current_pid),
                    active_processes, io_processes)
        /\ current_quantum_start_time' = clock
        /\ UNCHANGED <<sem_value, sem_queue, active_processes, io_processes>>
     \/ ~ QuantumExpired /\ UNCHANGED kernelVars

\* Mutant of WakeFromIO: the processor is given away although a process runs.
WakeFromIO_always_schedules(pid) ==
  /\ io_processes' = io_processes - 1
  /\ current_quantum_start_time' = clock
  /\ schedule([proc_state EXCEPT ![pid] = "READY"], enqueue(ready_queue, pid),
              active_processes, io_processes - 1)
  /\ UNCHANGED <<cpu_time, sem_value, sem_queue, active_processes>>

\* Mutant of WakeFromIO: a completed request stays counted.
WakeFromIO_not_counted(pid) ==
  /\ IF current_pid = IDLE_PROCESS
     THEN /\ current_quantum_start_time' = clock
          /\ schedule([proc_state EXCEPT ![pid] = "READY"], enqueue(ready_queue, pid),
                      active_processes, io_processes)
     ELSE /\ proc_state' = [proc_state EXCEPT ![pid] = "READY"]
          /\ ready_queue' = enqueue(ready_queue, pid)
          /\ UNCHANGED <<current_pid, current_quantum_start_time, outcome>>
  /\ UNCHANGED <<cpu_time, sem_value, sem_queue, active_processes, io_processes>>

\* handle_disk_interrupt and handle_keyboard_interrupt: the same code twice.
WakeFromIO(pid) ==
  /\ io_processes' = io_processes - 1
  /\ \/ /\ current_pid = IDLE_PROCESS
        /\ current_quantum_start_time' = clock
        /\ schedule([proc_state EXCEPT ![pid] = "READY"], enqueue(ready_queue, pid),
                    active_processes, io_processes - 1)
     \/ /\ current_pid # IDLE_PROCESS
        /\ proc_state' = [proc_state EXCEPT ![pid] = "READY"]
        /\ ready_queue' = enqueue(ready_queue, pid)
        /\ UNCHANGED <<current_pid, current_quantum_start_time, outcome>>
  /\ UNCHANGED <<cpu_time, sem_value, sem_queue, active_processes>>

handle_disk_interrupt(pid) ==
  outcome = "up" /\ IOComplete(pid, "disk") /\ WakeFromIO(pid)

handle_keyboard_interrupt(pid) ==
  outcome = "up" /\ IOComplete(pid, "keyboard") /\ WakeFromIO(pid)

-----------------------------------------------------------------------------
initialize_kernel == initialize_state /\ ready_queue = <<>>

Init == HardwareInit /\ initialize_kernel

\* The parts of a tick in which no handler runs.
Tick == outcome = "up" /\ (EndRun \/ EndEvents \/ AdvanceClock) /\ UNCHANGED kernelVars

handle_trap ==
  \/ handle_disk_read
  \/ disk_write
  \/ handle_keyboard
  \/ \E pid \in Pids : handle_fork(pid)
  \/ handle_kill
  \/ \E s \in SemIds : handle_semaphore(s)

Interrupt ==
  \/ handle_clock_interrupt
  \/ \E pid \in Pids : handle_disk_interrupt(pid) \/ handle_keyboard_interrupt(pid)

\* exit(0) has been called: the simulation is over.
Exited == outcome # "up" /\ UNCHANGED vars

Next == handle_trap \/ Interrupt \/ Tick \/ Exited

Spec == Init /\ [][Next]_vars

\* What the simulator guarantees: a process has finitely many actions, so a
\* tick comes to its end, the clock goes on, a due clock interrupt is raised, and
\* an accepted request falls due in some later tick.  Nothing makes a process
\* trap: no trap is fair.
Fairness ==
  /\ WF_vars(Tick)
  /\ WF_vars(handle_clock_interrupt)
  /\ \A pid \in Pids : /\ SF_vars(handle_disk_interrupt(pid))
                       /\ SF_vars(handle_keyboard_interrupt(pid))

FairSpec == Spec /\ Fairness

-----------------------------------------------------------------------------
TypeOK == StateTypeOK /\ ready_queue \in Seq(Pids)

ReadyHome ==
  /\ \A p \in Pids : proc_state[p] = "READY" <=> p \in Elements(ready_queue)
  /\ NoDuplicates(ready_queue)

\* While the system is up every live process is in exactly one place, the one
\* its process table entry says: the processor, the ready queue (once), one
\* accepted I/O request, or the queue of one semaphore (once).  The table,
\* the queues and the drivers are updated by different statements of every
\* handler (e.g. kernel.c:195-216, 296-299, 343-353).
OneHome == outcome = "up" => RunningHome /\ ReadyHome /\ BlockedHome /\ WaitingApart

\* How the simulation ended is what became of the processes: "no more
\* processes" only when none is left, "DEADLOCKED SYSTEM" only when all that are
\* left wait on semaphores, with no read outstanding; and as long as it is up, a
\* process runs or a read is outstanding, so that it can go on.  The processor
\* is idle only with nothing ready (kernel.c:397-443).
VerdictIsTrue ==
  /\ outcome = "finished" => Live = {}
  /\ outcome = "deadlocked" =>
       /\ Live # {}
       /\ io_pending = {}
       /\ \A p \in Live : \E s \in SemIds : p \in Elements(sem_queue[s]) /\ sem_value[s] = 0
  /\ outcome = "up" /\ current_pid = IDLE_PROCESS => ready_queue = <<>> /\ io_pending # {}

\* Every millisecond is charged to the process that had the processor, once
\* and to nobody else, whatever handlers cut its quantum into pieces; only a
\* fork resets an account.
EveryMillisecondCharged ==
  [][\A p \in Pids :
       Used(p)' = IF phase = "advance" /\ p = current_pid THEN (Used(p) + 1) % INT_MOD
                  ELSE IF p \notin Live /\ p \in Live' THEN 0
                  ELSE Used(p)]_vars

Ahead(p, q, queue) ==
  \E i, j \in 1 .. Len(queue) : i < j /\ queue[i] = p /\ queue[j] = q

\* From `old` to `new`, who stays on a queue stays ahead of those behind it, and
\* ahead of newcomers: nobody behind it leaves before it.
KeepsOrder(old, new) ==
  \A p \in Elements(old) \cap Elements(new), q \in Pids :
    Ahead(p, q, old) \/ q \in Elements(new) \ Elements(old) => Ahead(p, q, new)

\* First come, first served, on the ready queue and on every semaphore,
\* whichever handlers enqueue and schedule (kernel.c:397-473).
NoOvertaking ==
  [][/\ KeepsOrder(ready_queue, ready_queue')
     /\ \A s \in SemIds : KeepsOrder(sem_queue[s], sem_queue[s]')]_vars

\* A ready process gets the processor, or the simulation ends: the ready
\* queue is served round robin and the clock interrupt preempts.
ReadyRuns ==
  \A p \in Pids : (outcome = "up" /\ proc_state[p] = "READY") ~>
                    (outcome # "up" \/ proc_state[p] = "RUNNING")

\* A process that waits for a read runs again, or the simulation ends.
ReadReturns ==
  \A p \in Pids : p \in Requesting ~> (outcome # "up" \/ proc_state[p] = "RUNNING")

(***************************************************************************)
(* kernel.c:117-121: "when an interrupt (of any kind) occurs, if the       *)
(* difference between the current time and the quantum start time is       *)
(* greater or equal to QUANTUM (40), then the current process has used up  *)
(* its quantum."                                                           *)
(***************************************************************************)
AnyInterruptEndsQuantum ==
  [][\A p \in Pids : Interrupt /\ current_pid = p /\ Elapsed >= QUANTUM =>
       proc_state'[p] # "RUNNING" \/ current_quantum_start_time' = clock]_vars

-----------------------------------------------------------------------------
\* Refinement: the state a client of the kernel can tell apart.
Manager == INSTANCE ProcessManager WITH
  NoPid <- IDLE_PROCESS,
  InitialCount <- INITIAL_SEMAPHORE_VALUE,
  UsedMod <- INT_MOD,
  ForkResets <- TRUE,
  running <- IF outcome = "up" THEN current_pid ELSE IDLE_PROCESS,
  ready <- Elements(ready_queue),
  reading <- Requesting,
  count <- [s \in SemIds |-> sem_value[s] - Len(sem_queue[s])],
  waiters <- sem_queue,
  used <- [p \in Pids |-> Used(p)],
  verdict <- outcome

\* The kernel is a process manager: every handler does one of its steps.
ManagesProcesses == Manager!Spec
=============================================================================
