------------------------------ MODULE Hardware ------------------------------
(***************************************************************************)
(* The simulated machine of Project 1 (hardware.o and drivers.o, whose     *)
(* interface is hardware.h and drivers.h): the millisecond clock, the      *)
(* order in which one tick raises traps, I/O interrupts and the clock      *)
(* interrupt, and the I/O requests a driver has accepted.  It is external  *)
(* code, shared by the kernels of "Project 1" and "Project 1 Honors".      *)
(*                                                                         *)
(* One tick of the machine is                                              *)
(*   "run"     the current process raises zero or more traps,              *)
(*   "events"  the I/O requests that are due raise their interrupts,       *)
(*   "timer"   the clock interrupt, on the ticks that have one,            *)
(*   "advance" the clock moves on by one millisecond.                      *)
(***************************************************************************)
EXTENDS Integers

CONSTANTS
  Pids,                    \* process identifiers, 0 .. MAX_NUMBER_OF_PROCESSES-1
  CLOCK_INTERRUPT_PERIOD,  \* milliseconds between two clock interrupts (10)
  CLOCK_MOD                \* the clock is an unsigned int: counts modulo 2^32

ASSUME PeriodAssumption == CLOCK_INTERRUPT_PERIOD \in Nat \ {0}
ASSUME ClockAssumption == CLOCK_MOD \in Nat \ {0}

VARIABLES
  clock,       \* CLOCK_TIME clock
  phase,       \* where the machine is in the current tick
  io_pending   \* the accepted requests: <<pid, kind>> pairs

hardwareVars == <<clock, phase, io_pending>>

Phases == {"run", "events", "timer", "advance"}
IOKinds == {"disk", "keyboard"}
Times == 0 .. CLOCK_MOD - 1

HardwareTypeOK ==
  /\ clock \in Times
  /\ phase \in Phases
  /\ io_pending \in SUBSET (Pids \X IOKinds)

HardwareInit ==
  /\ clock = 0
  /\ phase = "run"
  /\ io_pending = {}

\* A clock interrupt is raised every period, but not at time 0.
TimerDue == clock > 0 /\ clock % CLOCK_INTERRUPT_PERIOD = 0

\* disk_read_req and keyboard_read_req: the driver queues the completion event.
IORequest(pid, kind) == io_pending' = io_pending \cup {<<pid, kind>>}

\* A due completion event is taken off the event queue and raises its interrupt.
IOComplete(pid, kind) ==
  /\ phase = "events"
  /\ <<pid, kind>> \in io_pending
  /\ io_pending' = io_pending \ {<<pid, kind>>}
  /\ UNCHANGED <<clock, phase>>

\* The current process executes its "run" action, or the processor is idle.
EndRun ==
  /\ phase = "run"
  /\ phase' = "events"
  /\ UNCHANGED <<clock, io_pending>>

\* No event is due at this tick any more.
EndEvents ==
  /\ phase = "events"
  /\ phase' = IF TimerDue THEN "timer" ELSE "advance"
  /\ UNCHANGED <<clock, io_pending>>

\* The clock interrupt is raised once.
RaiseTimer ==
  /\ phase = "timer"
  /\ phase' = "advance"
  /\ UNCHANGED <<clock, io_pending>>

AdvanceClock ==
  /\ phase = "advance"
  /\ phase' = "run"
  /\ clock' = (clock + 1) % CLOCK_MOD
  /\ UNCHANGED io_pending
=============================================================================
