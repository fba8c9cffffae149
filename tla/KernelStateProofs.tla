-------------------------- MODULE KernelStateProofs --------------------------
(***************************************************************************)
(* Lemmas about what the two kernels of Project 1 have in common: queues,  *)
(* the arithmetic of clock and CPU accounts, and the requests.             *)
(***************************************************************************)
EXTENDS KernelState, Arithmetic

-----------------------------------------------------------------------------
(* Queues.                                                                 *)

\* A queue of processes has processes on it.
LEMMA ElementsArePids ==
  ASSUME NEW q \in Seq(Pids)
  PROVE  Elements(q) \subseteq Pids
  BY DEF Elements

\* enqueue adds its process to the elements of the queue.
LEMMA AppendElements ==
  ASSUME NEW q \in Seq(Pids), NEW p \in Pids
  PROVE  /\ Append(q, p) \in Seq(Pids)
         /\ Append(q, p) # <<>>
         /\ Elements(Append(q, p)) = Elements(q) \cup {p}
  BY DEF Elements

\* A process that is not on a queue without duplicates can be enqueued on it.
LEMMA AppendNoDuplicates ==
  ASSUME NEW q \in Seq(Pids), NEW p \in Pids, p \notin Elements(q), NoDuplicates(q)
  PROVE  NoDuplicates(Append(q, p))
  BY DEF Elements, NoDuplicates

\* Taking the head off a queue leaves the other elements.
LEMMA HeadTail ==
  ASSUME NEW q \in Seq(Pids), q # <<>>
  PROVE  /\ Head(q) \in Pids
         /\ Tail(q) \in Seq(Pids)
         /\ Elements(q) = Elements(Tail(q)) \cup {Head(q)}
  BY DEF Elements

\* ... and, without duplicates, takes the process off the queue.
LEMMA HeadTailNoDuplicates ==
  ASSUME NEW q \in Seq(Pids), q # <<>>, NoDuplicates(q)
  PROVE  /\ NoDuplicates(Tail(q))
         /\ Head(q) \notin Elements(Tail(q))
  BY DEF Elements, NoDuplicates

\* Only the empty queue has no elements.
LEMMA NoElements ==
  ASSUME NEW q \in Seq(Pids)
  PROVE  q = <<>> <=> Elements(q) = {}
<1>1. CASE q = <<>>
  BY <1>1 DEF Elements
<1>2. CASE q # <<>>
  BY <1>2, HeadTail
<1> QED
  BY <1>1, <1>2

\* schedule() finds no blocked process at the front of the ready queue.
LEMMA NothingToClear ==
  ASSUME NEW table, NEW q \in Seq(Pids), \A p \in Elements(q) : table[p] # "BLOCKED"
  PROVE  ClearBlocked(table, q) = q
<1> DEFINE kept == {i \in 1 .. Len(q) : table[q[i]] # "BLOCKED"}
<1>1. kept = 1 .. Len(q)
  BY DEF Elements
<1>2. CASE q = <<>>
  BY <1>1, <1>2 DEF ClearBlocked
<1>3. CASE q # <<>>
  <2>1. 1 \in 1 .. Len(q)
    BY <1>3
  <2>2. (CHOOSE i \in kept : \A j \in kept : i <= j) = 1
    BY <1>1, <2>1
  <2>3. SubSeq(q, 1, Len(q)) = q
    OBVIOUS
  <2> QED
    BY <1>1, <2>1, <2>2, <2>3 DEF ClearBlocked
<1> QED
  BY <1>2, <1>3

-----------------------------------------------------------------------------
(* The clock and the CPU accounts.                                         *)

\* clock - current_quantum_start_time is a time again.
LEMMA ElapsedType ==
  ASSUME StateTypeOK
  PROVE  Elapsed \in Times
  BY ModRange, ClockAssumption DEF StateTypeOK, HardwareTypeOK, Times, Elapsed

\* What a handler writes into total_CPU_time_used keeps its type.
LEMMA ChargedTimeType ==
  ASSUME StateTypeOK, NEW pid \in Pids
  PROVE  ChargedTime(pid) \in [Pids -> 0 .. INT_MOD - 1]
<1>1. Elapsed \in Int
  BY ElapsedType, ClockAssumption DEF Times
<1>2. cpu_time[pid] + Elapsed \in Int
  BY <1>1, IntModAssumption DEF StateTypeOK
<1>3. (cpu_time[pid] + Elapsed) % INT_MOD \in 0 .. INT_MOD - 1
  BY <1>2, ModRange, IntModAssumption
<1> QED
  BY <1>3 DEF StateTypeOK, ChargedTime

\* A process' account, the part not yet charged included, when it is not the
\* running one, and when it is.
LEMMA UsedValue ==
  ASSUME StateTypeOK, NEW p \in Pids
  PROVE  /\ Used(p) \in 0 .. INT_MOD - 1
         /\ ~ (outcome = "up" /\ current_pid = p) => Used(p) = cpu_time[p]
         /\ outcome = "up" /\ current_pid = p => Used(p) = ChargedTime(p)[p]
<1>1. Elapsed \in Int /\ cpu_time[p] \in 0 .. INT_MOD - 1
  BY ElapsedType, ClockAssumption DEF Times, StateTypeOK
<1>2. CASE outcome = "up" /\ current_pid = p
  <2>1. Used(p) = (cpu_time[p] + Elapsed) % INT_MOD
    BY <1>2 DEF Used
  <2>2. cpu_time[p] + Elapsed \in Int
    BY <1>1, IntModAssumption
  <2>3. Used(p) \in 0 .. INT_MOD - 1
    BY <2>1, <2>2, ModRange, IntModAssumption
  <2>4. ChargedTime(p)[p] = (cpu_time[p] + Elapsed) % INT_MOD
    BY DEF ChargedTime, StateTypeOK
  <2> QED
    BY <1>2, <2>1, <2>3, <2>4
<1>3. CASE ~ (outcome = "up" /\ current_pid = p)
  <2>1. Used(p) = (cpu_time[p] + 0) % INT_MOD
    BY <1>3 DEF Used
  <2>2. cpu_time[p] + 0 = cpu_time[p]
    BY <1>1, IntModAssumption
  <2>3. Used(p) = cpu_time[p]
    BY <1>1, <2>1, <2>2, ModSmall, IntModAssumption
  <2> QED
    BY <1>1, <1>3, <2>3
<1> QED
  BY <1>2, <1>3

\* A handler that gives the processor away charges the process that had it and
\* starts a new quantum: no account changes.
LEMMA ChargeKeepsUsed ==
  ASSUME StateTypeOK, StateTypeOK', outcome = "up", UNCHANGED clock,
         current_quantum_start_time' = clock,
         cpu_time' = IF current_pid = IDLE_PROCESS THEN cpu_time ELSE ChargedTime(current_pid)
  PROVE  \A p \in Pids : Used(p)' = Used(p)
<1> TAKE p \in Pids
<1>1. Elapsed' = 0
  <2>1. clock' - current_quantum_start_time' = 0
    BY ClockAssumption DEF StateTypeOK, HardwareTypeOK, Times
  <2>2. 0 % CLOCK_MOD = 0
    BY ModSmall, ClockAssumption
  <2> QED
    BY <2>1, <2>2 DEF Elapsed
<1>2. cpu_time'[p] \in 0 .. INT_MOD - 1
  BY DEF StateTypeOK
<1>3. Used(p)' = cpu_time'[p]
  <2>1. Used(p)' = cpu_time'[p] % INT_MOD
    BY <1>1, <1>2, IntModAssumption DEF Used
  <2> QED
    BY <1>2, <2>1, ModSmall, IntModAssumption
<1>4. CASE current_pid = p
  <2>1. cpu_time' = ChargedTime(p)
    BY <1>4, IdleAssumption
  <2> QED
    BY <1>3, <1>4, <2>1, UsedValue
<1>5. CASE current_pid # p
  <2>1. cpu_time'[p] = cpu_time[p]
    BY <1>5, IdleAssumption DEF ChargedTime, StateTypeOK
  <2> QED
    BY <1>3, <1>5, <2>1, UsedValue
<1> QED
  BY <1>4, <1>5

\* A millisecond more on the clock is a millisecond more of the quantum.
LEMMA ElapsedAdvances ==
  ASSUME StateTypeOK, clock' = (clock + 1) % CLOCK_MOD, UNCHANGED current_quantum_start_time
  PROVE  Elapsed' = (Elapsed + 1) % CLOCK_MOD
<1> DEFINE s == current_quantum_start_time
<1>1. clock \in Int /\ s \in Int
  BY ClockAssumption DEF StateTypeOK, HardwareTypeOK, Times
<1>2. Elapsed' = (((clock + 1) % CLOCK_MOD) + (0 - s)) % CLOCK_MOD
  <2>1. (clock + 1) % CLOCK_MOD \in Int
    BY <1>1, ModRange, ClockAssumption
  <2>2. ((clock + 1) % CLOCK_MOD) - s = ((clock + 1) % CLOCK_MOD) + (0 - s)
    BY <1>1, <2>1
  <2> QED
    BY <2>2 DEF Elapsed
<1>3. Elapsed' = ((clock + 1) + (0 - s)) % CLOCK_MOD
  <2>1. clock + 1 \in Int /\ 0 - s \in Int
    BY <1>1
  <2> QED
    BY <1>2, <2>1, ModAdd, ClockAssumption
<1>4. (Elapsed + 1) % CLOCK_MOD = ((clock - s) + 1) % CLOCK_MOD
  <2>1. clock - s \in Int
    BY <1>1
  <2> QED
    BY <2>1, ModAdd, ClockAssumption DEF Elapsed
<1>5. (clock + 1) + (0 - s) = (clock - s) + 1
  BY <1>1
<1> QED
  BY <1>3, <1>4, <1>5

\* ... and is charged to the running process alone, also when the clock wraps, if
\* it is no narrower than the accounts.
LEMMA MillisecondCharged ==
  ASSUME StateTypeOK, StateTypeOK', outcome = "up", CLOCK_MOD % INT_MOD = 0,
         clock' = (clock + 1) % CLOCK_MOD,
         UNCHANGED <<current_pid, current_quantum_start_time, cpu_time, outcome>>
  PROVE  \A p \in Pids : Used(p)' = IF p = current_pid THEN (Used(p) + 1) % INT_MOD ELSE Used(p)
<1> TAKE p \in Pids
<1>1. CASE p # current_pid
  BY <1>1 DEF Used
<1>2. CASE p = current_pid
  <2> DEFINE c == cpu_time[p]
             e == Elapsed
  <2>1. c \in Int /\ e \in 0 .. CLOCK_MOD - 1
    BY ElapsedType, IntModAssumption DEF Times, StateTypeOK
  <2>2. Used(p) = (c + e) % INT_MOD /\ Used(p)' = (c + Elapsed') % INT_MOD
    BY <1>2 DEF Used
  <2>3. (Used(p) + 1) % INT_MOD = ((c + e) + 1) % INT_MOD
    <3>1. c + e \in Int
      BY <2>1, ClockAssumption
    <3> QED
      BY <2>2, <3>1, ModAdd, IntModAssumption
  <2>4. Elapsed' = (e + 1) % CLOCK_MOD
    BY ElapsedAdvances
  <2>5. CASE e + 1 < CLOCK_MOD
    <3>1. e + 1 \in 0 .. CLOCK_MOD - 1
      BY <2>1, <2>5, ClockAssumption
    <3>2. Elapsed' = e + 1
      BY <2>4, <3>1, ModSmall, ClockAssumption
    <3>3. c + (e + 1) = (c + e) + 1
      BY <2>1, ClockAssumption
    <3> QED
      BY <1>2, <2>2, <2>3, <3>2, <3>3
  <2>6. CASE e + 1 = CLOCK_MOD
    <3>1. Elapsed' = 0
      <4>1. (0 + CLOCK_MOD) % CLOCK_MOD = 0 % CLOCK_MOD
        <5>1. CLOCK_MOD % CLOCK_MOD = 0
          <6>1. (CLOCK_MOD * 1 + 0) % CLOCK_MOD = 0
            BY ModUnique, ClockAssumption
          <6> QED
            BY <6>1, ClockAssumption
        <5> QED
          BY <5>1, ClockAssumption, ModSmall
      <4>2. 0 % CLOCK_MOD = 0 /\ 0 + CLOCK_MOD = CLOCK_MOD
        BY ModSmall, ClockAssumption
      <4> QED
        BY <2>4, <2>6, <4>1, <4>2
    <3>2. (c + e) + 1 = c + CLOCK_MOD /\ c + 0 = c
      BY <2>1, <2>6, ClockAssumption
    <3>3. (c + CLOCK_MOD) % INT_MOD = c % INT_MOD
      BY <2>1, ModDivides, ClockAssumption, IntModAssumption
    <3> QED
      BY <1>2, <2>2, <2>3, <3>1, <3>2, <3>3
  <2> QED
    BY <2>1, <2>5, <2>6, ClockAssumption
<1> QED
  BY <1>1, <1>2

-----------------------------------------------------------------------------
(* The clock interrupts.                                                   *)

\* From the last clock interrupt before the clock wraps to the wrap.
WrapRest ==
  IF CLOCK_MOD % CLOCK_INTERRUPT_PERIOD = 0 THEN CLOCK_INTERRUPT_PERIOD
  ELSE CLOCK_MOD % CLOCK_INTERRUPT_PERIOD

\* The milliseconds since the last clock interrupt was handled, or more.
SinceTimer ==
  IF TimerDue /\ phase = "advance" THEN 0
  ELSE IF clock > CLOCK_INTERRUPT_PERIOD THEN ((clock - 1) % CLOCK_INTERRUPT_PERIOD) + 1
  ELSE clock + WrapRest

\* A clock interrupt is never further away than LongestPeriod.
LEMMA SinceTimerBounded ==
  ASSUME StateTypeOK
  PROVE  /\ WrapRest \in 1 .. CLOCK_INTERRUPT_PERIOD
         /\ LongestPeriod = CLOCK_INTERRUPT_PERIOD + WrapRest
         /\ SinceTimer \in 0 .. LongestPeriod
<1> DEFINE T == CLOCK_INTERRUPT_PERIOD
<1>1. CLOCK_MOD % T \in 0 .. T - 1
  BY ModRange, PeriodAssumption, ClockAssumption
<1>2. WrapRest \in 1 .. T
  BY <1>1, PeriodAssumption DEF WrapRest
<1>3. LongestPeriod = T + WrapRest
  BY DEF LongestPeriod, WrapRest
<1>4. clock \in Nat
  BY ClockAssumption DEF StateTypeOK, HardwareTypeOK, Times
<1>5. (clock - 1) % T \in 0 .. T - 1
  <2>1. clock - 1 \in Int
    BY <1>4
  <2> QED
    BY <2>1, ModRange, PeriodAssumption
<1> DEFINE r == (clock - 1) % T
<1> HIDE DEF r
<1>6. r \in 0 .. T - 1 /\ SinceTimer = IF TimerDue /\ phase = "advance" THEN 0
                                     ELSE IF clock > T THEN r + 1 ELSE clock + WrapRest
  BY <1>5 DEF r, SinceTimer
<1> QED
  BY <1>2, <1>3, <1>4, <1>6, PeriodAssumption

\* The clock does not reach a multiple of the period, nor the wrap, unnoticed:
\* what SinceTimer says grows with every millisecond.
LEMMA SinceTimerAdvances ==
  ASSUME StateTypeOK, CLOCK_MOD > CLOCK_INTERRUPT_PERIOD, AdvanceClock
  PROVE  SinceTimer' >= SinceTimer + 1
<1> DEFINE T == CLOCK_INTERRUPT_PERIOD
           c == clock
           r == (c - 1) % T
           d == c % T
           m == CLOCK_MOD % T
<1>1. T \in Nat \ {0} /\ CLOCK_MOD \in Nat \ {0} /\ c \in 0 .. CLOCK_MOD - 1
  BY PeriodAssumption, ClockAssumption DEF StateTypeOK, HardwareTypeOK, Times
<1>2. r \in 0 .. T - 1 /\ d \in 0 .. T - 1 /\ m \in 0 .. T - 1
  <2>1. c - 1 \in Int /\ c \in Int
    BY <1>1
  <2> QED
    BY <1>1, <2>1, ModRange
<1>3. d = IF r = T - 1 THEN 0 ELSE r + 1
  <2>1. c - 1 \in Int /\ (c - 1) + 1 = c
    BY <1>1
  <2> QED
    BY <1>1, <2>1, ModNext
<1>4. (c + 1) % T = IF d = T - 1 THEN 0 ELSE d + 1
  <2>1. c \in Int
    BY <1>1
  <2> QED
    BY <1>1, <2>1, ModNext
<1>5. phase = "advance" /\ phase' = "run" /\ clock' = (c + 1) % CLOCK_MOD
  BY DEF AdvanceClock
<1>6. c < T => d = c
  BY <1>1, ModSmall
<1>7. c = T => d = 0
  <2>1. (T * 1 + 0) % T = 0 /\ T * 1 + 0 = T
    BY <1>1, ModUnique
  <2> QED
    BY <2>1
<1>8. TimerDue <=> c > 0 /\ d = 0
  BY DEF TimerDue
<1>9. WrapRest \in 1 .. T
  BY SinceTimerBounded
<1>10. SinceTimer = IF c > 0 /\ d = 0 THEN 0 ELSE IF c > T THEN r + 1 ELSE c + WrapRest
  BY <1>5, <1>8 DEF SinceTimer
<1>11. CASE c + 1 < CLOCK_MOD
  <2>1. clock' = c + 1
    <3>1. c + 1 \in 0 .. CLOCK_MOD - 1
      BY <1>1, <1>11
    <3> QED
      BY <1>1, <1>5, <3>1, ModSmall
  <2>2. clock' - 1 = c
    BY <1>1, <2>1
  <2>3. SinceTimer' = IF clock' > T THEN d + 1 ELSE clock' + WrapRest
    BY <1>5, <2>2 DEF SinceTimer, WrapRest
  <2> HIDE DEF c, r, d, m, T
  <2> QED
    BY <1>1, <1>2, <1>3, <1>6, <1>7, <1>9, <1>10, <2>1, <2>3
<1>12. CASE c + 1 = CLOCK_MOD
  <2>1. clock' = 0
    <3>1. (CLOCK_MOD * 1 + 0) % CLOCK_MOD = 0 /\ CLOCK_MOD * 1 + 0 = CLOCK_MOD
      BY <1>1, ModUnique
    <3> QED
      BY <1>5, <1>12, <3>1
  <2>2. SinceTimer' = WrapRest
    <3>1. 0 + WrapRest = WrapRest /\ ~ (0 > T)
      BY <1>1, <1>9
    <3> QED
      BY <1>5, <2>1, <3>1 DEF SinceTimer, WrapRest
  <2>3. m = IF d = T - 1 THEN 0 ELSE d + 1
    BY <1>4, <1>12
  <2>4. WrapRest = IF m = 0 THEN T ELSE m
    BY DEF WrapRest
  <2> HIDE DEF c, r, d, m, T
  <2> QED
    BY <1>1, <1>2, <1>3, <1>6, <1>7, <1>9, <1>10, <1>12, <2>2, <2>3, <2>4 DEF T
<1> QED
  BY <1>1, <1>11, <1>12

\* The bound of a quantum, with the clock interrupts that are still to come.
QuantumLeft ==
  outcome = "up" /\ current_pid # IDLE_PROCESS => Elapsed < QUANTUM + SinceTimer

\* It is what keeps QuantumBound.
LEMMA QuantumLeftBounds ==
  ASSUME StateTypeOK, QuantumLeft
  PROVE  QuantumBound
<1>1. Elapsed \in Int /\ QUANTUM \in Nat
  BY ElapsedType, QuantumAssumption, ClockAssumption DEF Times
<1>2. SinceTimer \in 0 .. LongestPeriod /\ LongestPeriod \in Nat
  BY SinceTimerBounded, PeriodAssumption
<1> QED
  BY <1>1, <1>2 DEF QuantumLeft, QuantumBound

\* A clock narrower than the period never reaches the bound.
LEMMA NarrowClockBounds ==
  ASSUME StateTypeOK, CLOCK_MOD <= CLOCK_INTERRUPT_PERIOD
  PROVE  QuantumBound
<1>1. Elapsed \in Int /\ QUANTUM \in Nat /\ Elapsed < CLOCK_MOD /\ CLOCK_MOD \in Nat
  BY ElapsedType, QuantumAssumption, ClockAssumption DEF Times
<1>2. LongestPeriod > CLOCK_INTERRUPT_PERIOD /\ LongestPeriod \in Nat
  BY SinceTimerBounded, PeriodAssumption
<1> QED
  BY <1>1, <1>2, PeriodAssumption DEF QuantumBound

\* SinceTimer is a natural number, before a step and after it.
SinceTimerOK == SinceTimer \in Nat

\* It is one where the state has its type ...
LEMMA SinceTimerType == StateTypeOK => SinceTimerOK
  BY SinceTimerBounded, PeriodAssumption DEF SinceTimerOK

\* ... and so it is after a step.
LEMMA SinceTimerTypeNext == StateTypeOK' => SinceTimerOK'
  BY SinceTimerType, PTL

\* A new quantum has its whole length before it.
LEMMA NewQuantum ==
  ASSUME StateTypeOK, StateTypeOK', QUANTUM # 0, UNCHANGED clock, current_quantum_start_time' = clock
  PROVE  QuantumLeft'
<1>1. Elapsed' = 0
  <2>1. clock' - current_quantum_start_time' = 0
    BY ClockAssumption DEF StateTypeOK, HardwareTypeOK, Times
  <2> QED
    BY <2>1, ModSmall, ClockAssumption DEF Elapsed
<1>2. SinceTimer' \in Nat
  BY SinceTimerTypeNext DEF SinceTimerOK
<1>3. Elapsed' < QUANTUM + SinceTimer'
  <2>1. \A n \in Nat : 0 < QUANTUM + n
    BY QuantumAssumption
  <2> QED
    BY <1>1, <1>2, <2>1
<1> QED
  BY <1>3 DEF QuantumLeft

-----------------------------------------------------------------------------
(* The requests.                                                           *)

\* The drivers hold finitely many requests.
LEMMA FiniteRequests ==
  ASSUME NEW R, R \subseteq Pids \X IOKinds
  PROVE  IsFiniteSet(R)
<1>1. IsFiniteSet({"disk"} \cup {"keyboard"})
  BY FS_Singleton, FS_Union
<1>2. IsFiniteSet(Pids \X IOKinds)
  BY <1>1, PidsAssumption, FS_Product DEF IOKinds
<1> QED
  BY <1>2, FS_Subset

-----------------------------------------------------------------------------
(* Who waits, and for what.                                                *)

\* A process waits for a read or on a semaphore: BlockedHome says that it is
\* BLOCKED exactly then.
Waits(p) == p \in Requesting \/ \E s \in SemIds : p \in Elements(sem_queue[s])

\* An accepted request makes its process wait.
LEMMA RequestWaits ==
  ASSUME StateTypeOK, WaitingApart, NEW pid \in Pids, ~ Waits(pid), NEW kind \in IOKinds,
         IORequest(pid, kind), UNCHANGED sem_queue
  PROVE  /\ io_pending' \in SUBSET (Pids \X IOKinds)
         /\ Cardinality(io_pending') = Cardinality(io_pending) + 1
         /\ Requesting' = Requesting \cup {pid}
         /\ WaitingApart'
         /\ \A p \in Pids : Waits(p)' <=> Waits(p) \/ p = pid
<1>0. <<pid, kind>>[1] = pid
  OBVIOUS
<1>1. io_pending' = io_pending \cup {<<pid, kind>>} /\ io_pending' \in SUBSET (Pids \X IOKinds)
  BY DEF IORequest, StateTypeOK, HardwareTypeOK
<1>2. Requesting' = Requesting \cup {pid}
  BY <1>0, <1>1 DEF Requesting
<1>3. Cardinality(io_pending') = Cardinality(io_pending) + 1
  <2>1. <<pid, kind>> \notin io_pending
    BY <1>0 DEF Waits, Requesting
  <2>2. IsFiniteSet(io_pending)
    BY FiniteRequests DEF StateTypeOK, HardwareTypeOK
  <2> QED
    BY <1>1, <2>1, <2>2, FS_AddElement
<1>4. WaitingApart'
  <2>1. \A r, q \in io_pending' : r[1] = q[1] => r = q
    BY <1>0, <1>1 DEF WaitingApart, Waits, Requesting
  <2>2. \A s \in SemIds : Elements(sem_queue[s]) \cap Requesting' = {}
    BY <1>2 DEF WaitingApart, Waits
  <2> QED
    BY <2>1, <2>2 DEF WaitingApart
<1> QED
  BY <1>1, <1>2, <1>3, <1>4 DEF Waits

\* A completed request was what its process waited for, and all it waited for.
LEMMA CompletionWaits ==
  ASSUME StateTypeOK, WaitingApart, NEW pid \in Pids, NEW kind \in IOKinds,
         IOComplete(pid, kind), UNCHANGED sem_queue
  PROVE  /\ io_pending' \in SUBSET (Pids \X IOKinds)
         /\ Cardinality(io_pending') = Cardinality(io_pending) - 1
         /\ pid \in Requesting
         /\ Requesting' = Requesting \ {pid}
         /\ WaitingApart'
         /\ \A p \in Pids : Waits(p)' <=> Waits(p) /\ p # pid
<1>0. <<pid, kind>>[1] = pid
  OBVIOUS
<1>1. /\ <<pid, kind>> \in io_pending
      /\ io_pending' = io_pending \ {<<pid, kind>>}
      /\ io_pending' \in SUBSET (Pids \X IOKinds)
  BY DEF IOComplete, StateTypeOK, HardwareTypeOK
<1>2. pid \in Requesting
  BY <1>0, <1>1 DEF Requesting
<1>3. Requesting' = Requesting \ {pid}
  <2>1. \A r \in io_pending : r[1] = pid <=> r = <<pid, kind>>
    BY <1>0, <1>1 DEF WaitingApart
  <2>2. pid \notin Requesting'
    BY <1>1, <2>1 DEF Requesting
  <2>3. Requesting' \subseteq Requesting
    BY <1>1 DEF Requesting
  <2>4. ASSUME NEW p \in Requesting, p # pid
        PROVE  p \in Requesting'
    <3>1. PICK r \in io_pending : r[1] = p
      BY <2>4 DEF Requesting
    <3>2. r \in io_pending'
      BY <1>0, <1>1, <2>4, <3>1
    <3> QED
      BY <3>1, <3>2 DEF Requesting
  <2> QED
    BY <2>2, <2>3, <2>4
<1>4. Cardinality(io_pending') = Cardinality(io_pending) - 1
  <2>1. IsFiniteSet(io_pending)
    BY FiniteRequests DEF StateTypeOK, HardwareTypeOK
  <2> QED
    BY <1>1, <2>1, FS_RemoveElement
<1>5. WaitingApart'
  BY <1>1, <1>3 DEF WaitingApart
<1>6. \A s \in SemIds : pid \notin Elements(sem_queue[s])
  BY <1>2 DEF WaitingApart
<1> QED
  BY <1>1, <1>2, <1>3, <1>4, <1>5, <1>6 DEF Waits

\* A process that is enqueued on a semaphore waits on it.
LEMMA EnqueueWaits ==
  ASSUME StateTypeOK, WaitingApart, NEW pid \in Pids, ~ Waits(pid), NEW s \in SemIds,
         sem_queue' = [sem_queue EXCEPT ![s] = Append(@, pid)], UNCHANGED io_pending
  PROVE  /\ sem_queue' \in [SemIds -> Seq(Pids)]
         /\ \A t \in SemIds : sem_queue'[t] = IF t = s THEN Append(sem_queue[s], pid)
                                              ELSE sem_queue[t]
         /\ Requesting' = Requesting
         /\ WaitingApart'
         /\ \A p \in Pids : Waits(p)' <=> Waits(p) \/ p = pid
<1>1. sem_queue \in [SemIds -> Seq(Pids)]
  BY DEF StateTypeOK
<1>2. /\ Append(sem_queue[s], pid) \in Seq(Pids)
      /\ Elements(Append(sem_queue[s], pid)) = Elements(sem_queue[s]) \cup {pid}
      /\ NoDuplicates(Append(sem_queue[s], pid))
  BY <1>1, AppendElements, AppendNoDuplicates DEF WaitingApart, Waits
<1>3. \A t \in SemIds : sem_queue'[t] = IF t = s THEN Append(sem_queue[s], pid) ELSE sem_queue[t]
  BY <1>1
<1>4. sem_queue' \in [SemIds -> Seq(Pids)]
  BY <1>1, <1>2
<1>5. Requesting' = Requesting
  BY DEF Requesting
<1>6. /\ Elements(sem_queue'[s]) = Elements(sem_queue[s]) \cup {pid}
      /\ \A t \in SemIds : t # s => Elements(sem_queue'[t]) = Elements(sem_queue[t])
  <2>1. sem_queue'[s] = Append(sem_queue[s], pid)
    BY <1>3
  <2>2. \A t \in SemIds : t # s => sem_queue'[t] = sem_queue[t]
    BY <1>3
  <2> QED
    BY <1>2, <2>1, <2>2
<1>7. WaitingApart'
  <2>1. \A t \in SemIds : /\ NoDuplicates(sem_queue'[t])
                          /\ Elements(sem_queue'[t]) \cap Requesting = {}
    BY <1>2, <1>3, <1>6 DEF WaitingApart, Waits
  <2>2. \A t, u \in SemIds : t # u => Elements(sem_queue'[t]) \cap Elements(sem_queue'[u]) = {}
    BY <1>6 DEF WaitingApart, Waits
  <2> QED
    BY <1>5, <2>1, <2>2 DEF WaitingApart
<1> QED
  BY <1>3, <1>4, <1>5, <1>6, <1>7 DEF Waits

\* The process at the head of a semaphore's queue, taken off it, waits no more.
LEMMA DequeueWaits ==
  ASSUME StateTypeOK, WaitingApart, NEW s \in SemIds, sem_queue[s] # <<>>,
         sem_queue' = [sem_queue EXCEPT ![s] = Tail(@)], UNCHANGED io_pending
  PROVE  /\ sem_queue' \in [SemIds -> Seq(Pids)]
         /\ \A t \in SemIds : sem_queue'[t] = IF t = s THEN Tail(sem_queue[s]) ELSE sem_queue[t]
         /\ Head(sem_queue[s]) \in Pids
         /\ Waits(Head(sem_queue[s]))
         /\ Requesting' = Requesting
         /\ WaitingApart'
         /\ \A p \in Pids : Waits(p)' <=> Waits(p) /\ p # Head(sem_queue[s])
<1> DEFINE pid == Head(sem_queue[s])
<1>1. sem_queue \in [SemIds -> Seq(Pids)]
  BY DEF StateTypeOK
<1>2. /\ pid \in Pids
      /\ Tail(sem_queue[s]) \in Seq(Pids)
      /\ Elements(sem_queue[s]) = Elements(Tail(sem_queue[s])) \cup {pid}
      /\ NoDuplicates(Tail(sem_queue[s]))
      /\ pid \notin Elements(Tail(sem_queue[s]))
  BY <1>1, HeadTail, HeadTailNoDuplicates DEF WaitingApart
<1>3. \A t \in SemIds : sem_queue'[t] = IF t = s THEN Tail(sem_queue[s]) ELSE sem_queue[t]
  BY <1>1
<1>4. sem_queue' \in [SemIds -> Seq(Pids)]
  BY <1>1, <1>2
<1>5. Requesting' = Requesting
  BY DEF Requesting
<1>6. pid \in Elements(sem_queue[s])
  BY <1>2
<1> HIDE DEF pid
<1>7. \A t \in SemIds : Elements(sem_queue'[t]) = Elements(sem_queue[t]) \ {pid}
  BY <1>2, <1>3, <1>6 DEF WaitingApart
<1>8. WaitingApart'
  <2>1. \A t \in SemIds : /\ NoDuplicates(sem_queue'[t])
                          /\ Elements(sem_queue'[t]) \cap Requesting = {}
    BY <1>2, <1>3, <1>7 DEF WaitingApart
  <2>2. \A t, u \in SemIds : t # u => Elements(sem_queue'[t]) \cap Elements(sem_queue'[u]) = {}
    BY <1>7 DEF WaitingApart
  <2> QED
    BY <1>5, <2>1, <2>2 DEF WaitingApart
<1>9. pid \notin Requesting
  BY <1>6 DEF WaitingApart
<1> QED
  BY <1>2, <1>3, <1>4, <1>5, <1>6, <1>7, <1>8, <1>9 DEF Waits, pid

-----------------------------------------------------------------------------
(* What the kernels' refinements of ProcessManager map count and used to.  *)

Units == [s \in SemIds |-> sem_value[s] - Len(sem_queue[s])]
Accounts == [p \in Pids |-> Used(p)]

\* A value that changes by one is a unit more or less.
LEMMA UnitsOfValue ==
  ASSUME StateTypeOK, NEW s \in SemIds, NEW change \in {1, -1},
         sem_value' = [sem_value EXCEPT ![s] = @ + change], UNCHANGED sem_queue
  PROVE  Units' = [Units EXCEPT ![s] = @ + change]
<1>1. /\ sem_value \in [SemIds -> 0 .. MaxSemValue] /\ MaxSemValue \in Nat
      /\ sem_queue \in [SemIds -> Seq(Pids)]
  BY SemaphoreAssumption DEF StateTypeOK
<1>2. \A t \in SemIds : Len(sem_queue[t]) \in Nat
  BY <1>1
<1>3. \A t \in SemIds : sem_value'[t] = IF t = s THEN sem_value[s] + change ELSE sem_value[t]
  BY <1>1
<1>4. \A t \in SemIds : Units'[t] = IF t = s THEN Units[t] + change ELSE Units[t]
  BY <1>1, <1>2, <1>3 DEF Units
<1>5. Units = [t \in SemIds |-> Units[t]] /\ Units' = [t \in SemIds |-> Units'[t]]
  BY DEF Units
<1> QED
  BY <1>4, <1>5

\* A semaphore nobody waits on has as many units as its value says.
LEMMA UnitsWithoutWaiters ==
  ASSUME StateTypeOK, NEW s \in SemIds, sem_queue[s] = <<>>
  PROVE  Units[s] = sem_value[s] /\ Units[s] \in Nat
<1>1. sem_value[s] \in Nat
  BY SemaphoreAssumption DEF StateTypeOK
<1> QED
  BY <1>1 DEF Units

\* A waiter that leaves gets a unit ...
LEMMA UnitsOfWake ==
  ASSUME StateTypeOK, NEW s \in SemIds, sem_value[s] = 0, sem_queue[s] # <<>>,
         sem_queue' = [sem_queue EXCEPT ![s] = Tail(@)], UNCHANGED sem_value
  PROVE  Units[s] < 0 /\ Units' = [Units EXCEPT ![s] = @ + 1]
<1>1. sem_queue \in [SemIds -> Seq(Pids)]
  BY DEF StateTypeOK
<1>2. /\ Len(sem_queue[s]) \in Nat \ {0}
      /\ Len(Tail(sem_queue[s])) = Len(sem_queue[s]) - 1
  BY <1>1
<1>3. /\ sem_queue'[s] = Tail(sem_queue[s])
      /\ \A t \in SemIds : t # s => sem_queue'[t] = sem_queue[t]
  BY <1>1
<1>4. Units[s] = 0 - Len(sem_queue[s]) /\ Units'[s] = 0 - Len(Tail(sem_queue[s]))
  BY <1>3 DEF Units
<1>5. \A t \in SemIds : t # s => Units'[t] = Units[t]
  BY <1>3 DEF Units
<1>6. Units[s] < 0 /\ Units'[s] = Units[s] + 1
  BY <1>2, <1>4
<1>7. Units = [t \in SemIds |-> Units[t]] /\ Units' = [t \in SemIds |-> Units'[t]]
  BY DEF Units
<1> QED
  BY <1>5, <1>6, <1>7

\* ... and one that comes owes one.
LEMMA UnitsOfWait ==
  ASSUME StateTypeOK, NEW s \in SemIds, NEW pid \in Pids, sem_value[s] = 0,
         sem_queue' = [sem_queue EXCEPT ![s] = Append(@, pid)], UNCHANGED sem_value
  PROVE  Units[s] <= 0 /\ Units' = [Units EXCEPT ![s] = @ - 1]
<1>1. sem_queue \in [SemIds -> Seq(Pids)]
  BY DEF StateTypeOK
<1>2. Len(sem_queue[s]) \in Nat /\ Len(Append(sem_queue[s], pid)) = Len(sem_queue[s]) + 1
  BY <1>1
<1>3. /\ sem_queue'[s] = Append(sem_queue[s], pid)
      /\ \A t \in SemIds : t # s => sem_queue'[t] = sem_queue[t]
  BY <1>1
<1>4. Units[s] = 0 - Len(sem_queue[s]) /\ Units'[s] = 0 - Len(Append(sem_queue[s], pid))
  BY <1>3 DEF Units
<1>5. \A t \in SemIds : t # s => Units'[t] = Units[t]
  BY <1>3 DEF Units
<1>6. Units[s] <= 0 /\ Units'[s] = Units[s] - 1
  BY <1>2, <1>4
<1>7. Units = [t \in SemIds |-> Units[t]] /\ Units' = [t \in SemIds |-> Units'[t]]
  BY DEF Units
<1> QED
  BY <1>5, <1>6, <1>7

\* A handler that gives the processor away keeps the accounts.
LEMMA AccountsKept ==
  ASSUME StateTypeOK, StateTypeOK', outcome = "up", UNCHANGED clock,
         current_quantum_start_time' = clock,
         cpu_time' = IF current_pid = IDLE_PROCESS THEN cpu_time ELSE ChargedTime(current_pid)
  PROVE  UNCHANGED Accounts
<1>1. \A p \in Pids : Used(p)' = Used(p)
  BY ChargeKeepsUsed
<1> QED
  BY <1>1 DEF Accounts

\* So does one that leaves the processor where it is.
LEMMA AccountsUntouched ==
  ASSUME UNCHANGED <<clock, current_pid, current_quantum_start_time, cpu_time, outcome>>
  PROVE  UNCHANGED Accounts
  BY DEF Accounts, Used, Elapsed

\* The end of a millisecond moves the account of the running process, if any.
LEMMA AccountsOfTick ==
  ASSUME StateTypeOK, StateTypeOK', outcome = "up", CLOCK_MOD % INT_MOD = 0,
         clock' = (clock + 1) % CLOCK_MOD,
         UNCHANGED <<current_pid, current_quantum_start_time, cpu_time, outcome>>
  PROVE  /\ current_pid = IDLE_PROCESS => UNCHANGED Accounts
         /\ current_pid # IDLE_PROCESS =>
              Accounts' = [Accounts EXCEPT ![current_pid] = (@ + 1) % INT_MOD]
<1>1. \A p \in Pids : Used(p)' = IF p = current_pid THEN (Used(p) + 1) % INT_MOD ELSE Used(p)
  BY MillisecondCharged
<1>2. CASE current_pid = IDLE_PROCESS
  BY <1>1, <1>2, IdleAssumption DEF Accounts
<1>3. CASE current_pid \in Pids
  BY <1>1, <1>3, IdleAssumption DEF Accounts
<1> QED
  BY <1>2, <1>3, IdleAssumption DEF StateTypeOK
=============================================================================
