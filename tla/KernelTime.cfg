SPECIFICATION Spec
CONSTANTS
  Pids = {0, 1, 2}
  InitPid = 0
  IDLE_PROCESS <- MCIdleProcess
  SemIds = {0}
  INITIAL_SEMAPHORE_VALUE = 1
  MaxSemValue = 1
  QUANTUM = 4
  CLOCK_INTERRUPT_PERIOD = 2
  CLOCK_MOD = 9
  INT_MOD = 3
INVARIANTS QuantumBound
PROPERTIES EveryMillisecondCharged ManagesProcesses
