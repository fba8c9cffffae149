SPECIFICATION FairSpec
CONSTANTS
  Pids = {0, 1, 2}
  InitPid = 0
  IDLE_PROCESS <- MCIdleProcess
  SemIds = {0}
  INITIAL_SEMAPHORE_VALUE = 1
  MaxSemValue = 1
  QUANTUM = 2
  CLOCK_INTERRUPT_PERIOD = 2
  CLOCK_MOD = 5
  INT_MOD = 1
  TOP_PRIORITY = 2
INVARIANTS TypeOK OneHome NewProcessesAreLowest VerdictIsTrue
PROPERTIES HighestIsDispatched ManagesProcesses TopRuns
