SPECIFICATION Spec
CONSTANTS
  Queues = {ready_queue, semaphore, semaphore2}
  ReadyQueue = ready_queue
  Pids = {0, 1}
  Nodes = {n1, n2, n3, n4, n5}
  NULL = NULL
SYMMETRY MCNodes
INVARIANTS ListsWellFormed
PROPERTIES IsFifo
CHECK_DEADLOCK FALSE
