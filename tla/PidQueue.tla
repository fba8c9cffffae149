------------------------------ MODULE PidQueue ------------------------------
(***************************************************************************)
(* The linked lists behind the ready queue and the semaphore queues of     *)
(* kernel.c.  A PID_QUEUE has a head and a tail pointer; taking an element *)
(* moves head only, so the tail of an emptied queue still points to a node *)
(* that is not on it; nodes are never freed; a semaphore's PID_QUEUE is    *)
(* allocated by the first enqueue.  PidQueue implements Fifo.              *)
(***************************************************************************)
EXTENDS Integers, Sequences, FiniteSets

CONSTANTS
  Queues,      \* the PID_QUEUE pointers of the kernel
  ReadyQueue,  \* the one initialize_kernel allocates
  Pids,
  Nodes,       \* what malloc can return: the bound of the model
  NULL

ASSUME ReadyQueueAssumption == ReadyQueue \in Queues
ASSUME NullAssumption == NULL \notin Nodes
ASSUME NodesAssumption == IsFiniteSet(Nodes)
ASSUME PidsAssumption == Pids # {}

VARIABLES
  allocated,   \* the queues whose PID_QUEUE exists
  head, tail,  \* the two pointers of each queue
  next, pid,   \* the fields of each node
  heap         \* the nodes malloc has returned

vars == <<allocated, head, tail, next, pid, heap>>

-----------------------------------------------------------------------------
\* Mutant of Link: a queue whose tail is set is taken not to be empty.
Link_by_tail(q, n, heads) ==
  /\ next' = [m \in Nodes |-> IF m = n THEN NULL ELSE IF m = tail[q] THEN n ELSE next[m]]
  /\ head' = [heads EXCEPT ![q] = IF tail[q] = NULL THEN n ELSE @]
  /\ tail' = [tail EXCEPT ![q] = n]

\* Mutant of Link: the tail pointer is set for the first node only.
Link_tail_of_first(q, n, heads) ==
  /\ next' = [m \in Nodes |-> IF m = n THEN NULL ELSE IF m = tail[q] THEN n ELSE next[m]]
  /\ head' = [heads EXCEPT ![q] = IF @ = NULL THEN n ELSE @]
  /\ tail' = [tail EXCEPT ![q] = IF @ = NULL THEN n ELSE @]

\* The new node becomes the head of an empty queue, the successor of tail and
\* the tail.  `heads` is the head pointers, the caller's own update made.
Link(q, n, heads) ==
  /\ next' = [m \in Nodes |-> IF m = n THEN NULL ELSE IF m = tail[q] THEN n ELSE next[m]]
  /\ head' = [heads EXCEPT ![q] = IF @ = NULL THEN n ELSE @]
  /\ tail' = [tail EXCEPT ![q] = n]

\* malloc returns a node that was never returned before: nothing is freed.
enqueue(q, p, heads) ==
  \E n \in Nodes \ heap :
    /\ heap' = heap \cup {n}
    /\ pid' = [pid EXCEPT ![n] = p]
    /\ allocated' = allocated \cup {q}
    /\ Link(q, n, heads)

NotEmpty(q) == q \in allocated /\ head[q] # NULL

\* What schedule() does with the head of the ready queue.
dequeue ==
  /\ NotEmpty(ReadyQueue)
  /\ head' = [head EXCEPT ![ReadyQueue] = next[@]]
  /\ UNCHANGED <<allocated, tail, next, pid, heap>>

\* UP with a waiter on semaphore queue q: its pid is enqueued again, on a node
\* of its own, and the old node is dropped after that.
wake(q) ==
  /\ NotEmpty(q)
  /\ enqueue(ReadyQueue, pid[head[q]], [head EXCEPT ![q] = next'[@]])

\* The pid field of a node malloc has not returned is arbitrary: any value will
\* do, and the next field is NULL until somebody links the node.
Init ==
  /\ allocated = {ReadyQueue}
  /\ head = [q \in Queues |-> NULL]
  /\ tail = [q \in Queues |-> NULL]
  /\ next = [n \in Nodes |-> NULL]
  /\ pid = [n \in Nodes |-> CHOOSE p \in Pids : TRUE]
  /\ heap = {}

\* With no node left in the model, only dequeue can happen, and at last nothing.
Next ==
  \/ dequeue
  \/ \E q \in Queues, p \in Pids : enqueue(q, p, head)
  \/ \E q \in Queues \ {ReadyQueue} : wake(q)

Spec == Init /\ [][Next]_vars

-----------------------------------------------------------------------------
\* The nodes from head on, NULL after the last one.
Walk(q) ==
  LET node[k \in 0 .. Cardinality(Nodes)] ==
        IF k = 0 THEN head[q]
        ELSE IF node[k - 1] = NULL THEN NULL ELSE next[node[k - 1]]
  IN  node

Size(q) == Cardinality({k \in DOMAIN Walk(q) : Walk(q)[k] # NULL})
Contents(q) == LET node == Walk(q) IN [k \in 1 .. Size(q) |-> pid[node[k - 1]]]
OnList(q) == {Walk(q)[k] : k \in 0 .. Size(q) - 1}

\* Every list ends, at its tail; no node is on two lists; and the tail that an
\* emptied queue leaves behind is on no list, so that linking the next node to it
\* changes no queue (kernel.c:468-472).
ListsWellFormed ==
  /\ \A q \in Queues : /\ Walk(q)[Cardinality(Nodes)] = NULL
                       /\ head[q] # NULL => tail[q] = Walk(q)[Size(q) - 1]
                       /\ OnList(q) \subseteq heap
  /\ \A q, r \in Queues : q # r => /\ OnList(q) \cap OnList(r) = {}
                                   /\ tail[q] # NULL => tail[q] \notin OnList(r)

Lists == INSTANCE Fifo WITH
  items <- [q \in Queues |-> Contents(q)],
  appended <- Cardinality(heap)

\* The lists are first-in first-out queues, and every node that is allocated puts
\* its pid on one (kernel.c:296-299, 439, 445-473).
IsFifo == Lists!Spec
=============================================================================
