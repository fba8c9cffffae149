--------------------------- MODULE PidQueueProofs ---------------------------
(***************************************************************************)
(* The linked lists of kernel.c implement queues, for any number of        *)
(* queues, pids and nodes.  The argument never walks along a list: it      *)
(* keeps, for each queue, the sequence of the nodes on it.                 *)
(***************************************************************************)
EXTENDS PidQueue, FiniteSetTheorems, SequenceTheorems, WellFoundedInduction, TLAPS

PointersOK ==
  /\ allocated \subseteq Queues
  /\ heap \subseteq Nodes
  /\ head \in [Queues -> Nodes \cup {NULL}]
  /\ tail \in [Queues -> heap \cup {NULL}]
  /\ next \in [Nodes -> Nodes \cup {NULL}]
  /\ pid \in [Nodes -> Pids]

\* A list of nodes linked from the head of q to its tail.
Linked(q, list) ==
  /\ list = <<>> => head[q] = NULL
  /\ list # <<>> => /\ head[q] = list[1]
                    /\ tail[q] = list[Len(list)]
                    /\ q \in allocated
  /\ \A k \in 1 .. Len(list) :
       /\ list[k] \in heap
       /\ next[list[k]] = IF k = Len(list) THEN NULL ELSE list[k + 1]

\* No node is in two places, and the tail that a queue leaves behind is on no
\* other list.
Apart(nodes) ==
  /\ \A q \in Queues : \A i, j \in 1 .. Len(nodes[q]) : nodes[q][i] = nodes[q][j] => i = j
  /\ \A q, r \in Queues : q # r =>
       \A j \in 1 .. Len(nodes[r]) :
         /\ \A i \in 1 .. Len(nodes[q]) : nodes[q][i] # nodes[r][j]
         /\ tail[q] # nodes[r][j]

Holds(nodes) ==
  /\ \A q \in Queues : Linked(q, nodes[q])
  /\ Apart(nodes)

NodeLists == [Queues -> Seq(Nodes)]

\* The inductive invariant: the pointers form lists.
IInv == PointersOK /\ \E nodes \in NodeLists : Holds(nodes)

-----------------------------------------------------------------------------
(* From the pointers to the walk along them.                               *)

\* A list has at most as many nodes as there are.
LEMMA ListLength ==
  ASSUME NEW nodes \in NodeLists, Apart(nodes), NEW q \in Queues
  PROVE  /\ nodes[q] \in Seq(Nodes) /\ Len(nodes[q]) \in Nat
         /\ Cardinality(Nodes) \in Nat
         /\ Len(nodes[q]) <= Cardinality(Nodes)
<1> DEFINE list == nodes[q]
<1>1. list \in Seq(Nodes) /\ Len(list) \in Nat /\ list \in [1 .. Len(list) -> Nodes]
  BY LenProperties DEF NodeLists
<1>2. list \in Injection(1 .. Len(list), Nodes)
  BY <1>1 DEF Apart, Injection, IsInjective
<1>3. Cardinality(1 .. Len(list)) <= Cardinality(Nodes)
  BY <1>2, NodesAssumption, FS_Injection
<1>4. Cardinality(1 .. Len(list)) = Len(list)
  BY <1>1, FS_Interval
<1> QED
  BY <1>1, <1>3, <1>4, NodesAssumption, FS_CardinalityType

\* What the recursive definition of the walk along q asks of a function.
IsWalk(q, f) ==
  f = [k \in 0 .. Cardinality(Nodes) |->
         IF k = 0 THEN head[q]
         ELSE IF f[k - 1] = NULL THEN NULL ELSE next[f[k - 1]]]

\* It asks it of one function only.
LEMMA OneWalk ==
  ASSUME NEW q, NEW f, NEW g, IsWalk(q, f), IsWalk(q, g)
  PROVE  f = g
<1> DEFINE N == Cardinality(Nodes)
           Differ == {k \in 0 .. N : f[k] # g[k]}
<1>1. N \in Nat
  BY NodesAssumption, FS_CardinalityType
<1>2. /\ DOMAIN f = 0 .. N /\ DOMAIN g = 0 .. N
      /\ f = [k \in 0 .. N |-> f[k]] /\ g = [k \in 0 .. N |-> g[k]]
  BY DEF IsWalk
<1>3. ASSUME Differ # {} PROVE FALSE
  <2> DEFINE Less == OpToRel(<, Nat)
  <2>0. Differ \in SUBSET Nat
    BY <1>1
  <2>1. IsWellFoundedOn(Less, Nat)
    BY NatLessThanWellFounded
  <2>2. \A j, k \in Nat : j < k => <<j, k>> \in Less
    BY DEF OpToRel
  <2> HIDE DEF Less
  <2>3. PICK k \in Differ : \A j \in Differ : ~ (<<j, k>> \in Less)
    BY <1>3, <2>0, <2>1, WFMin
  <2>4. k \in 0 .. N /\ k \in Nat /\ f[k] # g[k]
    BY <1>1, <2>3
  <2>5. /\ f[k] = IF k = 0 THEN head[q] ELSE IF f[k - 1] = NULL THEN NULL ELSE next[f[k - 1]]
        /\ g[k] = IF k = 0 THEN head[q] ELSE IF g[k - 1] = NULL THEN NULL ELSE next[g[k - 1]]
    BY <2>4 DEF IsWalk
  <2>6. k - 1 \in 0 .. N /\ f[k - 1] # g[k - 1]
    BY <1>1, <2>4, <2>5
  <2>7. k - 1 \in Differ /\ k - 1 \in Nat /\ k - 1 < k
    BY <1>1, <2>4, <2>6
  <2> QED
    BY <2>2, <2>3, <2>4, <2>7
<1>4. \A k \in 0 .. N : f[k] = g[k]
  BY <1>3
<1> QED
  BY <1>2, <1>4

\* The walk along a queue visits the nodes on it and then stays at NULL.
LEMMA WalkVisits ==
  ASSUME PointersOK, NEW nodes \in NodeLists, Holds(nodes), NEW q \in Queues
  PROVE  Walk(q) = [k \in 0 .. Cardinality(Nodes) |->
                      IF k < Len(nodes[q]) THEN nodes[q][k + 1] ELSE NULL]
<1> DEFINE N == Cardinality(Nodes)
           list == nodes[q]
           f == [k \in 0 .. N |-> IF k < Len(list) THEN list[k + 1] ELSE NULL]
<1>1. list \in Seq(Nodes) /\ Len(list) \in Nat /\ N \in Nat /\ Len(list) <= N
  BY ListLength DEF Holds
<1>2. \A k \in 1 .. Len(list) : list[k] \in Nodes /\ list[k] # NULL
  BY <1>1, ElementOfSeq, NullAssumption
<1>3. Linked(q, list) /\ (list = <<>> <=> Len(list) = 0)
  BY <1>1, EmptySeq DEF Holds
<1>4. ASSUME NEW k \in 0 .. N
      PROVE  f[k] = IF k = 0 THEN head[q] ELSE IF f[k - 1] = NULL THEN NULL ELSE next[f[k - 1]]
  <2>1. CASE k = 0
    <3>1. f[0] = IF 0 < Len(list) THEN list[1] ELSE NULL
      BY <1>1
    <3> QED
      BY <1>1, <1>3, <2>1, <3>1 DEF Linked
  <2>2. CASE k # 0
    <3>1. /\ f[k] = IF k < Len(list) THEN list[k + 1] ELSE NULL
          /\ f[k - 1] = IF k <= Len(list) THEN list[k] ELSE NULL
      BY <1>1, <2>2
    <3>2. CASE k <= Len(list)
      <4>1. list[k] # NULL /\ next[list[k]] = IF k = Len(list) THEN NULL ELSE list[k + 1]
        BY <1>1, <1>2, <1>3, <2>2, <3>2 DEF Linked
      <4> QED
        BY <1>1, <2>2, <3>1, <3>2, <4>1
    <3>3. CASE ~ (k <= Len(list))
      BY <1>1, <2>2, <3>1, <3>3
    <3> QED
      BY <3>2, <3>3
  <2> QED
    BY <2>1, <2>2
<1>5. IsWalk(q, f)
  BY <1>4 DEF IsWalk
<1>6. IsWalk(q, Walk(q))
  BY <1>5 DEF Walk, IsWalk
<1> QED
  BY <1>5, <1>6, OneWalk

\* So what is on a queue are the pids of its nodes, in order.
LEMMA WalkContents ==
  ASSUME PointersOK, NEW nodes \in NodeLists, Holds(nodes), NEW q \in Queues
  PROVE  /\ Size(q) = Len(nodes[q])
         /\ OnList(q) = {nodes[q][k] : k \in 1 .. Len(nodes[q])}
         /\ Contents(q) = [k \in 1 .. Len(nodes[q]) |-> pid[nodes[q][k]]]
<1> DEFINE N == Cardinality(Nodes)
           list == nodes[q]
<1>1. list \in Seq(Nodes) /\ Len(list) \in Nat /\ N \in Nat /\ Len(list) <= N
  BY ListLength DEF Holds
<1>2. \A k \in 1 .. Len(list) : list[k] \in Nodes /\ list[k] # NULL
  BY <1>1, ElementOfSeq, NullAssumption
<1>3. /\ DOMAIN Walk(q) = 0 .. N
      /\ \A k \in 0 .. N : Walk(q)[k] = IF k < Len(list) THEN list[k + 1] ELSE NULL
  BY WalkVisits
<1>4. {k \in DOMAIN Walk(q) : Walk(q)[k] # NULL} = 0 .. Len(list) - 1
  BY <1>1, <1>2, <1>3
<1>5. Cardinality(0 .. Len(list) - 1) = Len(list)
  <2>1. 0 \in Int /\ Len(list) - 1 \in Int
    BY <1>1
  <2>2. Cardinality(0 .. Len(list) - 1) = IF 0 > Len(list) - 1 THEN 0 ELSE Len(list) - 1 - 0 + 1
    BY <2>1, FS_Interval
  <2> QED
    BY <1>1, <2>2
<1>6. Size(q) = Len(list)
  BY <1>4, <1>5 DEF Size
<1>7. \A k \in 1 .. Len(list) : k - 1 \in 0 .. N /\ Walk(q)[k - 1] = list[k]
  BY <1>1, <1>3
<1>8. Contents(q) = [k \in 1 .. Len(list) |-> pid[list[k]]]
  BY <1>6, <1>7 DEF Contents
<1>9. OnList(q) = {list[k] : k \in 1 .. Len(list)}
  <2>1. ASSUME NEW k \in 0 .. Len(list) - 1
        PROVE  k + 1 \in 1 .. Len(list) /\ Walk(q)[k] = list[k + 1]
    BY <1>1, <1>3
  <2>2. ASSUME NEW k \in 1 .. Len(list)
        PROVE  k - 1 \in 0 .. Len(list) - 1 /\ Walk(q)[k - 1] = list[k]
    BY <1>1, <1>7
  <2> QED
    BY <1>6, <2>1, <2>2 DEF OnList
<1> QED
  BY <1>6, <1>8, <1>9

-----------------------------------------------------------------------------
(* The steps.                                                              *)

\* What linking a new node n with pid p to the end of q does; from is the queue
\* whose first node is dropped in the same step, or q itself if none is.
Linking(q, from, n, p) ==
  /\ n \in Nodes \ heap
  /\ heap' = heap \cup {n}
  /\ pid' = [pid EXCEPT ![n] = p]
  /\ allocated' = allocated \cup {q}
  /\ next' = [m \in Nodes |-> IF m = n THEN NULL ELSE IF m = tail[q] THEN n ELSE next[m]]
  /\ tail' = [tail EXCEPT ![q] = n]
  /\ head' = [r \in Queues |-> IF r = q THEN IF head[q] = NULL THEN n ELSE head[q]
                               ELSE IF r = from THEN next[head[r]] ELSE head[r]]

\* The nodes after it.
Relinked(nodes, q, from, n) ==
  [r \in Queues |-> IF r = q THEN Append(nodes[q], n)
                    ELSE IF r = from THEN Tail(nodes[r]) ELSE nodes[r]]

\* An enqueue of one of the kernel's own pids drops nothing.
LEMMA EnqueueLinks ==
  ASSUME PointersOK, NEW q \in Queues, NEW p \in Pids, enqueue(q, p, head)
  PROVE  \E n : Linking(q, q, n, p)
<1>1. PICK n \in Nodes \ heap :
        /\ heap' = heap \cup {n}
        /\ pid' = [pid EXCEPT ![n] = p]
        /\ allocated' = allocated \cup {q}
        /\ Link(q, n, head)
  BY DEF enqueue
<1>2. head' = [r \in Queues |-> IF r = q THEN IF head[q] = NULL THEN n ELSE head[q]
                                ELSE IF r = q THEN next[head[r]] ELSE head[r]]
  BY <1>1 DEF Link, PointersOK
<1> QED
  BY <1>1, <1>2 DEF Linking, Link

\* A wake-up drops the old node after the new one was linked; the new node did
\* not change the old one's successor.
LEMMA WakeLinks ==
  ASSUME PointersOK, NEW nodes \in NodeLists, Holds(nodes),
         NEW q \in Queues \ {ReadyQueue}, wake(q)
  PROVE  /\ nodes[q] # <<>> /\ pid[nodes[q][1]] \in Pids
         /\ \E n : Linking(ReadyQueue, q, n, pid[nodes[q][1]])
<1> DEFINE first == nodes[q][1]
           heads == [head EXCEPT ![q] = next'[@]]
<1>1. head[q] # NULL /\ enqueue(ReadyQueue, pid[head[q]], heads)
  BY DEF wake, NotEmpty
<1>2. nodes[q] \in Seq(Nodes) /\ nodes[q] # <<>> /\ Len(nodes[q]) \in Nat /\ 1 \in 1 .. Len(nodes[q])
  BY <1>1, ListLength, EmptySeq DEF Holds, Linked
<1>3. head[q] = first /\ first \in heap /\ first \in Nodes
  BY <1>2 DEF Holds, Linked, PointersOK
<1>4. tail[ReadyQueue] # first
  BY <1>2, ReadyQueueAssumption DEF Holds, Apart
<1>5. PICK n \in Nodes \ heap :
        /\ heap' = heap \cup {n}
        /\ pid' = [pid EXCEPT ![n] = pid[head[q]]]
        /\ allocated' = allocated \cup {ReadyQueue}
        /\ Link(ReadyQueue, n, heads)
  BY <1>1 DEF enqueue
<1>6. next' = [m \in Nodes |-> IF m = n THEN NULL ELSE IF m = tail[ReadyQueue] THEN n ELSE next[m]]
  BY <1>5 DEF Link
<1>7. next'[head[q]] = next[head[q]]
  BY <1>3, <1>4, <1>5, <1>6
<1>8. /\ heads \in [Queues -> {next[head[q]]} \cup Nodes \cup {NULL}]
      /\ \A r \in Queues : heads[r] = IF r = q THEN next[head[r]] ELSE head[r]
  BY <1>7 DEF PointersOK
<1>9. head' = [heads EXCEPT ![ReadyQueue] = IF @ = NULL THEN n ELSE @]
  BY <1>5 DEF Link
<1>10. head' = [r \in Queues |-> IF r = ReadyQueue THEN IF head[ReadyQueue] = NULL THEN n ELSE head[ReadyQueue]
                                 ELSE IF r = q THEN next[head[r]] ELSE head[r]]
  BY <1>8, <1>9, ReadyQueueAssumption
<1>11. Linking(ReadyQueue, q, n, pid[first])
  BY <1>3, <1>5, <1>6, <1>10 DEF Linking, Link
<1> QED
  BY <1>2, <1>3, <1>11 DEF PointersOK

\* The pointers keep their types ...
LEMMA LinkingPointers ==
  ASSUME PointersOK, NEW nodes \in NodeLists, Holds(nodes),
         NEW q \in Queues, NEW from \in Queues, from # q => nodes[from] # <<>>,
         NEW n, NEW p \in Pids, Linking(q, from, n, p)
  PROVE  PointersOK'
<1>1. ASSUME NEW r \in Queues, r = from, r # q
      PROVE  next[head[r]] \in Nodes \cup {NULL}
  <2>1. head[r] \in Nodes
    BY <1>1, ListLength, ElementOfSeq, EmptySeq DEF Holds, Linked
  <2> QED
    BY <2>1 DEF PointersOK
<1>2. head' \in [Queues -> Nodes \cup {NULL}]
  BY <1>1 DEF Linking, PointersOK
<1>3. tail' \in [Queues -> heap' \cup {NULL}]
  BY DEF Linking, PointersOK
<1>4. next' \in [Nodes -> Nodes \cup {NULL}]
  BY DEF Linking, PointersOK
<1> QED
  BY <1>2, <1>3, <1>4 DEF Linking, PointersOK

\* The first node of a list is dropped.
LEMMA TailOfList ==
  ASSUME NEW list \in Seq(Nodes), list # <<>>
  PROVE  /\ Tail(list) \in Seq(Nodes)
         /\ Len(list) \in Nat \ {0} /\ Len(Tail(list)) = Len(list) - 1
         /\ \A i \in 1 .. Len(Tail(list)) : i + 1 \in 1 .. Len(list) /\ Tail(list)[i] = list[i + 1]
         /\ Tail(list) = <<>> <=> Len(list) = 1
<1>1. /\ Tail(list) \in Seq(Nodes) /\ Len(Tail(list)) = Len(list) - 1
      /\ \A i \in 1 .. Len(Tail(list)) : Tail(list)[i] = list[i + 1]
  BY HeadTailProperties
<1>2. Len(list) \in Nat \ {0}
  BY EmptySeq
<1>3. Len(Tail(list)) = 0 <=> Tail(list) = <<>>
  BY <1>1, EmptySeq
<1> QED
  BY <1>1, <1>2, <1>3

\* What is left of a list that loses its first node, while no pointer of its
\* nodes changes, is a list.
LEMMA LinkedTail ==
  ASSUME NEW r \in Queues, NEW list \in Seq(Nodes), list # <<>>, Linked(r, list),
         head'[r] = next[head[r]], tail'[r] = tail[r],
         allocated \subseteq allocated', heap \subseteq heap',
         \A k \in 1 .. Len(list) : next'[list[k]] = next[list[k]]
  PROVE  Linked(r, Tail(list))'
<1>1. /\ Len(list) \in Nat \ {0} /\ Len(Tail(list)) = Len(list) - 1
      /\ \A i \in 1 .. Len(Tail(list)) : i + 1 \in 1 .. Len(list) /\ Tail(list)[i] = list[i + 1]
      /\ Tail(list) = <<>> <=> Len(list) = 1
  BY TailOfList
<1>2. head'[r] = next[list[1]] /\ next[list[1]] = IF 1 = Len(list) THEN NULL ELSE list[2]
  <2>1. 1 \in 1 .. Len(list) /\ 1 + 1 = 2
    BY <1>1
  <2>2. head[r] = list[1] /\ next[list[1]] = IF 1 = Len(list) THEN NULL ELSE list[1 + 1]
    BY <2>1 DEF Linked
  <2> QED
    BY <2>1, <2>2
<1>3. Tail(list) = <<>> => head'[r] = NULL
  BY <1>1, <1>2
<1>4. ASSUME Tail(list) # <<>>
      PROVE  /\ head'[r] = Tail(list)[1]
             /\ tail'[r] = Tail(list)[Len(Tail(list))]
             /\ r \in allocated'
  <2>1. Len(list) - 1 \in 1 .. Len(Tail(list)) /\ 1 \in 1 .. Len(Tail(list))
    BY <1>1, <1>4
  <2>2. Tail(list)[1] = list[2] /\ Tail(list)[Len(list) - 1] = list[Len(list)]
    BY <1>1, <2>1
  <2> QED
    BY <1>1, <1>2, <1>4, <2>2 DEF Linked
<1>5. ASSUME NEW k \in 1 .. Len(Tail(list))
      PROVE  /\ Tail(list)[k] \in heap'
             /\ next'[Tail(list)[k]] = IF k = Len(Tail(list)) THEN NULL ELSE Tail(list)[k + 1]
  <2>1. /\ k + 1 \in 1 .. Len(list) /\ Tail(list)[k] = list[k + 1] /\ k \in 1 .. Len(list) - 1
        /\ Len(Tail(list)) = Len(list) - 1 /\ Len(list) \in Nat
    BY <1>1
  <2>2. /\ list[k + 1] \in heap
        /\ next'[list[k + 1]] = IF k + 1 = Len(list) THEN NULL ELSE list[k + 1 + 1]
    BY <2>1 DEF Linked
  <2>3. k + 1 # Len(list) => k + 1 \in 1 .. Len(Tail(list))
    <3>1. \A m \in Nat : \A i \in 1 .. m - 1 : i + 1 # m => i + 1 \in 1 .. m - 1
      OBVIOUS
    <3> QED
      BY <2>1, <3>1, Zenon
  <2>4. k + 1 # Len(list) => Tail(list)[k + 1] = list[k + 1 + 1]
    BY <1>1, <2>3
  <2>5. k + 1 = Len(list) <=> k = Len(Tail(list))
    BY <2>1
  <2> QED
    BY <2>1, <2>2, <2>4, <2>5
<1> QED
  BY <1>3, <1>4, <1>5 DEF Linked

\* A list of which no pointer changes stays one.
LEMMA LinkedKept ==
  ASSUME NEW r \in Queues, NEW list \in Seq(Nodes), Linked(r, list),
         head'[r] = head[r], tail'[r] = tail[r],
         allocated \subseteq allocated', heap \subseteq heap',
         \A k \in 1 .. Len(list) : next'[list[k]] = next[list[k]]
  PROVE  Linked(r, list)'
BY DEF Linked

\* A new node at the end of a list.
LEMMA LinkedAppend ==
  ASSUME PointersOK, NEW q \in Queues, NEW list \in Seq(Nodes), Linked(q, list),
         \A i, j \in 1 .. Len(list) : list[i] = list[j] => i = j,
         NEW from, NEW n, NEW p, Linking(q, from, n, p)
  PROVE  Linked(q, Append(list, n))'
<1> DEFINE new == Append(list, n)
<1>1. /\ n \in Nodes /\ n \notin heap /\ heap' = heap \cup {n} /\ q \in allocated'
      /\ next'[n] = NULL
      /\ \A m \in Nodes : m # n => next'[m] = IF m = tail[q] THEN n ELSE next[m]
      /\ tail'[q] = n
      /\ head'[q] = IF head[q] = NULL THEN n ELSE head[q]
  BY DEF Linking, PointersOK
<1>2. /\ Len(list) \in Nat /\ Len(new) = Len(list) + 1 /\ new # <<>>
      /\ \A i \in 1 .. Len(list) : new[i] = list[i] /\ list[i] \in Nodes
      /\ new[Len(list) + 1] = n
      /\ list = <<>> <=> Len(list) = 0
  BY <1>1, AppendProperties, ElementOfSeq, EmptySeq
<1>3. head'[q] = new[1]
  <2>1. CASE list = <<>>
    BY <1>1, <1>2, <2>1 DEF Linked
  <2>2. CASE list # <<>>
    <3>1. 1 \in 1 .. Len(list) /\ head[q] = list[1]
      BY <1>2, <2>2 DEF Linked
    <3>2. head[q] # NULL
      BY <1>2, <3>1, NullAssumption
    <3> QED
      BY <1>1, <1>2, <3>1, <3>2
  <2> QED
    BY <2>1, <2>2
<1>4. ASSUME NEW k \in 1 .. Len(new)
      PROVE  /\ new[k] \in heap'
             /\ next'[new[k]] = IF k = Len(new) THEN NULL ELSE new[k + 1]
  <2>1. CASE k = Len(new)
    BY <1>1, <1>2, <2>1
  <2>2. CASE k # Len(new)
    <3>1. k \in 1 .. Len(list) /\ new[k] = list[k] /\ list[k] \in Nodes /\ list # <<>>
      BY <1>2, <2>2
    <3>2. /\ list[k] \in heap /\ list[k] # n
          /\ next[list[k]] = IF k = Len(list) THEN NULL ELSE list[k + 1]
          /\ tail[q] = list[Len(list)] /\ Len(list) \in 1 .. Len(list)
      BY <1>1, <1>2, <3>1 DEF Linked
    <3>3. list[k] = tail[q] <=> k = Len(list)
      BY <3>1, <3>2
    <3>4. next'[list[k]] = IF k = Len(list) THEN n ELSE list[k + 1]
      BY <1>1, <3>1, <3>2, <3>3
    <3>5. new[k + 1] = IF k = Len(list) THEN n ELSE list[k + 1]
      BY <1>2, <3>1
    <3> QED
      BY <1>1, <1>2, <2>2, <3>1, <3>2, <3>4, <3>5
  <2> QED
    BY <2>1, <2>2
<1> QED
  BY <1>1, <1>2, <1>3, <1>4 DEF Linked

\* Where the nodes of the lists after a linking come from: each was on the same
\* list, possibly one place further, or is the new one.
Places(nodes, after, q, n) ==
  \A r \in Queues :
    /\ Len(after[r]) \in Nat
    /\ \E d \in {0, 1} : \A i \in 1 .. Len(after[r]) :
         \/ i + d \in 1 .. Len(nodes[r]) /\ after[r][i] = nodes[r][i + d]
         \/ r = q /\ d = 0 /\ i = Len(nodes[r]) + 1 /\ i = Len(after[r]) /\ after[r][i] = n

\* Then they are as far apart as they were.
LEMMA StayApart ==
  ASSUME NEW nodes \in NodeLists, Holds(nodes), NEW after, NEW q \in Queues, NEW n,
         n \notin heap, Places(nodes, after, q, n),
         tail \in [Queues -> heap \cup {NULL}], n # NULL,
         \A r \in Queues : tail'[r] = IF r = q /\ \E i \in 1 .. Len(after[q]) : after[q][i] = n
                                     THEN n ELSE tail[r]
  PROVE  Apart(after)'
<1>1. /\ \A r \in Queues : \A i, j \in 1 .. Len(nodes[r]) : nodes[r][i] = nodes[r][j] => i = j
      /\ \A r, s \in Queues : r # s =>
           \A j \in 1 .. Len(nodes[s]) :
             /\ \A i \in 1 .. Len(nodes[r]) : nodes[r][i] # nodes[s][j]
             /\ tail[r] # nodes[s][j]
      /\ \A r \in Queues : \A i \in 1 .. Len(nodes[r]) : nodes[r][i] \in heap
  BY DEF Holds, Apart, Linked
<1>2. ASSUME NEW r \in Queues, NEW i \in 1 .. Len(after[r]), NEW j \in 1 .. Len(after[r]),
             after[r][i] = after[r][j]
      PROVE  i = j
  <2>1. PICK d \in {0, 1} : \A k \in 1 .. Len(after[r]) :
         \/ k + d \in 1 .. Len(nodes[r]) /\ after[r][k] = nodes[r][k + d]
         \/ k = Len(after[r]) /\ after[r][k] = n
    BY DEF Places
  <2>2. i \in Nat /\ j \in Nat
    BY DEF Places
  <2> QED
    BY <1>1, <1>2, <2>1, <2>2
<1>3. ASSUME NEW r \in Queues, NEW s \in Queues, r # s, NEW j \in 1 .. Len(after[s])
      PROVE  /\ \A i \in 1 .. Len(after[r]) : after[r][i] # after[s][j]
             /\ tail'[r] # after[s][j]
  <2>1. (\E k \in 1 .. Len(nodes[s]) : after[s][j] = nodes[s][k]) \/ (s = q /\ after[s][j] = n)
    BY DEF Places
  <2>2. \A i \in 1 .. Len(after[r]) :
          (\E k \in 1 .. Len(nodes[r]) : after[r][i] = nodes[r][k]) \/ (r = q /\ after[r][i] = n)
    BY DEF Places
  <2>3. tail[r] # n
    OBVIOUS
  <2>4. tail'[r] = tail[r] \/ (r = q /\ tail'[r] = n)
    OBVIOUS
  <2> QED
    BY <1>1, <1>3, <2>1, <2>2, <2>3, <2>4
<1> QED
  BY <1>2, <1>3 DEF Apart

\* Linking a node makes the lists Relinked says.
LEMMA LinkingHolds ==
  ASSUME PointersOK, NEW nodes \in NodeLists, Holds(nodes),
         NEW q \in Queues, NEW from \in Queues, from # q => nodes[from] # <<>>,
         NEW n, NEW p \in Pids, Linking(q, from, n, p),
         NEW after, after = Relinked(nodes, q, from, n)
  PROVE  after \in NodeLists /\ Holds(after)'
<1>1. /\ n \in Nodes /\ n \notin heap /\ n # NULL
      /\ heap' = heap \cup {n} /\ allocated' = allocated \cup {q}
      /\ \A m \in Nodes : m # n /\ m # tail[q] => next'[m] = next[m]
      /\ \A r \in Queues : tail'[r] = IF r = q THEN n ELSE tail[r]
      /\ \A r \in Queues \ {q} : head'[r] = IF r = from THEN next[head[r]] ELSE head[r]
      /\ tail \in [Queues -> heap \cup {NULL}]
  BY NullAssumption DEF Linking, PointersOK
<1>2. \A r \in Queues : /\ nodes[r] \in Seq(Nodes) /\ Len(nodes[r]) \in Nat
                        /\ \A i \in 1 .. Len(nodes[r]) : nodes[r][i] \in Nodes /\ nodes[r][i] \in heap
                        /\ Linked(r, nodes[r])
  BY LenProperties, ElementOfSeq DEF NodeLists, Holds, Linked
<1>3. \A r \in Queues : after[r] = IF r = q THEN Append(nodes[q], n)
                                   ELSE IF r = from THEN Tail(nodes[r]) ELSE nodes[r]
  BY DEF Relinked
<1>4. ASSUME NEW r \in Queues
      PROVE  /\ after[r] \in Seq(Nodes)
             /\ Linked(r, after[r])'
             /\ Len(after[r]) \in Nat
             /\ \E d \in {0, 1} : \A i \in 1 .. Len(after[r]) :
                  \/ i + d \in 1 .. Len(nodes[r]) /\ after[r][i] = nodes[r][i + d]
                  \/ r = q /\ d = 0 /\ i = Len(nodes[r]) + 1 /\ i = Len(after[r]) /\ after[r][i] = n
  <2> DEFINE list == nodes[r]
  <2>1. list \in Seq(Nodes) /\ Len(list) \in Nat /\ Linked(r, list)
    BY <1>2
  <2>2. CASE r = q
    <3>1. after[r] = Append(list, n)
      BY <1>3, <2>2
    <3>2. Linked(r, Append(list, n))'
      BY <2>1, <2>2, LinkedAppend DEF Holds, Apart
    <3>3. /\ Append(list, n) \in Seq(Nodes) /\ Len(Append(list, n)) = Len(list) + 1
          /\ \A i \in 1 .. Len(list) : Append(list, n)[i] = list[i]
          /\ Append(list, n)[Len(list) + 1] = n
      BY <1>1, <2>1, AppendProperties
    <3>4. \A i \in 1 .. Len(list) + 1 : (i + 0 \in 1 .. Len(list) /\ i + 0 = i) \/ i = Len(list) + 1
      BY <2>1
    <3> QED
      BY <2>1, <2>2, <3>1, <3>2, <3>3, <3>4
  <2>3. CASE r # q
    <3>1. \A k \in 1 .. Len(list) : next'[list[k]] = next[list[k]]
      BY <1>1, <1>2, <2>3 DEF Holds, Apart
    <3>2. tail'[r] = tail[r] /\ allocated \subseteq allocated' /\ heap \subseteq heap'
      BY <1>1, <2>3
    <3>3. CASE r = from
      <4>1. after[r] = Tail(list) /\ list # <<>> /\ head'[r] = next[head[r]]
        BY <1>1, <1>3, <2>3, <3>3
      <4>2. Linked(r, Tail(list))'
        BY <2>1, <3>1, <3>2, <4>1, LinkedTail
      <4>3. /\ Tail(list) \in Seq(Nodes) /\ Len(Tail(list)) \in Nat
            /\ \A i \in 1 .. Len(Tail(list)) : i + 1 \in 1 .. Len(list) /\ Tail(list)[i] = list[i + 1]
        BY <2>1, <4>1, TailOfList
      <4> QED
        BY <4>1, <4>2, <4>3
    <3>4. CASE r # from
      <4>1. after[r] = list /\ head'[r] = head[r]
        BY <1>1, <1>3, <2>3, <3>4
      <4>2. Linked(r, list)'
        BY <2>1, <3>1, <3>2, <4>1, LinkedKept
      <4>3. \A i \in 1 .. Len(list) : i + 0 = i
        BY <2>1
      <4> QED
        BY <2>1, <4>1, <4>2, <4>3
    <3> QED
      BY <3>3, <3>4
  <2> QED
    BY <2>2, <2>3
<1>5. Places(nodes, after, q, n)
  BY <1>4 DEF Places
<1>6. \E i \in 1 .. Len(after[q]) : after[q][i] = n
  <2>1. Len(nodes[q]) + 1 \in 1 .. Len(nodes[q]) + 1
    BY <1>2
  <2>2. after[q] = Append(nodes[q], n) /\ nodes[q] \in Seq(Nodes)
    BY <1>2, <1>3
  <2>3. /\ Len(Append(nodes[q], n)) = Len(nodes[q]) + 1
        /\ Append(nodes[q], n)[Len(nodes[q]) + 1] = n
    BY <1>1, <2>2, AppendProperties
  <2> QED
    BY <2>1, <2>2, <2>3
<1>7. Apart(after)'
  BY <1>1, <1>5, <1>6, StayApart
<1>8. after \in NodeLists
  BY <1>4 DEF NodeLists, Relinked
<1> QED
  BY <1>4, <1>7, <1>8 DEF Holds

\* A dequeue drops the first node of the ready queue and changes no node.
LEMMA DequeueHolds ==
  ASSUME PointersOK, NEW nodes \in NodeLists, Holds(nodes), dequeue,
         NEW after, after = [nodes EXCEPT ![ReadyQueue] = Tail(@)]
  PROVE  /\ nodes[ReadyQueue] # <<>>
         /\ PointersOK' /\ after \in NodeLists /\ Holds(after)'
<1> DEFINE list == nodes[ReadyQueue]
<1>1. /\ head[ReadyQueue] # NULL /\ ReadyQueue \in Queues
      /\ head' = [head EXCEPT ![ReadyQueue] = next[@]]
      /\ UNCHANGED <<allocated, tail, next, pid, heap>>
  BY ReadyQueueAssumption DEF dequeue, NotEmpty
<1>2. \A r \in Queues : /\ nodes[r] \in Seq(Nodes) /\ Len(nodes[r]) \in Nat
                        /\ Linked(r, nodes[r])
  BY LenProperties DEF NodeLists, Holds
<1>3. list # <<>> /\ head[ReadyQueue] \in Nodes
  BY <1>1, <1>2 DEF Linked, PointersOK
<1>4. PointersOK'
  BY <1>1, <1>3 DEF PointersOK
<1>5. /\ Tail(list) \in Seq(Nodes) /\ Len(Tail(list)) \in Nat
      /\ \A i \in 1 .. Len(Tail(list)) : i + 1 \in 1 .. Len(list) /\ Tail(list)[i] = list[i + 1]
  BY <1>1, <1>2, <1>3, TailOfList
<1>6. \A r \in Queues : after[r] = IF r = ReadyQueue THEN Tail(list) ELSE nodes[r]
  BY DEF NodeLists
<1>7. after \in NodeLists
  BY <1>5 DEF NodeLists
<1>8. ASSUME NEW r \in Queues
      PROVE  Linked(r, after[r])'
  <2>1. CASE r = ReadyQueue
    <3>1. head'[r] = next[head[r]]
      BY <1>1, <2>1 DEF PointersOK
    <3>2. Linked(r, Tail(list))'
      BY <1>1, <1>2, <1>3, <2>1, <3>1, LinkedTail
    <3> QED
      BY <1>6, <2>1, <3>2
  <2>2. CASE r # ReadyQueue
    <3>1. head'[r] = head[r]
      BY <1>1, <2>2 DEF PointersOK
    <3>2. Linked(r, nodes[r])'
      BY <1>1, <1>2, <3>1, LinkedKept
    <3> QED
      BY <1>6, <2>2, <3>2
  <2> QED
    BY <2>1, <2>2
<1>9. Apart(after)'
  <2>1. \A r \in Queues : /\ Len(after[r]) \in Nat
                          /\ \E d \in {0, 1} : \A i \in 1 .. Len(after[r]) :
                               i + d \in 1 .. Len(nodes[r]) /\ after[r][i] = nodes[r][i + d]
    <3> TAKE r \in Queues
    <3>1. CASE r = ReadyQueue
      BY <1>5, <1>6, <3>1
    <3>2. CASE r # ReadyQueue
      <4>1. \A i \in 1 .. Len(nodes[r]) : i + 0 = i
        BY <1>2
      <4> QED
        BY <1>2, <1>6, <3>2, <4>1
    <3> QED
      BY <3>1, <3>2
  <2>2. PICK n : n \notin heap \cup {NULL} \cup Nodes
    BY NoSetContainsEverything
  <2>3. Places(nodes, after, ReadyQueue, n)
    BY <2>1 DEF Places
  <2>4. \A i \in 1 .. Len(after[ReadyQueue]) : after[ReadyQueue][i] # n
    BY <1>1, <1>7, <2>2, ElementOfSeq DEF NodeLists
  <2> QED
    BY <1>1, <2>2, <2>3, <2>4, StayApart DEF PointersOK
<1> QED
  BY <1>3, <1>4, <1>7, <1>8, <1>9 DEF Holds

\* At first there is no list, and no node.
LEMMA InitHolds ==
  ASSUME Init
  PROVE  /\ PointersOK
         /\ [q \in Queues |-> <<>>] \in NodeLists /\ Holds([q \in Queues |-> <<>>])
<1> DEFINE none == [q \in Queues |-> <<>>]
<1>1. (CHOOSE p \in Pids : TRUE) \in Pids
  BY PidsAssumption
<1>2. PointersOK
  BY <1>1, ReadyQueueAssumption DEF Init, PointersOK
<1>3. none \in NodeLists /\ \A q \in Queues : none[q] = <<>> /\ Len(none[q]) = 0
  BY EmptySeq DEF NodeLists
<1>4. \A q \in Queues : Linked(q, none[q])
  BY <1>3 DEF Init, Linked
<1>5. Apart(none)
  BY <1>3 DEF Apart
<1> QED
  BY <1>2, <1>3, <1>4, <1>5 DEF Holds

\* Each step changes the lists as its name says.
Dequeued(nodes, after) ==
  /\ nodes[ReadyQueue] # <<>>
  /\ after = [nodes EXCEPT ![ReadyQueue] = Tail(@)]
  /\ pid' = pid /\ heap' = heap

Enqueued(nodes, after, q, n, p) ==
  /\ after = Relinked(nodes, q, q, n)
  /\ Linking(q, q, n, p)

Woken(nodes, after, q, n) ==
  /\ q # ReadyQueue /\ nodes[q] # <<>>
  /\ after = Relinked(nodes, ReadyQueue, q, n)
  /\ Linking(ReadyQueue, q, n, pid[nodes[q][1]])

Stepped(nodes, after) ==
  \/ Dequeued(nodes, after)
  \/ \E q \in Queues, p \in Pids : \E n : Enqueued(nodes, after, q, n, p)
  \/ \E q \in Queues : \E n : Woken(nodes, after, q, n)
  \/ after = nodes /\ UNCHANGED vars

\* After every step there are lists again, which it has changed so.
LEMMA NextHolds ==
  ASSUME PointersOK, NEW nodes \in NodeLists, Holds(nodes), [Next]_vars
  PROVE  PointersOK' /\ \E after \in NodeLists : Holds(after)' /\ Stepped(nodes, after)
<1>1. CASE dequeue
  <2>1. PICK after : after = [nodes EXCEPT ![ReadyQueue] = Tail(@)]
    OBVIOUS
  <2>2. nodes[ReadyQueue] # <<>> /\ PointersOK' /\ after \in NodeLists /\ Holds(after)'
    BY <1>1, <2>1, DequeueHolds
  <2>3. Dequeued(nodes, after)
    BY <1>1, <2>1, <2>2 DEF Dequeued, dequeue
  <2> QED
    BY <2>2, <2>3 DEF Stepped
<1>2. ASSUME NEW q \in Queues, NEW p \in Pids, enqueue(q, p, head)
      PROVE  PointersOK' /\ \E after \in NodeLists : Holds(after)' /\ Stepped(nodes, after)
  <2>1. PICK n : Linking(q, q, n, p)
    BY <1>2, EnqueueLinks
  <2>2. PICK after : after = Relinked(nodes, q, q, n)
    OBVIOUS
  <2>3. PointersOK'
    BY <2>1, LinkingPointers
  <2>4. after \in NodeLists /\ Holds(after)'
    BY <2>1, <2>2, LinkingHolds
  <2>5. Enqueued(nodes, after, q, n, p)
    BY <2>1, <2>2 DEF Enqueued
  <2> QED
    BY <2>3, <2>4, <2>5 DEF Stepped
<1>3. ASSUME NEW q \in Queues \ {ReadyQueue}, wake(q)
      PROVE  PointersOK' /\ \E after \in NodeLists : Holds(after)' /\ Stepped(nodes, after)
  <2>1. PICK p \in Pids : p = pid[nodes[q][1]]
    BY <1>3, WakeLinks
  <2>2. PICK n : Linking(ReadyQueue, q, n, p)
    BY <1>3, <2>1, WakeLinks
  <2>3. PICK after : after = Relinked(nodes, ReadyQueue, q, n)
    OBVIOUS
  <2>4. nodes[q] # <<>> /\ q \in Queues /\ ReadyQueue \in Queues
    BY <1>3, WakeLinks, ReadyQueueAssumption
  <2>5. PointersOK'
    BY <2>2, <2>4, LinkingPointers
  <2>6. after \in NodeLists /\ Holds(after)'
    BY <2>2, <2>3, <2>4, LinkingHolds
  <2>7. Woken(nodes, after, q, n)
    BY <1>3, <2>1, <2>2, <2>3, <2>4 DEF Woken
  <2> QED
    BY <2>4, <2>5, <2>6, <2>7 DEF Stepped
<1>4. CASE UNCHANGED vars
  <2>1. PointersOK' /\ Holds(nodes)'
    BY <1>4 DEF vars, PointersOK, Holds, Linked, Apart
  <2> QED
    BY <1>4, <2>1 DEF Stepped
<1> QED
  BY <1>1, <1>2, <1>3, <1>4 DEF Next

\* The invariant holds in every reachable state.
LEMMA IInvAlways == Spec => []IInv
<1>1. Init => IInv
  BY InitHolds DEF IInv
<1>2. IInv /\ [Next]_vars => IInv'
  BY NextHolds DEF IInv
<1> QED
  BY <1>1, <1>2, PTL DEF Spec

\* Every list ends, at its tail; no node is on two lists; the tail an emptied
\* queue leaves behind is on none, with any number of queues and nodes.
THEOREM ListsAlwaysWellFormed == Spec => []ListsWellFormed
<1>1. IInv => ListsWellFormed
  <2> SUFFICES ASSUME PointersOK, NEW nodes \in NodeLists, Holds(nodes)
               PROVE  ListsWellFormed
    BY DEF IInv
  <2> DEFINE N == Cardinality(Nodes)
  <2>1. \A q \in Queues : /\ Len(nodes[q]) \in Nat /\ Len(nodes[q]) <= N /\ N \in Nat
                          /\ nodes[q] = <<>> <=> Len(nodes[q]) = 0
    BY ListLength, EmptySeq DEF Holds
  <2>2. \A q \in Queues :
          /\ Size(q) = Len(nodes[q])
          /\ OnList(q) = {nodes[q][k] : k \in 1 .. Len(nodes[q])}
          /\ Walk(q) = [k \in 0 .. N |-> IF k < Len(nodes[q]) THEN nodes[q][k + 1] ELSE NULL]
    BY WalkContents, WalkVisits
  <2>3. ASSUME NEW q \in Queues
        PROVE  /\ Walk(q)[N] = NULL
               /\ head[q] # NULL => tail[q] = Walk(q)[Size(q) - 1]
               /\ OnList(q) \subseteq heap
    <3>1. Walk(q)[N] = NULL
      BY <2>1, <2>2
    <3>2. ASSUME head[q] # NULL
          PROVE  tail[q] = Walk(q)[Size(q) - 1]
      <4>1. Linked(q, nodes[q])
        BY DEF Holds
      <4>2. Len(nodes[q]) # 0 /\ tail[q] = nodes[q][Len(nodes[q])]
        BY <2>1, <3>2, <4>1 DEF Linked
      <4>3. Len(nodes[q]) - 1 \in 0 .. N /\ Len(nodes[q]) - 1 + 1 = Len(nodes[q])
        BY <2>1, <4>2
      <4> QED
        BY <2>1, <2>2, <4>2, <4>3
    <3>3. OnList(q) \subseteq heap
      BY <2>2 DEF Holds, Linked
    <3> QED
      BY <3>1, <3>2, <3>3
  <2>4. ASSUME NEW q \in Queues, NEW r \in Queues, q # r
        PROVE  /\ OnList(q) \cap OnList(r) = {}
               /\ tail[q] # NULL => tail[q] \notin OnList(r)
    BY <2>2, <2>4 DEF Holds, Apart
  <2> QED
    BY <2>3, <2>4 DEF ListsWellFormed
<1> QED
  BY <1>1, IInvAlways, PTL

-----------------------------------------------------------------------------
(* The lists are first-in first-out queues.                                *)

\* The pids of a list of nodes whose pid fields are `fields`.
PidsOf(fields, list) == [k \in 1 .. Len(list) |-> fields[list[k]]]

\* They form a sequence, empty with the list, whose first is the head's.
LEMMA PidsSequence ==
  ASSUME NEW fields \in [Nodes -> Pids], NEW list \in Seq(Nodes)
  PROVE  /\ PidsOf(fields, list) \in Seq(Pids)
         /\ Len(PidsOf(fields, list)) = Len(list)
         /\ list # <<>> => /\ PidsOf(fields, list) # <<>>
                          /\ Head(PidsOf(fields, list)) = fields[list[1]]
<1> DEFINE pids == PidsOf(fields, list)
<1>1. Len(list) \in Nat /\ \A k \in 1 .. Len(list) : list[k] \in Nodes
  BY ElementOfSeq, LenProperties
<1>2. \A k \in 1 .. Len(list) : fields[list[k]] \in Pids
  BY <1>1
<1>3. pids \in Seq(Pids)
  BY <1>1, <1>2, IsASeq DEF PidsOf
<1>4. Len(pids) = Len(list)
  BY <1>1, <1>3 DEF PidsOf
<1>5. ASSUME list # <<>>
      PROVE  pids # <<>> /\ Head(pids) = fields[list[1]]
  <2>1. Len(list) \in Nat \ {0} /\ 1 \in 1 .. Len(list)
    BY <1>5, EmptySeq
  <2>2. pids[1] = fields[list[1]]
    BY <2>1 DEF PidsOf
  <2>3. pids # <<>>
    BY <1>3, <1>4, <2>1, EmptySeq
  <2>4. Head(pids) = pids[1]
    BY <1>3, <2>3
  <2> QED
    BY <2>2, <2>3, <2>4
<1> QED
  BY <1>3, <1>4, <1>5

\* To drop the first node is to drop the first pid.
LEMMA PidsOfTail ==
  ASSUME NEW fields \in [Nodes -> Pids], NEW list \in Seq(Nodes), list # <<>>
  PROVE  PidsOf(fields, Tail(list)) = Tail(PidsOf(fields, list))
<1> DEFINE pids == PidsOf(fields, list)
           rest == PidsOf(fields, Tail(list))
<1>1. /\ Tail(list) \in Seq(Nodes) /\ Len(Tail(list)) = Len(list) - 1
      /\ \A i \in 1 .. Len(Tail(list)) : i + 1 \in 1 .. Len(list) /\ Tail(list)[i] = list[i + 1]
  BY TailOfList
<1>2. pids \in Seq(Pids) /\ pids # <<>> /\ Len(pids) = Len(list)
  BY PidsSequence
<1>3. rest \in Seq(Pids) /\ Len(rest) = Len(Tail(list))
  BY <1>1, PidsSequence
<1>4. /\ Tail(pids) \in Seq(Pids) /\ Len(Tail(pids)) = Len(pids) - 1
      /\ \A i \in 1 .. Len(Tail(pids)) : Tail(pids)[i] = pids[i + 1]
  BY <1>2, HeadTailProperties
<1>5. Len(rest) = Len(Tail(pids))
  BY <1>1, <1>2, <1>3, <1>4
<1>6. ASSUME NEW i \in 1 .. Len(rest)
      PROVE  rest[i] = Tail(pids)[i]
  <2>1. i \in 1 .. Len(Tail(list)) /\ i \in 1 .. Len(Tail(pids))
    BY <1>3, <1>5
  <2>2. rest[i] = fields[Tail(list)[i]]
    BY <2>1 DEF PidsOf
  <2>3. i + 1 \in 1 .. Len(list) /\ Tail(list)[i] = list[i + 1] /\ Tail(pids)[i] = pids[i + 1]
    BY <1>1, <1>4, <2>1
  <2>4. pids[i + 1] = fields[list[i + 1]]
    BY <2>3 DEF PidsOf
  <2> QED
    BY <2>2, <2>3, <2>4
<1> HIDE DEF pids, rest
<1>7. rest = Tail(pids)
  BY <1>3, <1>4, <1>5, <1>6, SeqEqual
<1> QED
  BY <1>7 DEF pids, rest

\* A node that is on no list gets its pid: the pids of a list stay ...
LEMMA PidsKept ==
  ASSUME NEW fields \in [Nodes -> Pids], NEW list \in Seq(Nodes), NEW n, NEW p,
         \A k \in 1 .. Len(list) : list[k] # n
  PROVE  PidsOf([fields EXCEPT ![n] = p], list) = PidsOf(fields, list)
<1>1. \A k \in 1 .. Len(list) : list[k] \in Nodes
  BY ElementOfSeq
<1>2. \A k \in 1 .. Len(list) : [fields EXCEPT ![n] = p][list[k]] = fields[list[k]]
  BY <1>1
<1> QED
  BY <1>2 DEF PidsOf

\* ... and a list it is appended to gets its pid at the end.
LEMMA PidsOfAppend ==
  ASSUME NEW fields \in [Nodes -> Pids], NEW list \in Seq(Nodes), NEW n \in Nodes, NEW p \in Pids,
         \A k \in 1 .. Len(list) : list[k] # n
  PROVE  PidsOf([fields EXCEPT ![n] = p], Append(list, n)) = Append(PidsOf(fields, list), p)
<1> DEFINE changed == [fields EXCEPT ![n] = p]
           new == PidsOf(changed, Append(list, n))
           pids == PidsOf(fields, list)
<1>1. /\ Append(list, n) \in Seq(Nodes) /\ Len(Append(list, n)) = Len(list) + 1 /\ Len(list) \in Nat
      /\ \A i \in 1 .. Len(list) : Append(list, n)[i] = list[i]
      /\ Append(list, n)[Len(list) + 1] = n
  BY AppendProperties, LenProperties
<1>2. changed \in [Nodes -> Pids] /\ changed[n] = p
  OBVIOUS
<1>3. new \in Seq(Pids) /\ Len(new) = Len(list) + 1
  BY <1>1, <1>2, PidsSequence
<1>4. pids \in Seq(Pids) /\ Len(pids) = Len(list)
  BY PidsSequence
<1>5. /\ Append(pids, p) \in Seq(Pids) /\ Len(Append(pids, p)) = Len(pids) + 1
      /\ \A i \in 1 .. Len(pids) : Append(pids, p)[i] = pids[i]
      /\ Append(pids, p)[Len(pids) + 1] = p
  BY <1>4, AppendProperties
<1>6. PidsOf(changed, list) = pids
  BY PidsKept
<1>7. ASSUME NEW i \in 1 .. Len(new)
      PROVE  new[i] = Append(pids, p)[i]
  <2>1. i \in 1 .. Len(Append(list, n)) /\ new[i] = changed[Append(list, n)[i]]
    BY <1>1, <1>3 DEF PidsOf
  <2>2. CASE i = Len(list) + 1
    BY <1>1, <1>2, <1>4, <1>5, <2>1, <2>2
  <2>3. CASE i # Len(list) + 1
    <3>1. i \in 1 .. Len(list)
      BY <1>1, <1>3, <2>3
    <3>2. PidsOf(changed, list)[i] = changed[list[i]]
      BY <3>1 DEF PidsOf
    <3>3. Append(list, n)[i] = list[i] /\ Append(pids, p)[i] = pids[i]
      BY <1>1, <1>4, <1>5, <3>1
    <3> QED
      BY <1>6, <2>1, <3>2, <3>3
  <2> QED
    BY <2>2, <2>3
<1> HIDE DEF new, pids
<1>8. new = Append(pids, p)
  BY <1>3, <1>4, <1>5, <1>7, SeqEqual
<1> QED
  BY <1>8 DEF new, pids, changed

\* What Fifo sees of the lists.
ItemsAre(nodes) ==
  [q \in Queues |-> Contents(q)] = [q \in Queues |-> PidsOf(pid, nodes[q])]

\* The walk from head finds the nodes' pids, now ...
LEMMA ItemsOfNodes ==
  ASSUME NEW nodes \in NodeLists
  PROVE  PointersOK /\ Holds(nodes) => ItemsAre(nodes)
BY WalkContents DEF ItemsAre, PidsOf

\* ... and in the next state.
LEMMA ItemsOfNodesNext ==
  ASSUME NEW nodes \in NodeLists
  PROVE  PointersOK' /\ Holds(nodes)' => ItemsAre(nodes)'
<1>1. PointersOK /\ Holds(nodes) => ItemsAre(nodes)
  BY ItemsOfNodes
<1> QED
  BY <1>1, PTL

\* A step that changes the lists changes the queues of Fifo alike.
LEMMA StepsAreFifo ==
  ASSUME PointersOK, PointersOK', NEW nodes \in NodeLists, NEW after \in NodeLists,
         Holds(nodes), Holds(after)', Stepped(nodes, after)
  PROVE  [Lists!Next]_(Lists!fifo)
<1> DEFINE items == [q \in Queues |-> Contents(q)]
           pids(q) == PidsOf(pid, nodes[q])
<1>1. /\ items = [q \in Queues |-> pids(q)]
      /\ items' = [q \in Queues |-> PidsOf(pid', after[q])]
  BY ItemsOfNodes, ItemsOfNodesNext DEF ItemsAre
<1>2. pid \in [Nodes -> Pids] /\ IsFiniteSet(heap)
  BY NodesAssumption, FS_Subset DEF PointersOK
<1>3. \A q \in Queues : /\ nodes[q] \in Seq(Nodes)
                        /\ \A k \in 1 .. Len(nodes[q]) : nodes[q][k] \in heap
  BY DEF NodeLists, Holds, Linked
<1>4. ASSUME NEW n, NEW q \in Queues, NEW from, NEW p \in Pids, Linking(q, from, n, p)
      PROVE  /\ n \in Nodes /\ pid' = [pid EXCEPT ![n] = p]
             /\ \A r \in Queues : \A k \in 1 .. Len(nodes[r]) : nodes[r][k] # n
             /\ Cardinality(heap') = Cardinality(heap) + 1
  BY <1>2, <1>3, <1>4, FS_AddElement DEF Linking
<1>5. CASE Dequeued(nodes, after)
  <2>1. /\ ReadyQueue \in Queues /\ nodes[ReadyQueue] # <<>>
        /\ after[ReadyQueue] = Tail(nodes[ReadyQueue])
        /\ \A q \in Queues \ {ReadyQueue} : after[q] = nodes[q]
        /\ pid' = pid /\ heap' = heap
    BY <1>5, ReadyQueueAssumption DEF Dequeued, NodeLists
  <2>2. PidsOf(pid, Tail(nodes[ReadyQueue])) = Tail(pids(ReadyQueue)) /\ pids(ReadyQueue) # <<>>
    BY <1>2, <1>3, <2>1, PidsOfTail, PidsSequence
  <2>3. items' = [items EXCEPT ![ReadyQueue] = Tail(@)] /\ items[ReadyQueue] # <<>>
    <3> HIDE DEF items
    <3> QED
      BY <1>1, <2>1, <2>2
  <2>4. Lists!Take(ReadyQueue)
    BY <2>1, <2>3 DEF Lists!Take
  <2> QED
    BY <2>1, <2>4 DEF Lists!Next
<1>6. ASSUME NEW q \in Queues, NEW p \in Pids, NEW n, Enqueued(nodes, after, q, n, p)
      PROVE  Lists!Next
  <2>1. /\ n \in Nodes /\ pid' = [pid EXCEPT ![n] = p]
        /\ \A r \in Queues : \A k \in 1 .. Len(nodes[r]) : nodes[r][k] # n
        /\ Cardinality(heap') = Cardinality(heap) + 1
    BY <1>4, <1>6 DEF Enqueued
  <2>2. \A r \in Queues : after[r] = IF r = q THEN Append(nodes[q], n) ELSE nodes[r]
    BY <1>6 DEF Enqueued, Relinked
  <2>3. PidsOf(pid', Append(nodes[q], n)) = Append(pids(q), p)
    BY <1>2, <1>3, <2>1, PidsOfAppend
  <2>4. \A r \in Queues : PidsOf(pid', nodes[r]) = pids(r)
    BY <1>2, <1>3, <2>1, PidsKept
  <2>5. items' = [items EXCEPT ![q] = Append(@, p)]
    <3> HIDE DEF items
    <3> QED
      BY <1>1, <2>2, <2>3, <2>4
  <2>6. Lists!Put(q, p)
    BY <2>1, <2>5 DEF Lists!Put
  <2> QED
    BY <2>6 DEF Lists!Next
<1>7. ASSUME NEW q \in Queues, NEW n, Woken(nodes, after, q, n)
      PROVE  Lists!Next
  <2>1. /\ q # ReadyQueue /\ nodes[q] # <<>> /\ ReadyQueue \in Queues
        /\ pid[nodes[q][1]] \in Pids
    <3>1. nodes[q][1] \in Nodes
      BY <1>3, <1>7, EmptySeq, ElementOfSeq DEF Woken
    <3> QED
      BY <1>2, <1>7, <3>1, ReadyQueueAssumption DEF Woken
  <2>2. PICK p \in Pids : p = pid[nodes[q][1]]
    BY <2>1
  <2>3. /\ n \in Nodes /\ pid' = [pid EXCEPT ![n] = p]
        /\ \A r \in Queues : \A k \in 1 .. Len(nodes[r]) : nodes[r][k] # n
        /\ Cardinality(heap') = Cardinality(heap) + 1
    BY <1>4, <1>7, <2>1, <2>2 DEF Woken
  <2>4. \A r \in Queues : after[r] = IF r = ReadyQueue THEN Append(nodes[ReadyQueue], n)
                                     ELSE IF r = q THEN Tail(nodes[r]) ELSE nodes[r]
    BY <1>7 DEF Woken, Relinked
  <2>5. PidsOf(pid', Append(nodes[ReadyQueue], n)) = Append(pids(ReadyQueue), p)
    BY <1>2, <1>3, <2>1, <2>3, PidsOfAppend
  <2>6. \A r \in Queues : PidsOf(pid', nodes[r]) = pids(r)
    BY <1>2, <1>3, <2>3, PidsKept
  <2>7. /\ PidsOf(pid, Tail(nodes[q])) = Tail(pids(q))
        /\ pids(q) # <<>> /\ Head(pids(q)) = p
    BY <1>2, <1>3, <2>1, <2>2, PidsOfTail, PidsSequence
  <2>8. PidsOf(pid', Tail(nodes[q])) = Tail(pids(q))
    <3>1. PICK rest : rest = Tail(nodes[q])
      OBVIOUS
    <3>2. rest \in Seq(Nodes) /\ \A k \in 1 .. Len(rest) : rest[k] # n
      BY <1>3, <2>1, <2>3, <3>1, TailOfList
    <3>3. PidsOf([pid EXCEPT ![n] = p], rest) = PidsOf(pid, rest)
      BY <1>2, <3>2, PidsKept
    <3> QED
      BY <2>3, <2>7, <3>1, <3>3
  <2>9. /\ items' = [items EXCEPT ![ReadyQueue] = Append(@, Head(items[q])), ![q] = Tail(@)]
        /\ items[q] # <<>>
    <3> HIDE DEF items, pids
    <3>1. items' = [r \in Queues |-> IF r = ReadyQueue THEN Append(pids(ReadyQueue), p)
                                    ELSE IF r = q THEN Tail(pids(q)) ELSE pids(r)]
      BY <1>1, <2>4, <2>5, <2>6, <2>8
    <3>2. /\ items[ReadyQueue] = pids(ReadyQueue) /\ items[q] = pids(q)
          /\ Head(items[q]) = p /\ items[q] # <<>>
      BY <1>1, <2>1, <2>7
    <3> QED
      BY <1>1, <2>1, <3>1, <3>2
  <2>10. Lists!Move(q, ReadyQueue)
    BY <2>1, <2>3, <2>9 DEF Lists!Move
  <2> QED
    BY <2>1, <2>10 DEF Lists!Next
<1>8. CASE after = nodes /\ UNCHANGED vars
  <2>1. items' = items /\ heap' = heap
    <3> HIDE DEF items
    <3> QED
      BY <1>1, <1>8 DEF vars
  <2> QED
    BY <2>1 DEF Lists!fifo
<1> QED
  BY <1>5, <1>6, <1>7, <1>8 DEF Stepped

\* The linked lists, with their stale tails and the double life of a woken pid
\* for a few statements, are first-in first-out queues, and every node that is
\* allocated puts one pid on one of them.
THEOREM ListsAreFifo == Spec => IsFifo
<1>1. Init => Lists!Init
  <2> SUFFICES ASSUME Init PROVE Lists!Init
    OBVIOUS
  <2>1. PICK none \in NodeLists : none = [q \in Queues |-> <<>>] /\ PointersOK /\ Holds(none)
    BY InitHolds
  <2>2. [q \in Queues |-> Contents(q)] = [q \in Queues |-> PidsOf(pid, none[q])]
    BY <2>1, ItemsOfNodes DEF ItemsAre
  <2>3. \A q \in Queues : PidsOf(pid, none[q]) = <<>>
    <3>1. PidsOf(pid, <<>>) \in Seq(Pids) /\ Len(PidsOf(pid, <<>>)) = 0
      BY <2>1, PidsSequence, EmptySeq DEF PointersOK
    <3> QED
      BY <2>1, <3>1, EmptySeq
  <2>4. Cardinality(heap) = 0
    BY FS_EmptySet DEF Init
  <2> QED
    BY <2>2, <2>3, <2>4 DEF Lists!Init
<1>2. IInv /\ IInv' /\ [Next]_vars => [Lists!Next]_(Lists!fifo)
  <2> SUFFICES ASSUME PointersOK, NEW nodes \in NodeLists, Holds(nodes), [Next]_vars
               PROVE  [Lists!Next]_(Lists!fifo)
    BY DEF IInv
  <2>1. PointersOK' /\ \E after \in NodeLists : Holds(after)' /\ Stepped(nodes, after)
    BY NextHolds
  <2> QED
    BY <2>1, StepsAreFifo
<1> QED
  BY <1>1, <1>2, IInvAlways, PTL DEF Spec, IsFifo, Lists!Spec
=============================================================================
