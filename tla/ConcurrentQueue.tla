-------------------------- MODULE ConcurrentQueue --------------------------
(***************************************************************************)
(* The concurrent queue of src/lib/cqueue/cqueue.c over the linked queue   *)
(* of src/lib/queue/queue.c, down to its nodes and pointers.  Everything   *)
(* done under CQueue.lock is one step; waiting on the condition and        *)
(* signalling it, which CQueue_push does after unlocking, are steps of     *)
(* their own.                                                              *)
(***************************************************************************)
EXTENDS Naturals, Sequences, FiniteSets

CONSTANTS
  Nodes,         \* the memory that QueueNode_new() takes nodes from
  Objects,       \* what is pushed
  Producers,     \* the threads that call CQueue_push
  Waiters,       \* the threads that call CQueue_waitAndPop
  MaxPushes,     \* bound: the number of pushes
  AllocMayFail,  \* whether calloc() may return NULL
  Spurious,      \* whether pthread_cond_wait() may return without a signal
  NULL

ASSUME NullAssumption == NULL \notin Nodes /\ NULL \notin Objects
ASSUME FiniteAssumption ==
  IsFiniteSet(Nodes) /\ IsFiniteSet(Producers) /\ IsFiniteSet(Waiters)
ASSUME BoundAssumption == MaxPushes \in Nat

VARIABLES
  first, last, length,  \* the fields of Queue
  next,                 \* QueueNode.next of each allocated node
  data,                 \* QueueNode.data of each allocated node
  allocated,            \* the nodes that are not free
  ppc,                  \* whether a producer still has to signal
  wpc,                  \* where a waiter is in CQueue_waitAndPop
  pushes,               \* the number of pushes so far, for MaxPushes
  popped,               \* history: the objects popped so far
  lost,                 \* history: an allocation has failed
  freed                 \* CQueue_free has been called

links == <<first, last, length, next, data, allocated>>
vars == <<links, ppc, wpc, pushes, popped, lost, freed>>

Pointer == Nodes \cup {NULL}

TypeOK ==
  /\ first \in Pointer /\ last \in Pointer /\ length \in Nat
  /\ next \in [Nodes -> Pointer]
  /\ data \in [Nodes -> Objects \cup {NULL}]
  /\ allocated \in SUBSET Nodes
  /\ ppc \in [Producers -> {"idle", "signal"}]
  /\ wpc \in [Waiters -> {"idle", "waiting", "woken"}]
  /\ pushes \in 0 .. MaxPushes
  /\ popped \in Seq(Objects)
  /\ lost \in BOOLEAN
  /\ freed \in BOOLEAN

Init ==
  /\ first = NULL /\ last = NULL /\ length = 0
  /\ next = [n \in Nodes |-> NULL]
  /\ data = [n \in Nodes |-> NULL]
  /\ allocated = {}
  /\ ppc = [p \in Producers |-> "idle"]
  /\ wpc = [w \in Waiters |-> "idle"]
  /\ pushes = 0
  /\ popped = <<>>
  /\ lost = FALSE
  /\ freed = FALSE

-----------------------------------------------------------------------------
(* src/lib/queue/queue.c *)

\* Mutant: a lost last pointer is not noticed.
Queue_empty_NoLastCheck == length = 0 \/ first = NULL

Queue_empty == length = 0 \/ first = NULL \/ last = NULL

\* Mutant: the last pointer is not moved to the new node.
Queue_enqueue_LastNotMoved(node, x) ==
  /\ allocated' = allocated \cup {node}
  /\ data' = [data EXCEPT ![node] = x]
  /\ next' = IF Queue_empty THEN next ELSE [next EXCEPT ![last] = node]
  /\ IF Queue_empty THEN first' = node /\ last' = node ELSE UNCHANGED <<first, last>>
  /\ length' = length + 1
  /\ UNCHANGED lost

\* Queue_enqueue with the pointer that QueueNode_new() returned, which it does
\* not check; a new node has no next node.  The result is true in any case.
Queue_enqueue(node, x) ==
  /\ allocated' = allocated \cup ({node} \ {NULL})
  /\ data' = IF node = NULL THEN data ELSE [data EXCEPT ![node] = x]
  /\ LET cleared == IF node = NULL THEN next ELSE [next EXCEPT ![node] = NULL]
     IN  IF Queue_empty
         THEN first' = node /\ next' = cleared
         ELSE UNCHANGED first /\ next' = [cleared EXCEPT ![last] = node]
  /\ last' = node
  /\ length' = length + 1
  /\ lost' = (lost \/ node = NULL)

\* What Queue_dequeue does to the queue itself.
Unchain == first' = next[first] /\ length' = length - 1 /\ UNCHANGED last

\* Mutant: the data is copied after it was cleared.
Queue_dequeue_CopiedTooLate ==
  /\ ~Queue_empty
  /\ Unchain
  /\ allocated' = allocated \ {first}
  /\ popped' = Append(popped, NULL)
  /\ UNCHANGED <<next, data, lost>>

\* Mutant: the node is not freed.
Queue_dequeue_NotFreed ==
  /\ ~Queue_empty
  /\ Unchain
  /\ popped' = Append(popped, data[first])
  /\ UNCHANGED <<next, data, allocated, lost>>

\* Queue_dequeue of a queue that is not empty: the node is copied, cleared and
\* freed.  The last pointer is left alone, even when it points at that node.
Queue_dequeue ==
  /\ ~Queue_empty
  /\ Unchain
  /\ allocated' = allocated \ {first}
  /\ next' = [next EXCEPT ![first] = NULL]
  /\ data' = [data EXCEPT ![first] = NULL]
  /\ popped' = Append(popped, data[first])
  /\ UNCHANGED lost

\* Queue_dequeue when the memory for the copy cannot be had: NULL is returned
\* after the node was taken off the chain, and it is not counted or freed.
Queue_dequeueFails ==
  /\ AllocMayFail
  /\ ~Queue_empty
  /\ first' = next[first]
  /\ lost' = TRUE
  /\ UNCHANGED <<last, length, next, data, allocated, popped>>

\* A walk along the links that starts at node: the value at k is where k steps
\* lead to.
WalkFrom(node, link) ==
  LET step[k \in 0 .. Cardinality(Nodes)] ==
        IF k = 0 THEN node
        ELSE IF step[k - 1] = NULL THEN NULL ELSE link[step[k - 1]]
  IN  step

\* The nodes from first to the end of the chain.
Walk == WalkFrom(first, next)

Reachable == {Walk[k] : k \in 0 .. Cardinality(Nodes)} \ {NULL}

\* Queue_purge, called by Queue_free: every node of the chain is freed.
Queue_purge ==
  IF Queue_empty
  THEN UNCHANGED links
  ELSE /\ allocated' = allocated \ Reachable
       /\ next' = [n \in Nodes |-> IF n \in Reachable THEN NULL ELSE next[n]]
       /\ data' = [n \in Nodes |-> IF n \in Reachable THEN NULL ELSE data[n]]
       /\ first' = NULL /\ last' = NULL /\ length' = 0

-----------------------------------------------------------------------------
(* src/lib/cqueue/cqueue.c *)

\* Mutant: only the push to an empty queue signals.
AfterPush_OnlyIfEmpty == IF Queue_empty THEN "signal" ELSE "idle"

\* What CQueue_push has to do when it has unlocked.
AfterPush == "signal"

\* The critical section of CQueue_push.
CQueue_push(p) ==
  /\ ~freed
  /\ ppc[p] = "idle"
  /\ pushes < MaxPushes
  /\ pushes' = pushes + 1
  /\ \E x \in Objects :
       \/ \E node \in Nodes \ allocated : Queue_enqueue(node, x)
       \/ AllocMayFail /\ Queue_enqueue(NULL, x)
  /\ ppc' = [ppc EXCEPT ![p] = AfterPush]
  /\ UNCHANGED <<wpc, popped, freed>>

Waiting == {w \in Waiters : wpc[w] = "waiting"}

\* The pthread_cond_signal() at the end of CQueue_push.
CQueue_signal(p) ==
  /\ ppc[p] = "signal"
  /\ ppc' = [ppc EXCEPT ![p] = "idle"]
  /\ IF Waiting = {} THEN UNCHANGED wpc
     ELSE \E w \in Waiting : wpc' = [wpc EXCEPT ![w] = "woken"]
  /\ UNCHANGED <<links, pushes, popped, lost, freed>>

\* CQueue_tryPop; it changes nothing if the queue is empty.
CQueue_tryPop ==
  /\ ~freed
  /\ Queue_dequeue \/ Queue_dequeueFails
  /\ UNCHANGED <<ppc, wpc, pushes, freed>>

\* CQueue_waitAndPop finds the queue empty and waits.
CQueue_wait(w) ==
  /\ ~freed
  /\ wpc[w] = "idle"
  /\ Queue_empty
  /\ wpc' = [wpc EXCEPT ![w] = "waiting"]
  /\ UNCHANGED <<links, ppc, pushes, popped, lost, freed>>

SpuriousWakeup(w) ==
  /\ Spurious
  /\ wpc[w] = "waiting"
  /\ wpc' = [wpc EXCEPT ![w] = "woken"]
  /\ UNCHANGED <<links, ppc, pushes, popped, lost, freed>>

\* CQueue_waitAndPop pops, at once or after the wait; the queue is not looked
\* at again after the wait, so that it may be empty and NULL is returned.
CQueue_waitAndPop(w) ==
  /\ ~freed
  /\ \/ wpc[w] = "idle" /\ ~Queue_empty
     \/ wpc[w] = "woken"
  /\ \/ Queue_dequeue
     \/ Queue_dequeueFails
     \/ Queue_empty /\ UNCHANGED <<links, popped, lost>>
  /\ wpc' = [wpc EXCEPT ![w] = "idle"]
  /\ UNCHANGED <<ppc, pushes, freed>>

\* CQueue_free; the callers see to it that no call is under way.
CQueue_free ==
  /\ ~freed
  /\ \A p \in Producers : ppc[p] = "idle"
  /\ \A w \in Waiters : wpc[w] = "idle"
  /\ Queue_purge
  /\ freed' = TRUE
  /\ UNCHANGED <<ppc, wpc, pushes, popped, lost>>

Next ==
  \/ \E p \in Producers : CQueue_push(p) \/ CQueue_signal(p)
  \/ CQueue_tryPop
  \/ \E w \in Waiters : \/ CQueue_wait(w) \/ SpuriousWakeup(w)
                        \/ CQueue_waitAndPop(w)
  \/ CQueue_free

Spec == Init /\ [][Next]_vars

-----------------------------------------------------------------------------
(* Correctness. *)

\* The objects along the chain of nodes, in order.
Contents ==
  IF Queue_empty THEN <<>>
  ELSE [i \in 1 .. Cardinality(Reachable) |-> data[Walk[i - 1]]]

\* The queue of nodes implements the queue of queue.h: the chain holds the
\* objects in the order of the pushes and Queue_dequeue returns its front, in
\* spite of the last pointer that dangles when the queue has been emptied.
\* When memory runs out, objects at the front may be lost; they never come
\* back, and the others keep their order.
Abstract == INSTANCE FIFO WITH queue <- Contents, MayLose <- AllocMayFail
ImplementsFIFO == Abstract!Spec

\* Queue_dequeue and Queue_purge free exactly the nodes that leave the chain:
\* as long as memory suffices, none is lost, none is used after it was freed,
\* and length counts them.
ChainOwnsNodes ==
  ~lost => allocated = Reachable /\ length = Cardinality(Reachable)

\* Even when memory runs out inside Queue_enqueue or Queue_dequeue, whose
\* results nobody checks, a queue that does not look empty leads only to nodes
\* that are allocated, and its last pointer to the last of them.
ChainIsSound ==
  ~Queue_empty => Reachable \subseteq allocated /\ last \in Reachable

\* CQueue_push signals once per push and after unlocking, and still no waiter
\* is forgotten: if somebody waits, then for every object in the queue there is
\* a signal to come or a woken waiter that has yet to look at the queue.
NoLostWakeup ==
  Waiting # {} =>
    Len(Contents)
      <= Cardinality({p \in Producers : ppc[p] = "signal"})
         + Cardinality({w \in Waiters : wpc[w] = "woken"})

-----------------------------------------------------------------------------
(* The inductive invariant behind the chain and the refinement. *)

\* The sequence s is the chain that starts at node and follows link: no node
\* occurs twice, and the last one has no next node.
IsChain(s, node, link) ==
  /\ s \in Seq(Nodes)
  /\ \A i, j \in 1 .. Len(s) : s[i] = s[j] => i = j
  /\ node = IF s = <<>> THEN NULL ELSE s[1]
  /\ \A i \in 1 .. Len(s) : link[s[i]] = IF i < Len(s) THEN s[i + 1] ELSE NULL

Elements(s) == {s[i] : i \in 1 .. Len(s)}

\* The nodes along the chain, in order, whether or not the queue looks empty.
Chain == [i \in 1 .. Cardinality(Reachable) |-> Walk[i - 1]]

\* What is true of the chain s: its nodes are allocated and hold objects, last
\* is its last node unless memory ran out, and length is never too small.
ChainFits(s) ==
  /\ IsChain(s, first, next)
  /\ \A i \in 1 .. Len(s) : s[i] \in allocated /\ data[s[i]] \in Objects
  /\ s # <<>> => last \in {NULL, s[Len(s)]}
  /\ length >= Len(s)
  /\ ~lost => /\ allocated = Elements(s)
              /\ length = Len(s)
              /\ s # <<>> => last # NULL

\* What every step of every thread preserves, and from which the properties of
\* the chain and the refinement follow.
QueueInvariant == TypeOK /\ ChainFits(Chain)
=============================================================================
