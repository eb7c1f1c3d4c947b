-------------------------------- MODULE FIFO --------------------------------
(***************************************************************************)
(* What queue.h and cqueue.h promise: objects are added at the end of the  *)
(* queue and popped from its front, each of them once.  If memory runs     *)
(* out, objects may be lost, but what is left keeps its order.             *)
(***************************************************************************)
EXTENDS Naturals, Sequences

CONSTANTS
  Objects,  \* what is pushed
  MayLose   \* whether memory may run out

VARIABLES
  queue,   \* the objects in the queue
  popped,  \* history: the objects popped so far
  freed    \* the queue has been destroyed

vars == <<queue, popped, freed>>

Init == queue = <<>> /\ popped = <<>> /\ freed = FALSE

Push ==
  /\ ~freed
  /\ \E x \in Objects : queue' = Append(queue, x)
  /\ UNCHANGED <<popped, freed>>

Pop ==
  /\ ~freed
  /\ queue # <<>>
  /\ queue' = Tail(queue)
  /\ popped' = Append(popped, Head(queue))
  /\ UNCHANGED freed

\* When memory runs out, objects are lost from the front of the queue.
Lose ==
  /\ ~freed
  /\ MayLose
  /\ \E k \in 1 .. Len(queue) : queue' = SubSeq(queue, k + 1, Len(queue))
  /\ UNCHANGED <<popped, freed>>

\* Only destroying the queue drops what is in it.
Free ==
  /\ ~freed
  /\ freed' = TRUE
  /\ queue' = <<>>
  /\ UNCHANGED popped

Next == Push \/ Pop \/ Lose \/ Free

Spec == Init /\ [][Next]_vars
=============================================================================
