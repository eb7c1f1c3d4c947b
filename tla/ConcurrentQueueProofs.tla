----------------------- MODULE ConcurrentQueueProofs -----------------------
(***************************************************************************)
(* Proofs about the concurrent queue: the chain of nodes, the waiters and  *)
(* the refinement of the abstract queue, for any number of nodes, objects  *)
(* and threads.                                                            *)
(***************************************************************************)
EXTENDS ConcurrentQueue, FiniteSetTheorems, SequenceTheorems,
        WellFoundedInduction, TLAPS

-----------------------------------------------------------------------------
(* Induction and walks. *)

\* A set that has 0 and, with a number, the next one, has them all.
LEMMA SetInduction ==
  ASSUME NEW S, 0 \in S, \A n \in Nat : n \in S => n + 1 \in S
  PROVE  Nat \subseteq S
<1> DEFINE T == Nat \ S
           R == {ss \in Nat \X Nat : ss[1] < ss[2]}
<1>1. \A x, y \in Nat : x < y => <<x, y>> \in R
  OBVIOUS
<1>2. IsWellFoundedOn(R, Nat)
  BY NatLessThanWellFounded, Zenon DEF OpToRel
<1> HIDE DEF R
<1>3. SUFFICES ASSUME T # {} PROVE FALSE
  OBVIOUS
<1>4. PICK x \in T : \A y \in T : ~(<<y, x>> \in R)
  BY <1>2, <1>3, WFMin
<1>5. x - 1 \in Nat /\ x - 1 < x /\ (x - 1) + 1 = x
  BY <1>4
<1>6. x - 1 \in T
  BY <1>4, <1>5
<1> QED
  BY <1>1, <1>4, <1>5, <1>6

\* A chain is not longer than there are nodes.
LEMMA ChainIsShort ==
  ASSUME NEW s, NEW node, NEW link, IsChain(s, node, link)
  PROVE  /\ Cardinality(Nodes) \in Nat
         /\ Len(s) <= Cardinality(Nodes)
         /\ Cardinality({s[i] : i \in 1 .. Len(s)}) = Len(s)
<1> DEFINE n == Len(s)
           T == {s[i] : i \in 1 .. n}
<1>1. s \in Seq(Nodes) /\ n \in Nat /\ \A i, j \in 1 .. n : s[i] = s[j] => i = j
  BY DEF IsChain
<1>2. s \in [1 .. n -> Nodes] /\ s \in [1 .. n -> T]
  BY <1>1
<1>3. s \in Injection(1 .. n, Nodes) /\ s \in Bijection(1 .. n, T)
  BY <1>1, <1>2 DEF Injection, Bijection, Surjection, IsInjective
<1>4. Cardinality(1 .. n) = n
  <2>1. 1 \in Int /\ n \in Int
    BY <1>1
  <2>2. Cardinality(1 .. n) = IF 1 > n THEN 0 ELSE n - 1 + 1
    BY <2>1, FS_Interval
  <2> QED
    BY <1>1, <2>2
<1>5. Cardinality(Nodes) \in Nat
  BY FS_CardinalityType, FiniteAssumption
<1>6. n <= Cardinality(Nodes)
  BY <1>3, <1>4, FS_Injection, FiniteAssumption
<1>7. Cardinality(T) = n
  BY <1>1, <1>3, FS_CountingElements DEF ExistsBijection
<1> QED
  BY <1>5, <1>6, <1>7

\* Walking along a chain visits its nodes in order and then stays at NULL.
LEMMA WalkAlongChain ==
  ASSUME NEW s, NEW node, NEW link, IsChain(s, node, link)
  PROVE  \A k \in 0 .. Cardinality(Nodes) :
           WalkFrom(node, link)[k] = IF k < Len(s) THEN s[k + 1] ELSE NULL
<1> DEFINE N == Cardinality(Nodes)
           W == WalkFrom(node, link)
           Step(f) == [k \in 0 .. N |->
                         IF k = 0 THEN node
                         ELSE IF f[k - 1] = NULL THEN NULL ELSE link[f[k - 1]]]
           g == [k \in 0 .. N |-> IF k < Len(s) THEN s[k + 1] ELSE NULL]
<1>1. /\ s \in Seq(Nodes) /\ Len(s) \in Nat
      /\ node = IF s = <<>> THEN NULL ELSE s[1]
      /\ \A i \in 1 .. Len(s) :
           s[i] # NULL /\ link[s[i]] = IF i < Len(s) THEN s[i + 1] ELSE NULL
  BY NullAssumption DEF IsChain
<1>2. N \in Nat
  BY ChainIsShort
<1>3. g = Step(g)
  <2>1. ASSUME NEW k \in 0 .. N
        PROVE  g[k] = Step(g)[k]
    <3>1. CASE k = 0
      BY <1>1, <1>2, <3>1
    <3>2. CASE k # 0 /\ k - 1 < Len(s)
      <4>1. g[k - 1] = s[k] /\ k \in 1 .. Len(s)
        BY <1>1, <1>2, <3>2
      <4> QED
        BY <1>1, <1>2, <3>2, <4>1
    <3>3. CASE k # 0 /\ ~(k - 1 < Len(s))
      <4>1. g[k - 1] = NULL /\ g[k] = NULL
        BY <1>1, <1>2, <3>3
      <4> QED
        BY <1>1, <1>2, <3>3, <4>1
    <3> QED
      BY <3>1, <3>2, <3>3
  <2> QED
    BY <2>1
<1>4. W = Step(W)
  <2> HIDE DEF g
  <2>1. W = CHOOSE f : f = Step(f)
    BY DEF WalkFrom
  <2>2. \E f : f = Step(f)
    BY <1>3
  <2> HIDE DEF W, Step
  <2> QED
    BY <2>1, <2>2
<1>5. \A k \in Nat : k \in 0 .. N => W[k] = g[k]
  <2> DEFINE S == {k \in Nat : k \in 0 .. N => W[k] = g[k]}
  <2>1. W[0] = node /\ g[0] = node
    BY <1>1, <1>2, <1>4
  <2>2. ASSUME NEW k \in Nat, k \in S
        PROVE  k + 1 \in S
    <3>1. SUFFICES ASSUME k + 1 \in 0 .. N
                   PROVE  W[k + 1] = g[k + 1]
      OBVIOUS
    <3>2. W[k] = g[k] /\ k \in 0 .. N
      BY <2>2, <3>1, <1>2
    <3> HIDE DEF W, g
    <3>3. W[k + 1] = Step(W)[k + 1] /\ g[k + 1] = Step(g)[k + 1]
      BY <1>3, <1>4
    <3>4. Step(W)[k + 1] = Step(g)[k + 1]
      BY <3>1, <3>2
    <3> QED
      BY <3>3, <3>4
  <2>3. 0 \in S
    BY <2>1
  <2> HIDE DEF S
  <2>4. Nat \subseteq S
    BY <2>2, <2>3, SetInduction
  <2> QED
    BY <2>4 DEF S
<1> QED
  BY <1>2, <1>5

\* What a walk comes across.
Visited(W) == {W[k] : k \in 0 .. Cardinality(Nodes)} \ {NULL}

\* What a walk along a chain finds: its nodes, each once, in order.
LEMMA WalkIsChain ==
  ASSUME NEW s, NEW node, NEW link, IsChain(s, node, link)
  PROVE  /\ Visited(WalkFrom(node, link)) = Elements(s)
         /\ Cardinality(Elements(s)) = Len(s)
         /\ \A i \in 1 .. Len(s) : WalkFrom(node, link)[i - 1] = s[i]
<1> DEFINE N == Cardinality(Nodes)
           W == WalkFrom(node, link)
<1>1. /\ s \in Seq(Nodes) /\ Len(s) \in Nat
      /\ \A i \in 1 .. Len(s) : s[i] # NULL
  BY NullAssumption DEF IsChain
<1>2. N \in Nat /\ Len(s) <= N /\ Cardinality(Elements(s)) = Len(s)
  BY ChainIsShort DEF Elements
<1>3. \A k \in 0 .. N : W[k] = IF k < Len(s) THEN s[k + 1] ELSE NULL
  BY WalkAlongChain
<1> HIDE DEF W, N
<1>4. \A i \in 1 .. Len(s) : i - 1 \in 0 .. N /\ W[i - 1] = s[i]
  BY <1>1, <1>2, <1>3
<1>5. Elements(s) \subseteq Visited(W)
  BY <1>1, <1>4 DEF N, Elements, Visited
<1>6. Visited(W) \subseteq Elements(s)
  <2>1. SUFFICES ASSUME NEW k \in 0 .. N, W[k] # NULL
                 PROVE  W[k] \in Elements(s)
    BY DEF N, Visited
  <2>2. k < Len(s) /\ W[k] = s[k + 1] /\ k + 1 \in 1 .. Len(s)
    BY <1>1, <1>2, <1>3, <2>1
  <2> QED
    BY <2>2 DEF Elements
<1> QED
  BY <1>2, <1>4, <1>5, <1>6 DEF W

-----------------------------------------------------------------------------
(* The chain of the queue, before and after a step. *)

\* The objects along the nodes of s.
Along(s, d) == [i \in 1 .. Len(s) |-> d[s[i]]]

\* The chain of the queue is the only one, and Contents is what is along it.
LEMMA ChainIsUnique ==
  ASSUME NEW s, IsChain(s, first, next)
  PROVE  /\ Chain = s
         /\ Reachable = Elements(s)
         /\ Cardinality(Reachable) = Len(s)
         /\ Contents = IF Queue_empty THEN <<>> ELSE Along(s, data)
<1>1. Reachable = Visited(WalkFrom(first, next))
  BY DEF Walk, Reachable, Visited
<1>2. /\ Reachable = Elements(s)
      /\ Cardinality(Reachable) = Len(s)
      /\ \A i \in 1 .. Len(s) : Walk[i - 1] = s[i]
  BY <1>1, WalkIsChain DEF Walk
<1>3. Chain = s
  <2>1. Chain = [i \in 1 .. Len(s) |-> Walk[i - 1]]
    BY <1>2 DEF Chain
  <2>2. s = [i \in 1 .. Len(s) |-> s[i]]
    BY DEF IsChain
  <2> QED
    BY <1>2, <2>1, <2>2
<1>4. Contents = IF Queue_empty THEN <<>> ELSE Along(s, data)
  <2>1. Contents = IF Queue_empty THEN <<>>
                   ELSE [i \in 1 .. Len(s) |-> data[Walk[i - 1]]]
    BY <1>2 DEF Contents
  <2>2. [i \in 1 .. Len(s) |-> data[Walk[i - 1]]] = Along(s, data)
    BY <1>2 DEF Along
  <2> QED
    BY <2>1, <2>2
<1> QED
  BY <1>2, <1>3, <1>4

\* The same after a step.
LEMMA NextChainIsUnique ==
  ASSUME NEW s, IsChain(s, first', next')
  PROVE  /\ Chain' = s
         /\ Reachable' = Elements(s)
         /\ Cardinality(Reachable') = Len(s)
         /\ Contents' = IF Queue_empty' THEN <<>> ELSE Along(s, data')
<1>1. Reachable' = Visited(WalkFrom(first', next'))
  BY DEF Walk, Reachable, Visited
<1>2. /\ Reachable' = Elements(s)
      /\ Cardinality(Reachable') = Len(s)
      /\ \A i \in 1 .. Len(s) : Walk'[i - 1] = s[i]
  BY <1>1, WalkIsChain DEF Walk
<1>3. Chain' = s
  <2>1. Chain' = [i \in 1 .. Len(s) |-> Walk'[i - 1]]
    BY <1>2 DEF Chain
  <2>2. s = [i \in 1 .. Len(s) |-> s[i]]
    BY DEF IsChain
  <2> QED
    BY <1>2, <2>1, <2>2
<1>4. Contents' = IF Queue_empty' THEN <<>> ELSE Along(s, data')
  <2>1. Contents' = IF Queue_empty' THEN <<>>
                   ELSE [i \in 1 .. Len(s) |-> data'[Walk'[i - 1]]]
    BY <1>2 DEF Contents
  <2>2. [i \in 1 .. Len(s) |-> data'[Walk'[i - 1]]] = Along(s, data')
    BY <1>2 DEF Along
  <2> QED
    BY <2>1, <2>2
<1> QED
  BY <1>2, <1>3, <1>4

\* A queue that does not look empty has a chain that ends at last.
LEMMA ChainOfNonempty ==
  ASSUME NEW s, TypeOK, ChainFits(s), ~Queue_empty
  PROVE  /\ s # <<>> /\ s \in Seq(Nodes) /\ Len(s) \in Nat \ {0}
         /\ first = s[1] /\ last = s[Len(s)] /\ last \in Nodes
         /\ next[last] = NULL
<1>1. s \in Seq(Nodes) /\ first = IF s = <<>> THEN NULL ELSE s[1]
  BY DEF ChainFits, IsChain
<1>2. s # <<>> /\ Len(s) \in Nat \ {0} /\ first = s[1]
  BY <1>1 DEF Queue_empty
<1>3. last = s[Len(s)] /\ s[Len(s)] \in Nodes
  BY <1>1, <1>2 DEF ChainFits, Queue_empty
<1>4. next[s[Len(s)]] = NULL
  BY <1>2 DEF ChainFits, IsChain
<1> QED
  BY <1>1, <1>2, <1>3, <1>4

-----------------------------------------------------------------------------
(* What the operations of queue.c do to the chain. *)

\* A chain whose last node gets a new node as its next one is longer by one.
LEMMA LongerChain ==
  ASSUME NEW s, NEW node \in Nodes, NEW f, NEW link, NEW link2,
         s # <<>>, IsChain(s, f, link), node \notin Elements(s),
         link2[node] = NULL,
         \A i \in 1 .. Len(s) : link2[s[i]] = IF i = Len(s) THEN node ELSE link[s[i]]
  PROVE  IsChain(Append(s, node), f, link2)
<1> DEFINE t == Append(s, node)
           n == Len(s)
<1>1. /\ s \in Seq(Nodes) /\ n \in Nat \ {0} /\ \A i \in 1 .. n : s[i] \in Nodes
      /\ \A i, j \in 1 .. n : s[i] = s[j] => i = j
      /\ f = s[1]
      /\ \A i \in 1 .. n : link[s[i]] = IF i < n THEN s[i + 1] ELSE NULL
      /\ \A i \in 1 .. n : s[i] # node
  BY DEF IsChain, Elements
<1>2. /\ t \in Seq(Nodes) /\ Len(t) = n + 1 /\ t # <<>> /\ t[n + 1] = node
      /\ \A i \in 1 .. n : t[i] = s[i]
  BY <1>1
<1> HIDE DEF t, n
<1>3. \A i, j \in 1 .. n + 1 : t[i] = t[j] => i = j
  BY <1>1, <1>2
<1>4. /\ link2[node] = NULL
      /\ \A i \in 1 .. n : link2[s[i]] = IF i = n THEN node ELSE link[s[i]]
  BY DEF n
<1>5. \A i \in 1 .. n + 1 : link2[t[i]] = IF i < n + 1 THEN t[i + 1] ELSE NULL
  BY <1>1, <1>2, <1>4
<1>6. IsChain(t, f, link2)
  BY <1>1, <1>2, <1>3, <1>5 DEF IsChain
<1> QED
  BY <1>6 DEF t

\* The tail of a chain is the chain that starts at its second node.
LEMMA ShorterChain ==
  ASSUME NEW s, NEW f, NEW link, s # <<>>, IsChain(s, f, link)
  PROVE  /\ Tail(s) \in Seq(Nodes) /\ Len(s) \in Nat \ {0}
         /\ Len(Tail(s)) = Len(s) - 1
         /\ \A i \in 1 .. Len(s) - 1 : Tail(s)[i] = s[i + 1] /\ s[i + 1] # s[1]
         /\ Elements(Tail(s)) = Elements(s) \ {f}
         /\ f = s[1] /\ f \in Nodes
         /\ IsChain(Tail(s), link[f], link)
<1> DEFINE t == Tail(s)
           n == Len(s)
<1>1. /\ s \in Seq(Nodes) /\ n \in Nat \ {0} /\ \A i \in 1 .. n : s[i] \in Nodes
      /\ \A i, j \in 1 .. n : s[i] = s[j] => i = j
      /\ f = s[1]
      /\ \A i \in 1 .. n : link[s[i]] = IF i < n THEN s[i + 1] ELSE NULL
  BY DEF IsChain
<1>2. t \in Seq(Nodes) /\ Len(t) = n - 1 /\ \A i \in 1 .. n - 1 : t[i] = s[i + 1]
  BY <1>1
<1> HIDE DEF t, n
<1>3. \A i \in 1 .. n - 1 : s[i + 1] # s[1]
  BY <1>1
<1>4. Elements(t) = Elements(s) \ {f}
  <2>1. \A i \in 1 .. n : s[i] # f => i - 1 \in 1 .. n - 1 /\ t[i - 1] = s[i]
    BY <1>1, <1>2
  <2>2. \A i \in 1 .. n - 1 : i + 1 \in 1 .. n /\ t[i] = s[i + 1] /\ t[i] # f
    BY <1>1, <1>2, <1>3
  <2> QED
    BY <1>2, <2>1, <2>2 DEF Elements, n
<1>5. IsChain(t, link[f], link)
  <2>1. \A i, j \in 1 .. n - 1 : t[i] = t[j] => i = j
    BY <1>1, <1>2
  <2>2. link[f] = IF t = <<>> THEN NULL ELSE t[1]
    BY <1>1, <1>2
  <2>3. \A i \in 1 .. n - 1 : link[t[i]] = IF i < n - 1 THEN t[i + 1] ELSE NULL
    BY <1>1, <1>2
  <2> QED
    BY <1>2, <2>1, <2>2, <2>3 DEF IsChain
<1> QED
  BY <1>1, <1>2, <1>3, <1>4, <1>5 DEF t, n

\* Links of nodes that are not in a chain do not matter to it.
LEMMA SameChain ==
  ASSUME NEW s, NEW f, NEW link, NEW link2, IsChain(s, f, link),
         \A n \in Elements(s) : link2[n] = link[n]
  PROVE  IsChain(s, f, link2)
<1>1. \A i \in 1 .. Len(s) : link2[s[i]] = link[s[i]]
  BY DEF Elements
<1> QED
  BY <1>1 DEF IsChain

\* Queue_enqueue with a new node adds its object at the end.
LEMMA EnqueueAppends ==
  ASSUME TypeOK, NEW s, ChainFits(s), NEW x \in Objects,
         NEW node \in Nodes \ allocated, Queue_enqueue(node, x)
  PROVE  /\ \E t : ChainFits(t)'
         /\ Contents' = Append(Contents, x)
<1>0. PICK t : t = IF Queue_empty THEN <<node>> ELSE Append(s, node)
  OBVIOUS
<1>1. /\ next \in [Nodes -> Pointer] /\ data \in [Nodes -> Objects \cup {NULL}]
      /\ length \in Nat /\ allocated \subseteq Nodes /\ lost \in BOOLEAN
      /\ node \in Nodes /\ node # NULL /\ node \notin allocated
  BY NullAssumption DEF TypeOK
<1>2. /\ allocated' = allocated \cup {node}
      /\ data' = [data EXCEPT ![node] = x]
      /\ last' = node /\ length' = length + 1 /\ lost' = lost
      /\ Queue_empty => first' = node /\ next' = [next EXCEPT ![node] = NULL]
      /\ ~Queue_empty => /\ first' = first
                         /\ next' = [[next EXCEPT ![node] = NULL] EXCEPT ![last] = node]
  <2>1. lost' = lost
    BY <1>1, Zenon DEF Queue_enqueue
  <2>2. {node} \ {NULL} = {node}
    BY <1>1
  <2> QED
    BY <1>1, <2>1, <2>2 DEF Queue_enqueue
<1>3. s \in Seq(Nodes) /\ Len(s) \in Nat /\ Elements(s) \subseteq allocated
  BY DEF ChainFits, IsChain, Elements
<1>4. node \notin Elements(s)
  BY <1>1, <1>3
<1>5. IsChain(s, first, next) /\ Contents = IF Queue_empty THEN <<>> ELSE Along(s, data)
  BY ChainIsUnique DEF ChainFits
<1>6. CASE Queue_empty
  <2>1. t = <<node>> /\ Len(t) = 1 /\ t[1] = node /\ t \in Seq(Nodes) /\ t # <<>>
    BY <1>0, <1>1, <1>6
  <2>2. IsChain(t, first', next')
    BY <1>1, <1>2, <1>6, <2>1 DEF IsChain
  <2>3. ~lost => s = <<>> /\ length = 0 /\ allocated = {}
    <3>1. SUFFICES ASSUME ~lost PROVE s = <<>> /\ length = 0 /\ allocated = {}
      OBVIOUS
    <3>2. length = Len(s) /\ (s # <<>> => last # NULL /\ first = s[1] /\ s[1] \in Nodes)
      BY <1>3, <3>1 DEF ChainFits, IsChain
    <3>3. s = <<>>
      BY <1>3, <1>6, <3>2, NullAssumption DEF Queue_empty
    <3> QED
      BY <3>1, <3>2, <3>3 DEF ChainFits, Elements
  <2>4. Elements(t) = {node}
    BY <2>1 DEF Elements
  <2>5. ChainFits(t)'
    BY <1>1, <1>2, <2>1, <2>2, <2>3, <2>4 DEF ChainFits
  <2>6. ~Queue_empty'
    BY <1>1, <1>2, <1>6 DEF Queue_empty
  <2>7. Contents' = Along(t, data')
    BY <2>2, <2>6, NextChainIsUnique
  <2>8. Along(t, data') = <<x>>
    BY <1>1, <1>2, <2>1 DEF Along
  <2> QED
    BY <1>5, <1>6, <2>5, <2>7, <2>8
<1>7. CASE ~Queue_empty
  <2>1. s # <<>> /\ Len(s) \in Nat \ {0} /\ first = s[1] /\ last = s[Len(s)] /\ last \in Nodes
    BY <1>7, ChainOfNonempty
  <2>2. /\ t \in Seq(Nodes) /\ Len(t) = Len(s) + 1 /\ t # <<>> /\ t[Len(s) + 1] = node
        /\ \A i \in 1 .. Len(s) : t[i] = s[i]
        /\ t = Append(s, node)
    BY <1>0, <1>1, <1>3, <1>7
  <2>3. IsChain(t, first', next')
    <3>1. \A i \in 1 .. Len(s) : s[i] \in Nodes /\ s[i] # node /\ (s[i] = last <=> i = Len(s))
      BY <1>3, <1>4, <1>5, <2>1 DEF IsChain, Elements
    <3>2. /\ next'[node] = NULL
          /\ \A i \in 1 .. Len(s) : next'[s[i]] = IF i = Len(s) THEN node ELSE next[s[i]]
      BY <1>1, <1>2, <1>7, <2>1, <3>1
    <3>3. IsChain(Append(s, node), first, next')
      <4>1. node \in Nodes /\ s # <<>> /\ IsChain(s, first, next)
        BY <1>1, <1>5, <2>1
      <4> QED
        BY <4>1, <1>4, <3>2, LongerChain
    <3> QED
      BY <1>2, <1>7, <2>2, <3>3
  <2>4. Elements(t) = Elements(s) \cup {node}
    BY <1>3, <2>2 DEF Elements
  <2>5. \A i \in 1 .. Len(s) : s[i] \in allocated /\ data[s[i]] \in Objects /\ s[i] \in Nodes
    BY <1>3 DEF ChainFits
  <2>6. \A i \in 1 .. Len(t) : t[i] \in allocated' /\ data'[t[i]] \in Objects
    BY <1>1, <1>2, <1>3, <2>2, <2>5
  <2>7. length >= Len(s) /\ (~lost => allocated = Elements(s) /\ length = Len(s))
    BY DEF ChainFits
  <2>8. ChainFits(t)'
    BY <1>1, <1>2, <1>3, <2>2, <2>3, <2>4, <2>6, <2>7 DEF ChainFits
  <2>9. ~Queue_empty'
    BY <1>1, <1>2, <1>7, <2>1, NullAssumption DEF Queue_empty
  <2>10. Contents' = Along(t, data')
    BY <2>3, <2>9, NextChainIsUnique
  <2>11. Along(t, data') = Append(Along(s, data), x)
    <3>1. /\ Along(s, data) \in Seq(Objects) /\ Len(Along(s, data)) = Len(s)
          /\ \A i \in 1 .. Len(s) : Along(s, data)[i] = data[s[i]]
      BY <1>3, <2>5 DEF Along
    <3>2. /\ Along(t, data') \in Seq(Objects) /\ Len(Along(t, data')) = Len(s) + 1
          /\ \A i \in 1 .. Len(s) + 1 : Along(t, data')[i] = data'[t[i]]
      BY <1>3, <2>2, <2>6 DEF Along
    <3>3. data'[node] = x /\ \A i \in 1 .. Len(s) : data'[s[i]] = data[s[i]]
      BY <1>1, <1>2, <2>5
    <3> QED
      BY <1>3, <2>2, <3>1, <3>2, <3>3
  <2> QED
    BY <1>5, <1>7, <2>8, <2>10, <2>11
<1> QED
  BY <1>6, <1>7

\* Queue_enqueue without a node makes the queue look empty.
LEMMA EnqueueOfNullLoses ==
  ASSUME TypeOK, NEW s, ChainFits(s), NEW x, Queue_enqueue(NULL, x)
  PROVE  /\ \E t : ChainFits(t)'
         /\ Contents' = <<>>
<1>1. /\ next \in [Nodes -> Pointer] /\ length \in Nat
      /\ allocated' = allocated /\ data' = data
      /\ last' = NULL /\ length' = length + 1
      /\ Queue_empty => first' = NULL /\ next' = next
      /\ ~Queue_empty => first' = first /\ next' = [next EXCEPT ![last] = NULL]
  <2>1. {NULL} \ {NULL} = {}
    OBVIOUS
  <2> QED
    BY <2>1 DEF Queue_enqueue, TypeOK
<1>2. lost'
  BY Zenon DEF Queue_enqueue
<1>3. s \in Seq(Nodes) /\ Len(s) \in Nat /\ IsChain(s, first, next) /\ length >= Len(s)
  BY DEF ChainFits, IsChain
<1>4. Queue_empty'
  BY <1>1 DEF Queue_empty
<1>5. CASE Queue_empty
  <2>1. PICK t : t = <<>>
    OBVIOUS
  <2>2. t \in Seq(Nodes) /\ Len(t) = 0
    BY <2>1
  <2>3. IsChain(t, first', next')
    BY <1>1, <1>5, <2>1, <2>2 DEF IsChain
  <2>4. ChainFits(t)'
    BY <1>1, <1>2, <2>1, <2>2, <2>3 DEF ChainFits
  <2>5. Contents' = <<>>
    BY <1>4, <2>3, NextChainIsUnique
  <2> QED
    BY <2>4, <2>5
<1>6. CASE ~Queue_empty
  <2>1. last \in Nodes /\ next[last] = NULL
    BY <1>6, ChainOfNonempty
  <2>2. \A n \in Elements(s) : n \in Nodes /\ next'[n] = next[n]
    BY <1>1, <1>3, <1>6, <2>1 DEF Elements
  <2>3. IsChain(s, first', next')
    BY <1>1, <1>3, <1>6, <2>2, SameChain
  <2>4. \A i \in 1 .. Len(s) : s[i] \in allocated /\ data[s[i]] \in Objects
    BY DEF ChainFits
  <2>5. ChainFits(s)'
    BY <1>1, <1>2, <1>3, <2>3, <2>4 DEF ChainFits
  <2>6. Contents' = <<>>
    BY <1>4, <2>3, NextChainIsUnique
  <2> QED
    BY <2>5, <2>6
<1> QED
  BY <1>5, <1>6

\* What both outcomes of Queue_dequeue do to the chain s ...
TakesFirst(s) ==
  /\ ~Queue_empty
  /\ first' = next[first] /\ last' = last
  /\ length' \in Nat /\ length' >= Len(s) - 1
  /\ next' \in {next, [next EXCEPT ![first] = NULL]}
  /\ data' \in {data, [data EXCEPT ![first] = NULL]}

\* ... and what is left of it, t.
FirstTaken(s, t) ==
  /\ s # <<>> /\ s \in Seq(Nodes) /\ Len(s) \in Nat \ {0}
  /\ t \in Seq(Nodes) /\ Len(t) = Len(s) - 1
  /\ \A i \in 1 .. Len(s) - 1 : t[i] = s[i + 1] /\ t[i] \in Nodes \ {first}
  /\ Elements(t) = Elements(s) \ {first}
  /\ t # <<>> => last = t[Len(t)]
  /\ IsChain(t, first', next')
  /\ Contents \in Seq(Objects) /\ Contents # <<>>
  /\ Head(Contents) = data[first] /\ data[first] \in Objects
  /\ Contents' = Tail(Contents)

\* Taking the first node off the chain takes the front off the contents.
LEMMA UnchainTakesFront ==
  ASSUME TypeOK, NEW s, ChainFits(s), NEW t, t = Tail(s), TakesFirst(s)
  PROVE  FirstTaken(s, t)
<1>0. /\ ~Queue_empty
      /\ first' = next[first] /\ last' = last
      /\ length' \in Nat /\ length' >= Len(s) - 1
      /\ next' \in {next, [next EXCEPT ![first] = NULL]}
      /\ data' \in {data, [data EXCEPT ![first] = NULL]}
  BY DEF TakesFirst
<1>1. /\ s # <<>> /\ s \in Seq(Nodes) /\ Len(s) \in Nat \ {0}
      /\ first = s[1] /\ last = s[Len(s)] /\ last \in Nodes
  BY <1>0, ChainOfNonempty
<1>2. /\ IsChain(s, first, next)
      /\ \A i \in 1 .. Len(s) : s[i] \in allocated /\ data[s[i]] \in Objects
  BY DEF ChainFits
<1>3. \A n \in Nodes \ {first} : next'[n] = next[n] /\ data'[n] = data[n]
  BY <1>0 DEF TypeOK
<1>4. /\ t \in Seq(Nodes) /\ Len(t) = Len(s) - 1
      /\ \A i \in 1 .. Len(s) - 1 : t[i] = s[i + 1] /\ s[i + 1] # first
      /\ Elements(t) = Elements(s) \ {first}
      /\ IsChain(t, next[first], next)
  BY <1>1, <1>2, ShorterChain
<1>5. \A i \in 1 .. Len(s) - 1 : t[i] \in Nodes \ {first}
  BY <1>1, <1>4
<1>6. \A n \in Elements(t) : n \in Nodes \ {first}
  BY <1>1, <1>4, <1>5 DEF Elements
<1>7. IsChain(t, first', next')
  BY <1>0, <1>3, <1>4, <1>6, SameChain
<1>8. t # <<>> => last = t[Len(t)]
  BY <1>1, <1>4
<1>9. Contents = Along(s, data) /\ Contents' = IF Queue_empty' THEN <<>> ELSE Along(t, data')
  BY <1>0, <1>2, <1>7, ChainIsUnique, NextChainIsUnique
<1>10. /\ Contents \in Seq(Objects) /\ Len(Contents) = Len(s)
       /\ \A i \in 1 .. Len(s) : Contents[i] = data[s[i]]
  BY <1>1, <1>2, <1>9 DEF Along
<1>11. Contents # <<>> /\ Head(Contents) = data[first] /\ data[first] \in Objects
  BY <1>1, <1>2, <1>10
<1>12. Contents' = Tail(Contents)
  <2>1. CASE t = <<>>
    <3>1. Len(t) = 0
      BY <2>1, EmptySeq
    <3>. Len(s) = 1
      BY <1>1, <1>4, <3>1
    <3>2. first' = NULL
      BY <1>7, <2>1 DEF IsChain
    <3>3. Contents' = <<>>
      BY <1>9, <3>2 DEF Queue_empty
    <3>4. Tail(Contents) \in Seq(Objects) /\ Len(Tail(Contents)) = 0
      BY <1>10, <1>11, <3>1
    <3>5. Tail(Contents) = <<>>
      BY <3>4, EmptySeq
    <3> QED
      BY <3>3, <3>5
  <2>2. CASE t # <<>>
    <3>1. Len(t) > 0
      BY <1>4, <2>2
    <3>2. first' = t[1] /\ t[1] \in Nodes /\ length' # 0
      BY <1>0, <1>1, <1>4, <1>7, <2>2, <3>1 DEF IsChain
    <3>3. ~Queue_empty'
      BY <1>0, <1>1, <3>2, NullAssumption DEF Queue_empty
    <3>4. /\ Len(Along(t, data')) = Len(s) - 1
          /\ \A i \in 1 .. Len(s) - 1 : Along(t, data')[i] = data[s[i + 1]]
      BY <1>1, <1>3, <1>4, <1>5 DEF Along
    <3>5. Along(t, data') \in Seq(Objects)
      BY <1>1, <1>2, <1>3, <1>4, <1>5 DEF Along
    <3>6. /\ Tail(Contents) \in Seq(Objects) /\ Len(Tail(Contents)) = Len(s) - 1
          /\ \A i \in 1 .. Len(s) - 1 : Tail(Contents)[i] = data[s[i + 1]]
      BY <1>1, <1>10, <1>11
    <3>7. Along(t, data') = Tail(Contents)
      BY <3>4, <3>5, <3>6, SeqEqual
    <3> QED
      BY <1>9, <3>3, <3>7
  <2> QED
    BY <2>1, <2>2
<1> QED
  BY <1>1, <1>4, <1>5, <1>7, <1>8, <1>10, <1>11, <1>12 DEF FirstTaken

\* Queue_dequeue returns the front of the contents and takes it off.
LEMMA DequeuePops ==
  ASSUME TypeOK, NEW s, ChainFits(s), Queue_dequeue
  PROVE  /\ \E t : ChainFits(t)'
         /\ Contents \in Seq(Objects) /\ Contents # <<>>
         /\ Contents' = Tail(Contents)
         /\ Head(Contents) = data[first] /\ data[first] \in Objects
<1>1. /\ next \in [Nodes -> Pointer] /\ data \in [Nodes -> Objects \cup {NULL}]
      /\ length \in Nat /\ lost' = lost /\ ~Queue_empty
      /\ first' = next[first] /\ last' = last /\ length' = length - 1
      /\ allocated' = allocated \ {first}
      /\ next' = [next EXCEPT ![first] = NULL]
      /\ data' = [data EXCEPT ![first] = NULL]
  BY DEF TypeOK, Queue_dequeue, Unchain
<1>2. length # 0 /\ length >= Len(s) /\ Len(s) \in Nat
  BY <1>1 DEF Queue_empty, ChainFits, IsChain
<1>3. length' \in Nat /\ length' >= Len(s) - 1
  BY <1>1, <1>2
<1>4. \A n \in Nodes \ {first} : next'[n] = next[n] /\ data'[n] = data[n]
  BY <1>1
<1>5. PICK t : t = Tail(s)
  OBVIOUS
<1>6. FirstTaken(s, t)
  <2>1. TakesFirst(s)
    BY <1>1, <1>3 DEF TakesFirst
  <2> QED
    BY <1>5, <2>1, UnchainTakesFront
<1>7. ASSUME NEW i \in 1 .. Len(t)
      PROVE  t[i] \in allocated' /\ data'[t[i]] \in Objects
  <2>1. i + 1 \in 1 .. Len(s) /\ t[i] = s[i + 1] /\ t[i] \in Nodes \ {first}
    BY <1>6, <1>7 DEF FirstTaken
  <2>2. s[i + 1] \in allocated /\ data[s[i + 1]] \in Objects
    BY <2>1 DEF ChainFits
  <2> QED
    BY <1>1, <1>4, <2>1, <2>2
<1>8. ASSUME ~lost
      PROVE  allocated' = Elements(t) /\ length' = Len(t) /\ (t # <<>> => last # NULL)
  <2>1. allocated = Elements(s) /\ length = Len(s)
    BY <1>8 DEF ChainFits
  <2> QED
    BY <1>1, <1>6, <2>1 DEF Queue_empty, FirstTaken
<1>9. ChainFits(t)'
  <2>1. t # <<>> => last' \in {NULL, t[Len(t)]}
    BY <1>1, <1>6 DEF FirstTaken
  <2>2. length' >= Len(t)
    BY <1>3, <1>6 DEF FirstTaken
  <2>3. ~lost' => /\ allocated' = Elements(t) /\ length' = Len(t)
                  /\ (t # <<>> => last' # NULL)
    BY <1>1, <1>8
  <2> QED
    BY <1>6, <1>7, <2>1, <2>2, <2>3 DEF ChainFits, FirstTaken
<1> QED
  BY <1>6, <1>9 DEF FirstTaken

\* Queue_dequeue without memory for the copy loses the front.
LEMMA FailedDequeueLosesFront ==
  ASSUME TypeOK, NEW s, ChainFits(s), Queue_dequeueFails
  PROVE  /\ \E t : ChainFits(t)'
         /\ Contents \in Seq(Objects) /\ Contents # <<>>
         /\ Contents' = Tail(Contents)
<1>1. /\ length \in Nat /\ lost' = TRUE /\ ~Queue_empty
      /\ first' = next[first] /\ last' = last /\ length' = length
      /\ allocated' = allocated /\ next' = next /\ data' = data
  BY DEF TypeOK, Queue_dequeueFails
<1>2. length >= Len(s) /\ Len(s) \in Nat
  BY DEF ChainFits, IsChain
<1>3. length' \in Nat /\ length' >= Len(s) - 1
  BY <1>1, <1>2
<1>4. PICK t : t = Tail(s)
  OBVIOUS
<1>5. FirstTaken(s, t)
  <2>1. TakesFirst(s)
    BY <1>1, <1>3 DEF TakesFirst
  <2> QED
    BY <1>4, <2>1, UnchainTakesFront
<1>6. ASSUME NEW i \in 1 .. Len(t)
      PROVE  t[i] \in allocated' /\ data'[t[i]] \in Objects
  <2>1. i + 1 \in 1 .. Len(s) /\ t[i] = s[i + 1]
    BY <1>5, <1>6 DEF FirstTaken
  <2>2. s[i + 1] \in allocated /\ data[s[i + 1]] \in Objects
    BY <2>1 DEF ChainFits
  <2> QED
    BY <1>1, <2>1, <2>2
<1>7. ChainFits(t)'
  BY <1>1, <1>2, <1>3, <1>5, <1>6 DEF ChainFits, FirstTaken
<1> QED
  BY <1>5, <1>7 DEF FirstTaken

\* Queue_purge leaves no chain, no contents and, if none was lost before, no
\* node.
LEMMA PurgeEmpties ==
  ASSUME TypeOK, NEW s, ChainFits(s), Queue_purge, UNCHANGED lost
  PROVE  /\ \E t : ChainFits(t)'
         /\ Contents' = <<>>
<1>1. IsChain(s, first, next) /\ length \in Nat
  BY DEF ChainFits, TypeOK
<1>2. CASE Queue_empty
  <2>1. UNCHANGED links
    BY <1>2 DEF Queue_purge
  <2>2. ChainFits(s)' /\ Queue_empty'
    BY <1>2, <2>1 DEF ChainFits, links, Queue_empty
  <2>3. Contents' = <<>>
    BY <2>2, NextChainIsUnique DEF ChainFits
  <2> QED
    BY <2>2, <2>3
<1>3. CASE ~Queue_empty
  <2>1. PICK t : t = <<>>
    OBVIOUS
  <2>2. t \in Seq(Nodes) /\ Len(t) = 0 /\ Elements(t) = {}
    BY <2>1 DEF Elements
  <2>3. /\ allocated' = allocated \ Reachable
        /\ first' = NULL /\ last' = NULL /\ length' = 0
    BY <1>3 DEF Queue_purge
  <2>4. Reachable = Elements(s)
    BY <1>1, ChainIsUnique
  <2>5. ~lost => allocated' = {}
    BY <2>3, <2>4 DEF ChainFits
  <2>6. IsChain(t, first', next')
    BY <2>1, <2>2, <2>3 DEF IsChain
  <2>7. ChainFits(t)'
    BY <2>1, <2>2, <2>3, <2>5, <2>6 DEF ChainFits
  <2>8. Contents' = <<>>
    BY <2>3, <2>6, NextChainIsUnique DEF Queue_empty
  <2> QED
    BY <2>7, <2>8
<1> QED
  BY <1>2, <1>3

-----------------------------------------------------------------------------
(* The inductive invariant. *)

\* Whatever chain fits after a step is the chain of the queue.
LEMMA NextChainFits ==
  ASSUME NEW t, ChainFits(t)'
  PROVE  ChainFits(Chain)'
<1>1. Chain' = t
  BY NextChainIsUnique DEF ChainFits
<1> QED
  BY <1>1 DEF ChainFits

LEMMA InitFits == Init => QueueInvariant
<1> SUFFICES ASSUME Init PROVE QueueInvariant
  OBVIOUS
<1>1. TypeOK
  <2>1. lost \in BOOLEAN /\ freed \in BOOLEAN
    BY DEF Init
  <2>2. pushes \in 0 .. MaxPushes /\ popped \in Seq(Objects) /\ length \in Nat
    BY BoundAssumption DEF Init
  <2> QED
    BY <2>1, <2>2 DEF Init, TypeOK, Pointer
<1>2. PICK t : t = <<>>
  OBVIOUS
<1>3. t \in Seq(Nodes) /\ Len(t) = 0 /\ Elements(t) = {}
  BY <1>2 DEF Elements
<1>4. IsChain(t, first, next)
  BY <1>2, <1>3 DEF Init, IsChain
<1>5. ChainFits(t)
  BY <1>2, <1>3, <1>4 DEF Init, ChainFits
<1>6. Chain = t
  BY <1>4, ChainIsUnique
<1> QED
  BY <1>1, <1>5, <1>6 DEF QueueInvariant

\* What the threads of cqueue.c do to the queue: each step leaves it alone, or
\* pushes, pops, loses objects or frees it.
LEMMA PushEffect ==
  ASSUME QueueInvariant, NEW p \in Producers, CQueue_push(p)
  PROVE  /\ \E t : ChainFits(t)'
         /\ \/ \E x \in Objects : Contents' = Append(Contents, x)
            \/ AllocMayFail /\ Contents' = <<>>
<1>1. TypeOK /\ ChainFits(Chain)
  BY DEF QueueInvariant
<1>2. PICK s : s = Chain
  OBVIOUS
<1>3. ChainFits(s)
  BY <1>1, <1>2
<1>4. PICK x \in Objects : \/ \E node \in Nodes \ allocated : Queue_enqueue(node, x)
                           \/ AllocMayFail /\ Queue_enqueue(NULL, x)
  BY DEF CQueue_push
<1>5. CASE \E node \in Nodes \ allocated : Queue_enqueue(node, x)
  BY <1>1, <1>3, <1>5, EnqueueAppends
<1>6. CASE AllocMayFail /\ Queue_enqueue(NULL, x)
  BY <1>1, <1>3, <1>6, EnqueueOfNullLoses
<1> QED
  BY <1>4, <1>5, <1>6

LEMMA PopEffect ==
  ASSUME QueueInvariant, Queue_dequeue
  PROVE  /\ \E t : ChainFits(t)'
         /\ Contents \in Seq(Objects) /\ Contents # <<>>
         /\ Contents' = Tail(Contents)
         /\ popped' = Append(popped, Head(Contents))
         /\ Head(Contents) \in Objects
<1>1. TypeOK /\ ChainFits(Chain)
  BY DEF QueueInvariant
<1>2. PICK s : s = Chain
  OBVIOUS
<1>3. ChainFits(s)
  BY <1>1, <1>2
<1>4. popped' = Append(popped, data[first])
  BY DEF Queue_dequeue
<1> QED
  BY <1>1, <1>3, <1>4, DequeuePops

LEMMA LossEffect ==
  ASSUME QueueInvariant, Queue_dequeueFails
  PROVE  /\ \E t : ChainFits(t)'
         /\ AllocMayFail
         /\ Contents \in Seq(Objects) /\ Contents # <<>>
         /\ Contents' = Tail(Contents)
         /\ popped' = popped
<1>1. TypeOK /\ ChainFits(Chain)
  BY DEF QueueInvariant
<1>2. PICK s : s = Chain
  OBVIOUS
<1>3. ChainFits(s)
  BY <1>1, <1>2
<1>4. AllocMayFail /\ popped' = popped
  BY DEF Queue_dequeueFails
<1> QED
  BY <1>1, <1>3, <1>4, FailedDequeueLosesFront

LEMMA FreeEffect ==
  ASSUME QueueInvariant, CQueue_free
  PROVE  (\E t : ChainFits(t)') /\ Contents' = <<>>
<1>1. TypeOK /\ ChainFits(Chain)
  BY DEF QueueInvariant
<1>2. PICK s : s = Chain
  OBVIOUS
<1>3. ChainFits(s)
  BY <1>1, <1>2
<1>4. Queue_purge /\ UNCHANGED lost
  BY DEF CQueue_free
<1> QED
  BY <1>1, <1>3, <1>4, PurgeEmpties

LEMMA NoEffect ==
  ASSUME QueueInvariant, UNCHANGED <<links, lost>>
  PROVE  (\E t : ChainFits(t)') /\ Contents' = Contents
<1>1. PICK s : s = Chain
  OBVIOUS
<1>2. ChainFits(s)
  BY <1>1 DEF QueueInvariant
<1>3. ChainFits(s)'
  BY <1>2 DEF ChainFits, links
<1>4. /\ Contents = IF Queue_empty THEN <<>> ELSE Along(s, data)
      /\ Contents' = IF Queue_empty' THEN <<>> ELSE Along(s, data')
  BY <1>2, <1>3, ChainIsUnique, NextChainIsUnique DEF ChainFits
<1>5. data' = data /\ (Queue_empty' <=> Queue_empty)
  BY DEF links, Queue_empty
<1> QED
  BY <1>3, <1>4, <1>5

\* The contents are objects.
LEMMA ContentsType == QueueInvariant => Contents \in Seq(Objects)
<1> SUFFICES ASSUME QueueInvariant PROVE Contents \in Seq(Objects)
  OBVIOUS
<1>1. PICK s : s = Chain
  OBVIOUS
<1>2. ChainFits(s)
  BY <1>1 DEF QueueInvariant
<1>3. Contents = IF Queue_empty THEN <<>> ELSE Along(s, data)
  BY <1>2, ChainIsUnique DEF ChainFits
<1>4. Along(s, data) \in Seq(Objects)
  BY <1>2 DEF Along, ChainFits, IsChain
<1> QED
  BY <1>3, <1>4

\* The types, action by action.
LEMMA TypesKept == QueueInvariant /\ [Next]_vars => TypeOK'
<1> SUFFICES ASSUME QueueInvariant, [Next]_vars PROVE TypeOK'
  OBVIOUS
<1>0. TypeOK /\ AfterPush = "signal"
  BY DEF QueueInvariant, AfterPush
<1>1. ASSUME NEW p \in Producers, CQueue_push(p)
      PROVE  TypeOK'
  <2>1. PICK x \in Objects : \/ \E node \in Nodes \ allocated : Queue_enqueue(node, x)
                             \/ AllocMayFail /\ Queue_enqueue(NULL, x)
    BY <1>1 DEF CQueue_push
  <2>2. PICK node \in Pointer : Queue_enqueue(node, x)
    BY <2>1 DEF Pointer
  <2>3. /\ first' \in Pointer /\ last' \in Pointer /\ length' \in Nat
        /\ next' \in [Nodes -> Pointer]
        /\ data' \in [Nodes -> Objects \cup {NULL}]
        /\ allocated' \in SUBSET Nodes
    BY <1>0, <2>2 DEF TypeOK, Queue_enqueue, Pointer
  <2>4. lost' \in BOOLEAN
    BY <2>2, Zenon DEF Queue_enqueue
  <2>5. /\ ppc' \in [Producers -> {"idle", "signal"}]
        /\ pushes' \in 0 .. MaxPushes
        /\ wpc' = wpc /\ popped' = popped /\ freed' = freed
    BY <1>0, <1>1, BoundAssumption DEF TypeOK, CQueue_push
  <2> QED
    BY <1>0, <2>3, <2>4, <2>5 DEF TypeOK
<1>2. ASSUME NEW p \in Producers, CQueue_signal(p)
      PROVE  TypeOK'
  BY <1>0, <1>2 DEF TypeOK, CQueue_signal, links, Waiting
<1>3. ASSUME Queue_dequeue \/ Queue_dequeueFails
      PROVE  /\ first' \in Pointer /\ last' \in Pointer /\ length' \in Nat
             /\ next' \in [Nodes -> Pointer]
             /\ data' \in [Nodes -> Objects \cup {NULL}]
             /\ allocated' \in SUBSET Nodes
             /\ popped' \in Seq(Objects) /\ lost' \in BOOLEAN
  <2>1. first \in Nodes /\ length # 0
    BY <1>0, <1>3 DEF Queue_dequeue, Queue_dequeueFails, Queue_empty, TypeOK, Pointer
  <2>2. CASE Queue_dequeue
    <3>1. popped' \in Seq(Objects)
      <4>1. popped' = Append(popped, Head(Contents)) /\ Head(Contents) \in Objects
        BY <2>2, PopEffect
      <4> QED
        BY <1>0, <4>1 DEF TypeOK
    <3>2. lost' \in BOOLEAN
      BY <1>0, <2>2 DEF TypeOK, Queue_dequeue
    <3>3. first' \in Pointer /\ last' \in Pointer /\ length' \in Nat
      BY <1>0, <2>1, <2>2 DEF TypeOK, Queue_dequeue, Unchain
    <3> QED
      BY <1>0, <2>1, <2>2, <3>1, <3>2, <3>3 DEF TypeOK, Queue_dequeue, Pointer
  <2>3. CASE Queue_dequeueFails
    BY <1>0, <2>1, <2>3 DEF TypeOK, Queue_dequeueFails
  <2> QED
    BY <1>3, <2>2, <2>3
<1>4. ASSUME CQueue_tryPop PROVE TypeOK'
  BY <1>0, <1>3, <1>4 DEF CQueue_tryPop, TypeOK
<1>5. ASSUME NEW w \in Waiters, CQueue_wait(w) \/ SpuriousWakeup(w)
      PROVE  TypeOK'
  BY <1>0, <1>5 DEF TypeOK, CQueue_wait, SpuriousWakeup, links
<1>6. ASSUME NEW w \in Waiters, CQueue_waitAndPop(w)
      PROVE  TypeOK'
  <2>1. wpc' \in [Waiters -> {"idle", "waiting", "woken"}] /\ UNCHANGED <<ppc, pushes, freed>>
    BY <1>0, <1>6 DEF TypeOK, CQueue_waitAndPop
  <2>2. CASE Queue_dequeue \/ Queue_dequeueFails
    BY <1>0, <1>3, <2>1, <2>2 DEF TypeOK
  <2>3. CASE UNCHANGED <<links, popped, lost>>
    BY <1>0, <2>1, <2>3 DEF TypeOK, links
  <2> QED
    BY <1>6, <2>2, <2>3 DEF CQueue_waitAndPop
<1>7. ASSUME CQueue_free PROVE TypeOK'
  <2>1. UNCHANGED <<ppc, wpc, pushes, popped, lost>> /\ freed' = TRUE
    BY <1>7 DEF CQueue_free
  <2>2. CASE Queue_empty
    BY <1>0, <1>7, <2>1, <2>2 DEF TypeOK, CQueue_free, Queue_purge, links
  <2>3. CASE ~Queue_empty
    BY <1>0, <1>7, <2>1, <2>3 DEF TypeOK, CQueue_free, Queue_purge, Pointer
  <2> QED
    BY <2>2, <2>3
<1>8. ASSUME UNCHANGED vars PROVE TypeOK'
  BY <1>0, <1>8 DEF TypeOK, vars, links
<1> QED
  BY <1>1, <1>2, <1>4, <1>5, <1>6, <1>7, <1>8 DEF Next

\* The chain, action by action.
LEMMA ChainKept == QueueInvariant /\ [Next]_vars => ChainFits(Chain)'
<1> SUFFICES ASSUME QueueInvariant, [Next]_vars PROVE \E t : ChainFits(t)'
  BY NextChainFits
<1>1. ASSUME NEW p \in Producers, CQueue_push(p) PROVE \E t : ChainFits(t)'
  BY <1>1, PushEffect
<1>2. ASSUME NEW p \in Producers, CQueue_signal(p) PROVE \E t : ChainFits(t)'
  BY <1>2, NoEffect DEF CQueue_signal
<1>3. ASSUME CQueue_tryPop PROVE \E t : ChainFits(t)'
  BY <1>3, PopEffect, LossEffect DEF CQueue_tryPop
<1>4. ASSUME NEW w \in Waiters, CQueue_wait(w) \/ SpuriousWakeup(w)
      PROVE  \E t : ChainFits(t)'
  BY <1>4, NoEffect DEF CQueue_wait, SpuriousWakeup
<1>5. ASSUME NEW w \in Waiters, CQueue_waitAndPop(w) PROVE \E t : ChainFits(t)'
  BY <1>5, PopEffect, LossEffect, NoEffect DEF CQueue_waitAndPop
<1>6. ASSUME CQueue_free PROVE \E t : ChainFits(t)'
  BY <1>6, FreeEffect
<1>7. ASSUME UNCHANGED vars PROVE \E t : ChainFits(t)'
  BY <1>7, NoEffect DEF vars
<1> QED
  BY <1>1, <1>2, <1>3, <1>4, <1>5, <1>6, <1>7 DEF Next

\* For any nodes, objects and threads, and whether or not memory runs out: the
\* chain of nodes that queue.c builds fits the fields of Queue.
THEOREM QueueInvariantHolds == Spec => []QueueInvariant
<1>1. QueueInvariant /\ [Next]_vars => QueueInvariant'
  BY TypesKept, ChainKept DEF QueueInvariant
<1> QED
  BY <1>1, InitFits, PTL DEF Spec

-----------------------------------------------------------------------------
(* The chain. *)

\* As long as memory suffices, Queue_dequeue and Queue_purge free exactly the
\* nodes that leave the chain, and length counts those that are in it.
THEOREM NodesAreOwned == Spec => []ChainOwnsNodes
<1>1. QueueInvariant => ChainOwnsNodes
  <2> SUFFICES ASSUME QueueInvariant PROVE ChainOwnsNodes
    OBVIOUS
  <2>1. PICK s : s = Chain
    OBVIOUS
  <2>2. ChainFits(s)
    BY <2>1 DEF QueueInvariant
  <2>3. Reachable = Elements(s) /\ Cardinality(Reachable) = Len(s)
    BY <2>2, ChainIsUnique DEF ChainFits
  <2> QED
    BY <2>2, <2>3 DEF ChainOwnsNodes, ChainFits
<1> QED
  BY <1>1, QueueInvariantHolds, PTL

\* Even when memory has run out, a queue that does not look empty leads only to
\* allocated nodes, and last is one of them.
THEOREM NothingFreedIsUsed == Spec => []ChainIsSound
<1>1. QueueInvariant => ChainIsSound
  <2> SUFFICES ASSUME QueueInvariant, ~Queue_empty
               PROVE  Reachable \subseteq allocated /\ last \in Reachable
    BY DEF ChainIsSound
  <2>1. PICK s : s = Chain
    OBVIOUS
  <2>2. ChainFits(s) /\ TypeOK
    BY <2>1 DEF QueueInvariant
  <2>3. Reachable = Elements(s)
    BY <2>2, ChainIsUnique DEF ChainFits
  <2>4. last = s[Len(s)] /\ Len(s) \in Nat \ {0}
    BY <2>2, ChainOfNonempty
  <2>5. \A i \in 1 .. Len(s) : s[i] \in allocated
    BY <2>2 DEF ChainFits
  <2> QED
    BY <2>3, <2>4, <2>5 DEF Elements
<1> QED
  BY <1>1, QueueInvariantHolds, PTL

-----------------------------------------------------------------------------
(* The refinement. *)

\* The first step of queue.c maps to that of the abstract queue, and every step
\* of every thread to a push, a pop, a loss, the end or a stutter: the linked
\* queue with its dangling last pointer is a FIFO queue, whatever the order of
\* the threads.
THEOREM Refinement == Spec => ImplementsFIFO
<1>1. Init => Abstract!Init
  <2> SUFFICES ASSUME Init PROVE Abstract!Init
    OBVIOUS
  <2>1. Queue_empty
    BY DEF Init, Queue_empty
  <2>2. Contents = <<>>
    BY <2>1 DEF Contents
  <2> QED
    BY <2>2 DEF Init, Abstract!Init
<1>2. QueueInvariant /\ [Next]_vars => [Abstract!Next]_(Abstract!vars)
  <2> SUFFICES ASSUME QueueInvariant, [Next]_vars
               PROVE  Abstract!Next \/ UNCHANGED Abstract!vars
    OBVIOUS
  <2>0. Contents \in Seq(Objects) /\ Len(Contents) \in Nat
    BY ContentsType
  <2>1. ASSUME NEW p \in Producers, CQueue_push(p)
        PROVE  Abstract!Next \/ UNCHANGED Abstract!vars
    <3>1. ~freed /\ popped' = popped /\ freed' = freed
      BY <2>1 DEF CQueue_push
    <3>2. CASE \E x \in Objects : Contents' = Append(Contents, x)
      BY <3>1, <3>2 DEF Abstract!Next, Abstract!Push
    <3>3. CASE AllocMayFail /\ Contents' = <<>> /\ Contents = <<>>
      BY <3>1, <3>3 DEF Abstract!vars
    <3>4. CASE AllocMayFail /\ Contents' = <<>> /\ Contents # <<>>
      <4>1. Len(Contents) \in 1 .. Len(Contents)
        BY <2>0, <3>4
      <4>2. SubSeq(Contents, Len(Contents) + 1, Len(Contents)) = <<>>
        BY <2>0, SubSeqEmpty
      <4> QED
        BY <3>1, <3>4, <4>1, <4>2 DEF Abstract!Next, Abstract!Lose
    <3> QED
      BY <2>1, <3>2, <3>3, <3>4, PushEffect
  <2>2. ASSUME UNCHANGED <<links, popped, lost, freed>>
        PROVE  UNCHANGED Abstract!vars
    BY <2>2, NoEffect DEF Abstract!vars
  <2>3. ASSUME Queue_dequeue, ~freed, UNCHANGED freed
        PROVE  Abstract!Next
    BY <2>3, PopEffect DEF Abstract!Next, Abstract!Pop
  <2>4. ASSUME Queue_dequeueFails, ~freed, UNCHANGED freed
        PROVE  Abstract!Next
    <3>1. /\ AllocMayFail /\ Contents # <<>>
          /\ Contents' = Tail(Contents) /\ popped' = popped
      BY <2>4, LossEffect
    <3>2. Tail(Contents) = SubSeq(Contents, 1 + 1, Len(Contents)) /\ 1 \in 1 .. Len(Contents)
      BY <2>0, <3>1, TailIsSubSeq
    <3> QED
      BY <2>4, <3>1, <3>2 DEF Abstract!Next, Abstract!Lose
  <2>5. ASSUME NEW p \in Producers, CQueue_signal(p) PROVE UNCHANGED Abstract!vars
    BY <2>2, <2>5 DEF CQueue_signal
  <2>6. ASSUME CQueue_tryPop PROVE Abstract!Next
    BY <2>3, <2>4, <2>6 DEF CQueue_tryPop
  <2>7. ASSUME NEW w \in Waiters, CQueue_wait(w) \/ SpuriousWakeup(w)
        PROVE  UNCHANGED Abstract!vars
    BY <2>2, <2>7 DEF CQueue_wait, SpuriousWakeup
  <2>8. ASSUME NEW w \in Waiters, CQueue_waitAndPop(w)
        PROVE  Abstract!Next \/ UNCHANGED Abstract!vars
    BY <2>2, <2>3, <2>4, <2>8 DEF CQueue_waitAndPop
  <2>9. ASSUME CQueue_free PROVE Abstract!Next
    BY <2>9, FreeEffect DEF CQueue_free, Abstract!Next, Abstract!Free
  <2>10. ASSUME UNCHANGED vars PROVE UNCHANGED Abstract!vars
    BY <2>2, <2>10 DEF vars
  <2> QED
    BY <2>1, <2>5, <2>6, <2>7, <2>8, <2>9, <2>10 DEF Next
<1> QED
  BY <1>1, <1>2, QueueInvariantHolds, PTL DEF Spec, ImplementsFIFO, Abstract!Spec

-----------------------------------------------------------------------------
(* The waiters. *)

Signalling == {p \in Producers : ppc[p] = "signal"}
Woken == {w \in Waiters : wpc[w] = "woken"}

\* As many signals or woken waiters as there are objects.
Enough == Len(Contents) <= Cardinality(Signalling) + Cardinality(Woken)

LEMMA NoLostWakeupIsEnough == NoLostWakeup <=> (Waiting # {} => Enough)
  BY DEF NoLostWakeup, Enough, Signalling, Woken

LEMMA CountsAreNumbers ==
  /\ IsFiniteSet(Signalling) /\ Cardinality(Signalling) \in Nat
  /\ IsFiniteSet(Woken) /\ Cardinality(Woken) \in Nat
  /\ IsFiniteSet(Signalling') /\ Cardinality(Signalling') \in Nat
  /\ IsFiniteSet(Woken') /\ Cardinality(Woken') \in Nat
<1>1. /\ Signalling \in SUBSET Producers /\ Signalling' \in SUBSET Producers
      /\ Woken \in SUBSET Waiters /\ Woken' \in SUBSET Waiters
  BY DEF Signalling, Woken
<1>2. /\ IsFiniteSet(Signalling) /\ IsFiniteSet(Signalling')
      /\ IsFiniteSet(Woken) /\ IsFiniteSet(Woken')
  BY <1>1, FS_Subset, FiniteAssumption
<1> QED
  BY <1>2, FS_CardinalityType

\* An object pushed comes with a signal.
LEMMA PushKeepsEnough ==
  ASSUME QueueInvariant, NEW p \in Producers, CQueue_push(p), Waiting # {} => Enough
  PROVE  Waiting' # {} => Enough'
<1>1. /\ ppc \in [Producers -> {"idle", "signal"}] /\ ppc[p] = "idle"
      /\ ppc' = [ppc EXCEPT ![p] = "signal"] /\ wpc' = wpc
  BY DEF QueueInvariant, TypeOK, CQueue_push, AfterPush
<1>2. Waiting' = Waiting /\ Woken' = Woken
  BY <1>1 DEF Waiting, Woken
<1>3. Signalling' = Signalling \cup {p} /\ p \notin Signalling
  BY <1>1 DEF Signalling
<1>4. Cardinality(Signalling') = Cardinality(Signalling) + 1
  BY <1>3, CountsAreNumbers, FS_AddElement
<1>5. Contents \in Seq(Objects) /\ Len(Contents) \in Nat
  BY ContentsType
<1>6. Len(Contents') = Len(Contents) + 1 \/ Len(Contents') = 0
  <2>1. CASE \E x \in Objects : Contents' = Append(Contents, x)
    BY <1>5, <2>1
  <2>2. CASE Contents' = <<>>
    BY <2>2
  <2> QED
    BY <2>1, <2>2, PushEffect
<1> QED
  BY <1>2, <1>4, <1>5, <1>6, CountsAreNumbers DEF Enough

\* A signal wakes a waiter, if there is one.
LEMMA SignalKeepsEnough ==
  ASSUME QueueInvariant, NEW p \in Producers, CQueue_signal(p), Waiting # {} => Enough
  PROVE  Waiting' # {} => Enough'
<1>1. /\ ppc \in [Producers -> {"idle", "signal"}] /\ ppc[p] = "signal"
      /\ wpc \in [Waiters -> {"idle", "waiting", "woken"}]
      /\ ppc' = [ppc EXCEPT ![p] = "idle"] /\ UNCHANGED <<links, lost>>
  BY DEF QueueInvariant, TypeOK, CQueue_signal
<1>2. Contents' = Contents /\ Len(Contents) \in Nat
  BY <1>1, NoEffect, ContentsType
<1>3. CASE Waiting = {}
  <2>1. wpc' = wpc
    BY <1>3 DEF CQueue_signal
  <2> QED
    BY <1>3, <2>1 DEF Waiting
<1>4. CASE Waiting # {}
  <2>1. PICK w \in Waiting : wpc' = [wpc EXCEPT ![w] = "woken"]
    BY <1>4 DEF CQueue_signal
  <2>2. Woken' = Woken \cup {w} /\ w \notin Woken
    BY <1>1, <2>1 DEF Woken, Waiting
  <2>3. Signalling' = Signalling \ {p} /\ p \in Signalling
    BY <1>1 DEF Signalling
  <2>4. Cardinality(Woken') = Cardinality(Woken) + 1
    BY <2>2, CountsAreNumbers, FS_AddElement
  <2>5. Cardinality(Signalling') = Cardinality(Signalling) - 1
    BY <2>3, CountsAreNumbers, FS_RemoveElement
  <2> QED
    BY <1>2, <1>4, <2>4, <2>5, CountsAreNumbers DEF Enough
<1> QED
  BY <1>3, <1>4

\* Whoever takes an object may have been woken for it.
LEMMA WaitAndPopKeepsEnough ==
  ASSUME QueueInvariant, NEW w \in Waiters, CQueue_waitAndPop(w), Waiting # {} => Enough
  PROVE  Waiting' # {} => Enough'
<1>1. /\ wpc \in [Waiters -> {"idle", "waiting", "woken"}] /\ ppc' = ppc
      /\ wpc[w] \in {"idle", "woken"} /\ wpc' = [wpc EXCEPT ![w] = "idle"]
  BY DEF QueueInvariant, TypeOK, CQueue_waitAndPop
<1>2. Waiting' = Waiting /\ Signalling' = Signalling /\ Woken' = Woken \ {w}
  BY <1>1 DEF Waiting, Signalling, Woken
<1>3. Cardinality(Woken') >= Cardinality(Woken) - 1
  BY <1>2, CountsAreNumbers, FS_RemoveElement
<1>4. Contents \in Seq(Objects) /\ Len(Contents) \in Nat
  BY ContentsType
<1>5. \/ Contents # <<>> /\ Len(Contents') = Len(Contents) - 1
      \/ Len(Contents') = 0
  <2>1. CASE Queue_dequeue \/ Queue_dequeueFails
    <3>1. Contents # <<>> /\ Contents' = Tail(Contents)
      BY <2>1, PopEffect, LossEffect
    <3> QED
      BY <1>4, <3>1
  <2>2. CASE Queue_empty /\ UNCHANGED <<links, popped, lost>>
    <3>1. Contents' = Contents /\ Contents = <<>>
      BY <2>2, NoEffect DEF Contents
    <3> QED
      BY <3>1
  <2> QED
    BY <2>1, <2>2 DEF CQueue_waitAndPop
<1> QED
  BY <1>2, <1>3, <1>4, <1>5, CountsAreNumbers DEF Enough

LEMMA EnoughKept ==
  ASSUME QueueInvariant, [Next]_vars, Waiting # {} => Enough
  PROVE  Waiting' # {} => Enough'
<1>0. Contents \in Seq(Objects) /\ Len(Contents) \in Nat
  BY ContentsType
<1>1. ASSUME CQueue_tryPop PROVE Waiting' # {} => Enough'
  <2>1. Contents # <<>> /\ Contents' = Tail(Contents)
    BY <1>1, PopEffect, LossEffect DEF CQueue_tryPop
  <2>2. Len(Contents') = Len(Contents) - 1
    BY <1>0, <2>1
  <2>3. Waiting' = Waiting /\ Signalling' = Signalling /\ Woken' = Woken
    BY <1>1 DEF CQueue_tryPop, Waiting, Signalling, Woken
  <2> QED
    BY <1>0, <2>2, <2>3, CountsAreNumbers DEF Enough
<1>2. ASSUME NEW w \in Waiters, CQueue_wait(w) PROVE Enough'
  <2>1. Queue_empty /\ UNCHANGED <<links, lost>>
    BY <1>2 DEF CQueue_wait
  <2>2. Contents' = <<>>
    BY <2>1, NoEffect DEF Contents
  <2> QED
    BY <2>2, CountsAreNumbers DEF Enough
<1>3. ASSUME NEW w \in Waiters, SpuriousWakeup(w) PROVE Waiting' # {} => Enough'
  <2>1. /\ wpc \in [Waiters -> {"idle", "waiting", "woken"}] /\ wpc[w] = "waiting"
        /\ wpc' = [wpc EXCEPT ![w] = "woken"] /\ ppc' = ppc /\ UNCHANGED <<links, lost>>
    BY <1>3 DEF QueueInvariant, TypeOK, SpuriousWakeup
  <2>2. Contents' = Contents
    BY <2>1, NoEffect
  <2>3. Signalling' = Signalling /\ Woken' = Woken \cup {w} /\ w \in Waiting
    BY <2>1 DEF Signalling, Woken, Waiting
  <2>4. Cardinality(Woken') >= Cardinality(Woken)
    BY <2>3, CountsAreNumbers, FS_AddElement
  <2> QED
    BY <1>0, <2>2, <2>3, <2>4, CountsAreNumbers DEF Enough
<1>4. ASSUME CQueue_free PROVE Enough'
  <2>1. Contents' = <<>>
    BY <1>4, FreeEffect
  <2> QED
    BY <2>1, CountsAreNumbers DEF Enough
<1>5. ASSUME UNCHANGED vars PROVE Waiting' # {} => Enough'
  <2>1. Contents' = Contents
    BY <1>5, NoEffect DEF vars
  <2> QED
    BY <1>5, <2>1 DEF vars, Waiting, Enough, Signalling, Woken
<1> QED
  BY <1>1, <1>2, <1>3, <1>4, <1>5, PushKeepsEnough, SignalKeepsEnough,
     WaitAndPopKeepsEnough DEF Next

\* Any number of producers and waiters: while somebody waits on the condition,
\* every object in the queue has a signal to come or a woken waiter, although
\* CQueue_push signals after it has unlocked.
THEOREM NoWaiterIsForgotten == Spec => []NoLostWakeup
<1>1. Init => (Waiting # {} => Enough)
  BY DEF Init, Waiting
<1>2. QueueInvariant /\ (Waiting # {} => Enough) /\ [Next]_vars
        => (Waiting # {} => Enough)'
  BY EnoughKept
<1> QED
  BY <1>1, <1>2, NoLostWakeupIsEnough, QueueInvariantHolds, PTL DEF Spec

\* The type invariant of the queue and its threads.
THEOREM QueueTypesHold == Spec => []TypeOK
<1>1. QueueInvariant => TypeOK
  BY DEF QueueInvariant
<1> QED
  BY <1>1, QueueInvariantHolds, PTL
=============================================================================
