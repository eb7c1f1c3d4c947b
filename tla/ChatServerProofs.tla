-------------------------- MODULE ChatServerProofs --------------------------
(* Theorems about ChatServer for every value of its constants. *)
EXTENDS ChatServer, SequenceTheorems, TLAPS

-----------------------------------------------------------------------------
(* The list of src/lib/list/list.c. *)

\* Position finds the node it is asked for.
LEMMA PositionIsIndex ==
  ASSUME NEW S, NEW s \in Seq(S), NEW c \in ToSet(s)
  PROVE  /\ Position(s, c) \in 1 .. Len(s)
         /\ s[Position(s, c)] = c
<1>1. \E i \in DOMAIN s : s[i] = c
  BY DEF ToSet
<1> QED
  BY <1>1 DEF Position

\* The node after a node of the list is another one, or Null.
LEMMA SuccessorType ==
  ASSUME NEW S, NEW s \in Seq(S), NEW c \in ToSet(s)
  PROVE  Successor(s, c) \in S \cup {Null}
<1>1. Position(s, c) \in 1 .. Len(s)
  BY PositionIsIndex
<1> QED
  BY <1>1 DEF Successor

\* List_append: the list is one longer and still has no node twice.
LEMMA AppendNode ==
  ASSUME NEW S, NEW s \in Seq(S), NEW c \in S, IsInjective(s), c \notin ToSet(s)
  PROVE  /\ Append(s, c) \in Seq(S)
         /\ Len(Append(s, c)) = Len(s) + 1
         /\ IsInjective(Append(s, c))
         /\ ToSet(Append(s, c)) = ToSet(s) \cup {c}
<1> DEFINE t == Append(s, c)
<1>1. /\ t \in Seq(S)
      /\ Len(t) = Len(s) + 1
      /\ \A i \in 1 .. Len(s) : t[i] = s[i]
      /\ t[Len(s) + 1] = c
      /\ DOMAIN t = 1 .. (Len(s) + 1)
      /\ DOMAIN s = 1 .. Len(s)
  BY AppendProperties
<1>2. \A i \in 1 .. Len(s) : s[i] # c
  BY <1>1 DEF ToSet
<1>3. IsInjective(t)
  BY <1>1, <1>2 DEF IsInjective
<1>4. ToSet(t) = ToSet(s) \cup {c}
  BY <1>1 DEF ToSet
<1> QED
  BY <1>1, <1>3, <1>4

\* List_delete: exactly one node goes, and the others keep their order.
LEMMA DeleteNode ==
  ASSUME NEW S, NEW s \in Seq(S), NEW c \in ToSet(s), IsInjective(s)
  PROVE  /\ ItemsAfterDelete(s, c) \in Seq(S)
         /\ Len(ItemsAfterDelete(s, c)) = Len(s) - 1
         /\ IsInjective(ItemsAfterDelete(s, c))
         /\ ToSet(ItemsAfterDelete(s, c)) = ToSet(s) \ {c}
<1> DEFINE p == Position(s, c)
           l == SubSeq(s, 1, p - 1)
           r == SubSeq(s, p + 1, Len(s))
           t == l \o r
<1>1. p \in 1 .. Len(s) /\ s[p] = c /\ Len(s) \in Nat
  BY PositionIsIndex
<1>2. /\ l \in Seq(S) /\ Len(l) = p - 1
      /\ \A i \in 1 .. (p - 1) : l[i] = s[i]
  BY <1>1, SubSeqProperties
<1>3. /\ r \in Seq(S) /\ Len(r) = Len(s) - p
      /\ \A i \in 1 .. (Len(s) - p) : r[i] = s[p + i]
  BY <1>1, SubSeqProperties
<1>4. t = ItemsAfterDelete(s, c)
  BY DEF ItemsAfterDelete, RemoveAt
<1> HIDE DEF p, l, r
<1>5. /\ t \in Seq(S) /\ Len(t) = Len(s) - 1
      /\ \A i \in 1 .. (p - 1) : t[i] = s[i]
      /\ \A i \in p .. (Len(s) - 1) : t[i] = s[i + 1]
  <2>1. /\ t \in Seq(S)
        /\ Len(t) = Len(l) + Len(r)
        /\ \A i \in 1 .. (Len(l) + Len(r)) :
             t[i] = IF i <= Len(l) THEN l[i] ELSE r[i - Len(l)]
    BY <1>2, <1>3, ConcatProperties
  <2> HIDE DEF t
  <2>2. Len(t) = Len(s) - 1
    BY <2>1, <1>1, <1>2, <1>3
  <2>3. ASSUME NEW i \in 1 .. (p - 1) PROVE t[i] = s[i]
    <3>1. i \in 1 .. (Len(l) + Len(r)) /\ i <= Len(l)
      BY <1>1, <1>2, <1>3
    <3>2. t[i] = l[i]
      BY <3>1, <2>1
    <3> QED
      BY <3>2, <1>2
  <2>4. ASSUME NEW i \in p .. (Len(s) - 1) PROVE t[i] = s[i + 1]
    <3>1. i \in 1 .. (Len(l) + Len(r)) /\ ~(i <= Len(l))
      BY <1>1, <1>2, <1>3
    <3>2. t[i] = r[i - Len(l)]
      BY <3>1, <2>1
    <3>3. i - Len(l) \in 1 .. (Len(s) - p) /\ p + (i - Len(l)) = i + 1
      BY <1>1, <1>2
    <3> QED
      BY <3>2, <3>3, <1>3
  <2> QED
    BY <2>1, <2>2, <2>3, <2>4
<1> HIDE DEF t
<1>6. DOMAIN t = 1 .. (Len(s) - 1) /\ DOMAIN s = 1 .. Len(s)
  BY <1>5, <1>1
\* Where the node at position i of the new list was in the old one.
<1> DEFINE old(i) == IF i < p THEN i ELSE i + 1
<1>a. ASSUME NEW i \in 1 .. (Len(s) - 1)
      PROVE  old(i) \in 1 .. Len(s) /\ old(i) # p /\ t[i] = s[old(i)]
  BY <1>a, <1>1, <1>5
<1>7. ASSUME NEW i \in DOMAIN t, NEW j \in DOMAIN t, t[i] = t[j]
      PROVE  i = j
  <2>1. s[old(i)] = s[old(j)] /\ old(i) \in 1 .. Len(s) /\ old(j) \in 1 .. Len(s)
    BY <1>7, <1>6, <1>a
  <2>2. old(i) = old(j)
    BY <2>1, <1>6 DEF IsInjective
  <2> QED
    BY <2>2, <1>6, <1>1
<1>8. ASSUME NEW i \in DOMAIN t PROVE t[i] \in ToSet(s) \ {c}
  <2>1. old(i) \in DOMAIN s /\ old(i) # p /\ t[i] = s[old(i)]
    BY <1>6, <1>a
  <2>2. s[old(i)] # c
    BY <2>1, <1>1, <1>6 DEF IsInjective
  <2> QED
    BY <2>1, <2>2 DEF ToSet
<1>9. ASSUME NEW d \in ToSet(s) \ {c} PROVE d \in ToSet(t)
  <2>1. PICK i \in 1 .. Len(s) : s[i] = d
    BY <1>6 DEF ToSet
  <2>2. CASE i < p
    BY <2>1, <2>2, <1>1, <1>5, <1>6 DEF ToSet
  <2>3. CASE i > p
    <3>1. i - 1 \in DOMAIN t /\ t[i - 1] = s[i]
      BY <2>1, <2>3, <1>1, <1>5, <1>6
    <3> QED
      BY <3>1, <2>1 DEF ToSet
  <2> QED
    BY <2>1, <2>2, <2>3, <1>1
<1>10. IsInjective(t) /\ ToSet(t) = ToSet(s) \ {c}
  BY <1>7, <1>8, <1>9 DEF IsInjective, ToSet
<1> QED
  BY <1>4, <1>5, <1>10

-----------------------------------------------------------------------------
(* The memory behind the pointers. *)

\* Where the calls of Server_dropClient return to.
LEMMA AfterIs ==
  /\ DOMAIN After = {"mismatch", "dropWelcome", "dropAuth", "dropHello", "dropEnd"}
  /\ After["mismatch"] = "welcome"
  /\ After["dropWelcome"] = "auth"
  /\ After["dropAuth"] = "hello"
  /\ After["dropHello"] = "announce"
  /\ After["dropEnd"] = "exited"
BY DEF After

\* A pointer leads to a structure that is allocated in the block it points at,
\* or to nothing.
LEMMA ViewType ==
  ASSUME TypeOK, NEW c \in Clients
  PROVE  /\ View(c) \in Clients \cup {Null}
         /\ Held(c) => View(c) = c
         /\ View(c) # Null => /\ View(c) \in Clients
                              /\ Held(View(c))
                              /\ addr[View(c)] = addr[c]
         /\ View(c) = Null => \A d \in Clients : Held(d) => addr[d] # addr[c]
<1> DEFINE P(d) == Held(d) /\ addr[d] = addr[c]
<1>1. CASE Held(c)
  BY <1>1, NullAssumption DEF View
<1>2. CASE ~Held(c) /\ \E d \in Clients : P(d)
  <2>1. View(c) = CHOOSE d \in Clients : P(d)
    BY <1>2 DEF View
  <2>2. View(c) \in Clients /\ P(View(c))
    BY <1>2, <2>1
  <2> QED
    BY <1>2, <2>2, NullAssumption
<1>3. CASE ~Held(c) /\ ~\E d \in Clients : P(d)
  BY <1>3 DEF View
<1> QED
  BY <1>1, <1>2, <1>3

\* The list has exactly the structures that are allocated.
LEMMA ListedIsHeld ==
  ASSUME ServerInvariant, NEW c \in Clients
  PROVE  c \in ToSet(clients) <=> Held(c)
BY DEF ServerInvariant, SlotsBelongToThreads, MemoryBelongsToThread, Held

\* What a pointer leads to is in the list.
LEMMA ViewIsListed ==
  ASSUME ServerInvariant, NEW c \in Clients, View(c) # Null
  PROVE  View(c) \in ToSet(clients)
<1>1. TypeOK
  BY DEF ServerInvariant
<1>2. PICK v \in Clients : v = View(c) /\ Held(v)
  BY <1>1, ViewType
<1> QED
  BY <1>2, ListedIsHeld

\* Server_dropClient closes the handles of a structure without a thread id.
Closes(v) ==
  /\ ~threadID[v]
  /\ mem' = [mem EXCEPT ![v] = "closed"]
  /\ UNCHANGED <<clients, current>>

\* Server_dropClient deletes the node of a structure with a thread id.
Deletes(v, fate) == threadID[v] /\ Unlink(v, fate)

\* What Server_dropClient does to the list when it returns.
LEMMA ThreadlessDrop ==
  ASSUME ServerInvariant, NEW c \in Clients, DropThreadless(c)
  PROVE  \/ View(c) = Null /\ UNCHANGED listVars
         \/ View(c) # Null /\ \E v \in ToSet(clients) : v = View(c) /\ Closes(v)
BY ViewIsListed DEF DropThreadless, Closes, listVars

\* What Server_dropClient does to the list when it ends the thread.
LEMMA ThreadedDrop ==
  ASSUME ServerInvariant, NEW c \in Clients, NEW fate, DropThreaded(c, fate)
  PROVE  \/ ~Held(c) /\ UNCHANGED listVars
         \/ View(c) # Null /\ \E v \in ToSet(clients) : v = View(c) /\ Deletes(v, fate)
BY ViewIsListed DEF DropThreaded, Deletes

-----------------------------------------------------------------------------
(* Type correctness. *)

\* What a step leaves alone keeps its type.
LEMMA FrameType ==
  ASSUME TypeOK
  PROVE  /\ UNCHANGED processVars => ProcessTypeOK'
         /\ UNCHANGED mainVars => MainTypeOK'
         /\ UNCHANGED listVars => ListTypeOK'
         /\ UNCHANGED sessionVars => SessionTypeOK'
         /\ UNCHANGED queueVars => QueueTypeOK'
         /\ UNCHANGED bcastVars => BcastTypeOK'
         /\ UNCHANGED addr => addr' \in [Clients -> Clients]
         /\ UNCHANGED threadID => threadID' \in [Clients -> BOOLEAN]
         /\ UNCHANGED pc => pc' \in [Clients -> Labels]
BY DEF TypeOK, ProcessTypeOK, MainTypeOK, ListTypeOK, SessionTypeOK,
       QueueTypeOK, BcastTypeOK, processVars, mainVars, listVars, sessionVars,
       queueVars, bcastVars

\* A thread that goes to a label keeps the type of the labels.
LEMMA GotoType ==
  ASSUME TypeOK, NEW c, NEW label \in Labels, Goto(c, label)
  PROVE  pc' \in [Clients -> Labels]
BY DEF Goto, TypeOK

\* A crash of the process changes no type.
LEMMA CrashType ==
  ASSUME TypeOK, Crash
  PROVE  TypeOK'
<1>1. ProcessTypeOK'
  BY DEF TypeOK, ProcessTypeOK, Crash
<1> QED
  BY <1>1, FrameType DEF TypeOK, Crash

\* The nickname found through a pointer is a nickname or Null.
LEMMA NickType ==
  ASSUME TypeOK, NEW c \in Clients
  PROVE  NickOf(c) \in Nicks \cup {Null}
<1>1. View(c) = Null \/ View(c) \in Clients
  BY ViewType
<1> QED
  BY <1>1 DEF NickOf, TypeOK, SessionTypeOK

\* Pushing to the broadcast queue keeps the types of the queue.
LEMMA BroadcastType ==
  ASSUME TypeOK, NEW c \in Clients, NEW type \in {"joined", "msg", "left"},
         Broadcast(type, c)
  PROVE  QueueTypeOK'
<1>0. PICK nick \in Nicks \cup {Null} : nick = NickOf(c)
  BY NickType
<1>1. [type |-> type, from |-> c, nick |-> nick] \in Entry
  BY DEF Entry
<1>2. messages \in Seq(Nat) /\ log \in Seq(Entry)
  BY DEF TypeOK, QueueTypeOK
<1>3. Len(log) + 1 \in Nat
  BY <1>2, LenProperties
<1>4. Append(log, [type |-> type, from |-> c, nick |-> nick]) \in Seq(Entry)
  BY <1>1, <1>2, AppendProperties
<1>5. Append(messages, Len(log) + 1) \in Seq(Nat)
  BY <1>2, <1>3, AppendProperties
<1> QED
  BY <1>0, <1>2, <1>4, <1>5 DEF Broadcast, queueVars, QueueTypeOK

\* Closing a client of the list keeps the types of the list.
LEMMA CloseType ==
  ASSUME TypeOK, NEW c, Closes(c)
  PROVE  ListTypeOK'
BY DEF Closes, TypeOK, ListTypeOK

\* Deleting a client of the list keeps the types of the list.
LEMMA UnlinkType ==
  ASSUME TypeOK, SlotsBelongToThreads, NEW c \in ToSet(clients),
         NEW fate \in {"freed", "lost"}, Unlink(c, fate)
  PROVE  ListTypeOK'
<1>1. clients \in Seq(Clients) /\ IsInjective(clients)
  BY DEF TypeOK, ListTypeOK, SlotsBelongToThreads
<1>2. clients' \in Seq(Clients)
  BY <1>1, DeleteNode DEF Unlink
<1>3. current' \in Clients \cup {Null}
  BY <1>1, SuccessorType DEF Unlink, CursorAfterDelete, TypeOK, ListTypeOK
<1>4. mem' \in [Clients -> {"none", "live", "closed", "freed", "lost"}]
  BY DEF Unlink, TypeOK, ListTypeOK
<1> QED
  BY <1>2, <1>3, <1>4 DEF ListTypeOK

\* Following a cursor leads to a client of the list, or to its end.
LEMMA NextType ==
  ASSUME TypeOK, NEW cursor \in Clients \cup {Null}, NEW node \in NextData(clients, cursor)
  PROVE  /\ node \in Clients \cup {Null}
         /\ node # Null => node \in ToSet(clients)
         /\ CursorAfterNext(clients, node) \in Clients \cup {Null}
<1>1. clients \in Seq(Clients)
  BY DEF TypeOK, ListTypeOK
<1>2. ToSet(clients) \subseteq Clients
  BY <1>1 DEF ToSet
<1>3. node \in ToSet(clients) \cup {Null}
  BY <1>1 DEF NextData, Dangles
<1>4. node # Null => Successor(clients, node) \in Clients \cup {Null}
  BY <1>1, <1>3, SuccessorType
<1> QED
  BY <1>1, <1>2, <1>3, <1>4 DEF CursorAfterNext

\* The first node of the list is a client, unless the list is empty.
LEMMA FirstType ==
  ASSUME TypeOK
  PROVE  FirstNode(clients) \in Clients \cup {Null}
<1>1. clients \in Seq(Clients)
  BY DEF TypeOK, ListTypeOK
<1>2. clients # <<>> => 1 \in DOMAIN clients
  BY <1>1, EmptySeq
<1> QED
  BY <1>1, <1>2 DEF FirstNode

\* Taking a message from a buffer keeps its type.
LEMMA TakeType ==
  ASSUME TypeOK, NEW c \in Clients, NEW kind, Take(c, kind)
  PROVE  buffer' \in [Clients -> Seq(MessageKinds)]
<1>1. buffer \in [Clients -> Seq(MessageKinds)] /\ BufferOf(c) # <<>>
  BY DEF TypeOK, SessionTypeOK, Take
<1>2. View(c) \in Clients
  BY <1>1, ViewType DEF BufferOf
<1>3. BufferOf(c) \in Seq(MessageKinds)
  BY <1>1, <1>2, NullAssumption DEF BufferOf
<1>4. Tail(BufferOf(c)) \in Seq(MessageKinds)
  BY <1>1, <1>3, HeadTailProperties
<1> QED
  BY <1>1, <1>2, <1>4 DEF Take

\* Every step of the main thread keeps the types.
LEMMA MainType ==
  ASSUME ServerInvariant, MainStep \/ PeerStep \/ Signal
  PROVE  TypeOK'
<1> USE DEF processVars, mainVars, listVars, MainGoto,
            ProcessTypeOK, MainTypeOK, ListTypeOK
<1>0. TypeOK /\ AcceptedIsNew
  BY DEF ServerInvariant
<1>1. CASE MainStep
  <2>0. SessionTypeOK' /\ QueueTypeOK' /\ BcastTypeOK'
    BY <1>0, <1>1, FrameType DEF MainStep
  <2>1. CASE Main_NewList
    BY <1>0, <2>0, <2>1 DEF Main_NewList, TypeOK
  <2>2. CASE Main_NewQueue
    BY <1>0, <2>0, <2>2 DEF Main_NewQueue, TypeOK
  <2>3. CASE Main_Test
    BY <1>0, <2>0, <2>3 DEF Main_Test, TypeOK
  <2>4. CASE Main_Select
    BY <1>0, <2>0, <2>4 DEF Main_Select, TypeOK
  <2>5. CASE Main_LimitReached
    <3>1. pc' \in [Clients -> Labels]
      BY <1>0, <2>5, GotoType DEF Main_LimitReached, Refuse, Labels
    <3> QED
      BY <1>0, <2>0, <2>5, <3>1 DEF Main_LimitReached, Refuse, TypeOK
  <2>6. CASE Main_LimitNotReached
    BY <1>0, <2>0, <2>6 DEF Main_LimitNotReached, TypeOK
  <2>7. CASE Main_Append
    <3>1. conn \in Clients
      BY <1>0, <2>7 DEF Main_Append, AcceptedIsNew
    <3>2. clients' \in Seq(Clients) /\ current' \in Clients \cup {Null}
      BY <1>0, <2>7, <3>1, AppendProperties
      DEF Main_Append, TypeOK, CursorAfterAppend
    <3>3. pc' \in [Clients -> Labels]
      BY <1>0, <2>7, GotoType DEF Main_Append, Labels, Alive, Unannounced
    <3>4. addr' \in [Clients -> Clients]
      BY <1>0, <2>7, <3>1 DEF Main_Append, TypeOK, FreeBlocks
    <3>5. mem' \in [Clients -> {"none", "live", "closed", "freed", "lost"}]
      BY <1>0, <2>7 DEF Main_Append, TypeOK
    <3>6. ProcessTypeOK' /\ MainTypeOK' /\ threadID' \in [Clients -> BOOLEAN]
      BY <1>0, <2>7 DEF Main_Append, TypeOK
    <3> QED
      BY <2>0, <3>2, <3>3, <3>4, <3>5, <3>6 DEF TypeOK
  <2>8. CASE Main_StoreThreadID
    BY <1>0, <2>0, <2>8 DEF Main_StoreThreadID, TypeOK
  <2>9. CASE Main_JoinRead
    BY <1>0, <2>0, <2>9 DEF Main_JoinRead, TypeOK
  <2>10. CASE Main_JoinNext
    <3>1. PICK node \in NextData(clients, conn) :
            /\ current' = CursorAfterNext(clients, node)
            /\ conn' = Null
            /\ mainPc' = IF node = Null THEN "freelist" ELSE "join"
      BY <2>10 DEF Main_JoinNext
    <3>2. current' \in Clients \cup {Null}
      BY <1>0, <3>1, NextType DEF TypeOK
    <3>3. MainTypeOK'
      BY <1>0, <2>10, <3>1 DEF Main_JoinNext, TypeOK
    <3>4. ListTypeOK'
      BY <1>0, <2>10, <3>2 DEF Main_JoinNext, TypeOK
    <3>5. ProcessTypeOK' /\ UNCHANGED <<addr, threadID, pc>>
      BY <1>0, <2>10 DEF Main_JoinNext, TypeOK
    <3> QED
      BY <1>0, <2>0, <3>3, <3>4, <3>5 DEF TypeOK
  <2>11. CASE Main_FreeList
    BY <1>0, <2>0, <2>11 DEF Main_FreeList, TypeOK
  <2>12. CASE Main_Finish
    BY <1>0, <2>0, <2>12 DEF Main_Finish, TypeOK
  <2> QED
    BY <1>1, <2>1, <2>2, <2>3, <2>4, <2>5, <2>6, <2>7, <2>8, <2>9, <2>10, <2>11, <2>12
    DEF MainStep
<1>2. CASE PeerStep
  <2>0. SessionTypeOK' /\ QueueTypeOK' /\ BcastTypeOK'
    BY <1>0, <1>2, FrameType DEF PeerStep
  <2>1. ASSUME NEW c \in Clients, Main_Accept(c) PROVE TypeOK'
    BY <1>0, <2>0, <2>1 DEF Main_Accept, TypeOK
  <2>2. CASE Main_AcceptFails
    BY <1>0, <2>0, <2>2 DEF Main_AcceptFails, TypeOK
  <2>3. CASE Main_HandshakeSucceeds
    BY <1>0, <2>0, <2>3 DEF Main_HandshakeSucceeds, TypeOK
  <2>4. CASE Main_HandshakeFails
    <3>1. pc' \in [Clients -> Labels]
      BY <1>0, <2>4, GotoType DEF Main_HandshakeFails, Refuse, Labels
    <3> QED
      BY <1>0, <2>0, <2>4, <3>1 DEF Main_HandshakeFails, Refuse, TypeOK
  <2> QED
    BY <1>2, <2>1, <2>2, <2>3, <2>4 DEF PeerStep
<1>3. CASE Signal
  <2>1. SessionTypeOK' /\ QueueTypeOK' /\ BcastTypeOK'
    BY <1>0, <1>3, FrameType DEF Signal
  <2> QED
    BY <1>0, <1>3, <2>1 DEF Signal, TypeOK
<1> QED
  BY <1>1, <1>2, <1>3

\* Every step of a connection's thread keeps the types.
LEMMA ClientType ==
  ASSUME ServerInvariant, NEW c \in Clients, ClientStep(c) \/ Client_Crash(c)
  PROVE  TypeOK'
<1>0. TypeOK /\ SlotsBelongToThreads
  BY DEF ServerInvariant
<1>1. CASE ClientStep(c)
  <2>0. /\ ProcessTypeOK' /\ MainTypeOK' /\ BcastTypeOK'
        /\ addr' \in [Clients -> Clients] /\ threadID' \in [Clients -> BOOLEAN]
    BY <1>0, <1>1, FrameType DEF ClientStep
  <2>00. SUFFICES /\ ListTypeOK' /\ SessionTypeOK' /\ QueueTypeOK'
                  /\ pc' \in [Clients -> Labels]
    BY <2>0 DEF TypeOK
  <2>1. CASE Client_CheckThread(c)
    <3>1. pc' \in [Clients -> Labels]
      BY <1>0, <2>1, GotoType, FrameType DEF Client_CheckThread, Labels, Alive, Unannounced, InChat
    <3> QED
      BY <1>0, <2>1, <3>1, FrameType DEF Client_CheckThread
  <2>2. CASE Client_Welcome(c)
    <3>1. pc' \in [Clients -> Labels]
      BY <1>0, <2>2, GotoType, FrameType DEF Client_Welcome, Labels, Alive, Unannounced, InChat
    <3> QED
      BY <1>0, <2>2, <3>1, FrameType DEF Client_Welcome
  <2>3. CASE Client_AuthFails(c)
    <3>1. pc' \in [Clients -> Labels]
      BY <1>0, <2>3, GotoType, FrameType DEF Client_AuthFails, Labels, Alive, Unannounced, InChat
    <3> QED
      BY <1>0, <2>3, <3>1, FrameType DEF Client_AuthFails
  <2>4. ASSUME NEW nick \in Nicks, Client_AuthNick(c, nick)
        PROVE  ListTypeOK' /\ SessionTypeOK' /\ QueueTypeOK' /\ pc' \in [Clients -> Labels]
    <3>1. pc' \in [Clients -> Labels]
      BY <1>0, <2>4, GotoType, FrameType DEF Client_AuthNick, Labels, Alive, Unannounced, InChat
    <3>2. want' \in [Clients -> Nicks \cup {Null}]
      BY <1>0, <2>4 DEF Client_AuthNick, TypeOK, SessionTypeOK
    <3>3. UNCHANGED <<nickname, buffer, reads, listVars, queueVars>>
      BY <2>4 DEF Client_AuthNick
    <3>4. SessionTypeOK'
      BY <1>0, <3>2, <3>3 DEF TypeOK, SessionTypeOK
    <3> QED
      BY <1>0, <3>1, <3>3, <3>4, FrameType
  <2>5. CASE Client_Claim(c)
    <3>1. pc' \in [Clients -> Labels]
      BY <1>0, <2>5, GotoType, FrameType DEF Client_Claim, Labels, Alive, Unannounced, InChat
    <3> QED
      BY <1>0, <2>5, <3>1, FrameType DEF Client_Claim
  <2>6. CASE Client_Name(c)
    <3>1. pc' \in [Clients -> Labels]
      BY <1>0, <2>6, GotoType DEF Client_Name, Labels, Alive, Unannounced, InChat
    <3>2. nickname' \in [Clients -> Nicks \cup {Null}]
      BY <1>0, <2>6 DEF Client_Name, TypeOK, SessionTypeOK
    <3>3. SessionTypeOK'
      BY <1>0, <2>6, <3>2 DEF Client_Name, TypeOK, SessionTypeOK
    <3> QED
      BY <1>0, <2>6, <3>1, <3>3, FrameType DEF Client_Name
  <2>7. CASE Client_Hello(c)
    <3>1. pc' \in [Clients -> Labels]
      BY <1>0, <2>7, GotoType, FrameType DEF Client_Hello, Labels, Alive, Unannounced, InChat
    <3> QED
      BY <1>0, <2>7, <3>1, FrameType DEF Client_Hello
  <2>8. CASE Client_Announce(c)
    <3>1. pc' \in [Clients -> Labels]
      BY <1>0, <2>8, GotoType, FrameType DEF Client_Announce, Labels, Alive, Unannounced, InChat
    <3>2. QueueTypeOK'
      BY <1>0, <2>8, BroadcastType DEF Client_Announce
    <3> QED
      BY <1>0, <2>8, <3>1, <3>2, FrameType DEF Client_Announce
  <2>9. CASE Client_Test(c)
    <3>1. pc' \in [Clients -> Labels]
      BY <1>0, <2>9, GotoType, FrameType DEF Client_Test, Labels, Alive, Unannounced, InChat
    <3> QED
      BY <1>0, <2>9, <3>1, FrameType DEF Client_Test
  <2>10. CASE Client_WaitEnds(c)
    <3>1. pc' \in [Clients -> Labels]
      BY <1>0, <2>10, GotoType, FrameType DEF Client_WaitEnds, Labels, Alive, Unannounced, InChat
    <3> QED
      BY <1>0, <2>10, <3>1, FrameType DEF Client_WaitEnds
  <2>11. CASE Client_WaitInterrupted(c)
    <3>1. pc' \in [Clients -> Labels]
      BY <1>0, <2>11, GotoType, FrameType DEF Client_WaitInterrupted, Labels, Alive, Unannounced, InChat
    <3> QED
      BY <1>0, <2>11, <3>1, FrameType DEF Client_WaitInterrupted
  <2>12. CASE Client_Receive(c)
    <3>1. pc' \in [Clients -> Labels]
      BY <1>0, <2>12, GotoType, FrameType DEF Client_Receive, Labels, Alive, Unannounced, InChat
    <3>2. PICK data \in Seq(MessageKinds) : buffer' = [buffer EXCEPT ![View(c)] = data]
      BY <2>12, ReadsAssumption DEF Client_Receive
    <3>3. buffer' \in [Clients -> Seq(MessageKinds)]
      BY <1>0, <3>2 DEF TypeOK, SessionTypeOK
    <3>4. reads' = [reads EXCEPT ![c] = reads[c] + 1] /\ UNCHANGED <<nickname, want>>
      BY <2>12 DEF Client_Receive
    <3>5. reads' \in [Clients -> Nat]
      BY <1>0, <3>4 DEF TypeOK, SessionTypeOK
    <3>6. SessionTypeOK'
      BY <1>0, <3>3, <3>4, <3>5 DEF TypeOK, SessionTypeOK
    <3> QED
      BY <1>0, <2>12, <3>1, <3>2, <3>3, <3>4, <3>5, <3>6, FrameType DEF Client_Receive
  <2>13. CASE Client_NoMessage(c)
    <3>1. pc' \in [Clients -> Labels]
      BY <1>0, <2>13, GotoType, FrameType DEF Client_NoMessage, Labels, Alive, Unannounced, InChat
    <3> QED
      BY <1>0, <2>13, <3>1, FrameType DEF Client_NoMessage
  <2>14. CASE Client_Quit(c)
    <3>1. pc' \in [Clients -> Labels]
      BY <1>0, <2>14, GotoType, FrameType DEF Client_Quit, Labels, Alive, Unannounced, InChat
    <3>2. buffer' \in [Clients -> Seq(MessageKinds)]
      BY <1>0, <2>14, TakeType DEF Client_Quit
    <3>3. SessionTypeOK'
      BY <1>0, <2>14, <3>2 DEF Client_Quit, TypeOK, SessionTypeOK
    <3> QED
      BY <1>0, <2>14, <3>1, <3>2, <3>3, FrameType DEF Client_Quit
  <2>15. CASE Client_Message(c)
    <3>1. pc' \in [Clients -> Labels]
      BY <1>0, <2>15, GotoType, FrameType DEF Client_Message, Labels, Alive, Unannounced, InChat
    <3>2. buffer' \in [Clients -> Seq(MessageKinds)]
      BY <1>0, <2>15, TakeType DEF Client_Message
    <3>3. SessionTypeOK'
      BY <1>0, <2>15, <3>2 DEF Client_Message, TypeOK, SessionTypeOK
    <3>4. QueueTypeOK'
      BY <1>0, <2>15, BroadcastType, FrameType DEF Client_Message
    <3> QED
      BY <1>0, <2>15, <3>1, <3>2, <3>3, <3>4, FrameType DEF Client_Message
  <2>16. CASE Client_Ignore(c)
    <3>1. pc' \in [Clients -> Labels]
      BY <1>0, <2>16, GotoType, FrameType DEF Client_Ignore, Labels, Alive, Unannounced, InChat
    <3>2. buffer' \in [Clients -> Seq(MessageKinds)]
      BY <1>0, <2>16, TakeType DEF Client_Ignore
    <3>3. SessionTypeOK'
      BY <1>0, <2>16, <3>2 DEF Client_Ignore, TypeOK, SessionTypeOK
    <3> QED
      BY <1>0, <2>16, <3>1, <3>2, <3>3, FrameType DEF Client_Ignore
  <2>17. CASE Client_Leave(c)
    <3>1. pc' \in [Clients -> Labels]
      BY <1>0, <2>17, GotoType, FrameType DEF Client_Leave, Labels, Alive, Unannounced, InChat
    <3>2. QueueTypeOK'
      BY <1>0, <2>17, BroadcastType DEF Client_Leave
    <3> QED
      BY <1>0, <2>17, <3>1, <3>2, FrameType DEF Client_Leave
  <2>18. CASE Client_DropReturns(c)
    <3>1. After[pc[c]] \in Labels
      BY <2>18, AfterIs DEF Client_DropReturns, Labels, Alive, Unannounced, InChat
    <3>2. pc' \in [Clients -> Labels]
      BY <1>0, <2>18, <3>1, GotoType DEF Client_DropReturns
    <3>3. ListTypeOK'
      BY <1>0, <2>18, ThreadlessDrop, CloseType, FrameType DEF Client_DropReturns
    <3> QED
      BY <1>0, <2>18, <3>2, <3>3, FrameType DEF Client_DropReturns
  <2>19. CASE Client_Drop(c)
    <3>1. pc' \in [Clients -> Labels]
      BY <1>0, <2>19, GotoType DEF Client_Drop, Labels
    <3>2. PICK fate \in {"freed", "lost"} : DropThreaded(c, fate)
      BY <2>19 DEF Client_Drop
    <3>3. ListTypeOK'
      BY <1>0, <3>2, ThreadedDrop, UnlinkType, FrameType DEF Deletes
    <3> QED
      BY <1>0, <2>19, <3>1, <3>3, FrameType DEF Client_Drop
  <2> QED
    BY <1>1, <2>1, <2>2, <2>3, <2>4, <2>5, <2>6, <2>7, <2>8, <2>9, <2>10,
       <2>11, <2>12, <2>13, <2>14, <2>15, <2>16, <2>17, <2>18, <2>19
    DEF ClientStep
<1>2. CASE Client_Crash(c)
  BY <1>0, <1>2, CrashType DEF Client_Crash
<1> QED
  BY <1>1, <1>2

\* Every step of the broadcast thread keeps the types.
LEMMA BcastType ==
  ASSUME ServerInvariant, BcastStep \/ Bcast_Crash
  PROVE  TypeOK'
<1> USE DEF BcastGoto, ItemDone, Continue
<1>0. TypeOK /\ SlotsBelongToThreads /\ HandleIsClient
  BY DEF ServerInvariant
<1>1. CASE BcastStep
  <2>0. /\ ProcessTypeOK' /\ MainTypeOK' /\ SessionTypeOK' /\ addr' \in [Clients -> Clients]
        /\ threadID' \in [Clients -> BOOLEAN] /\ pc' \in [Clients -> Labels]
    BY <1>0, <1>1, FrameType DEF BcastStep
  <2>00. SUFFICES ListTypeOK' /\ QueueTypeOK' /\ BcastTypeOK'
    BY <2>0 DEF TypeOK
  <2>1. CASE Bcast_Pop
    <3>1. messages # <<>> => Head(messages) \in Nat /\ Tail(messages) \in Seq(Nat)
      BY <1>0, HeadTailProperties DEF TypeOK, QueueTypeOK
    <3>2. QueueTypeOK' /\ BcastTypeOK'
      BY <1>0, <2>1, <3>1 DEF Bcast_Pop, TypeOK, QueueTypeOK, BcastTypeOK
    <3> QED
      BY <1>0, <2>1, <3>2, FrameType DEF Bcast_Pop
  <2>2. CASE Bcast_Rewind
    <3>1. BcastTypeOK'
      BY <1>0, <2>2 DEF Bcast_Rewind, TypeOK, BcastTypeOK
    <3> QED
      BY <1>0, <2>2, <3>1, FrameType DEF Bcast_Rewind
  <2>3. CASE Bcast_First
    <3>1. BcastTypeOK'
      BY <1>0, <2>3, FirstType DEF Bcast_First, TypeOK, BcastTypeOK
    <3> QED
      BY <1>0, <2>3, <3>1, FrameType DEF Bcast_First
  <2>4. CASE Bcast_Rewound
    <3>1. BcastTypeOK'
      BY <1>0, <2>4 DEF Bcast_Rewound, TypeOK, BcastTypeOK
    <3>2. ListTypeOK'
      BY <1>0, <2>4 DEF Bcast_Rewound, TypeOK, ListTypeOK, BcastTypeOK
    <3> QED
      BY <1>0, <2>4, <3>1, <3>2, FrameType DEF Bcast_Rewound
  <2>5. CASE Bcast_Test
    <3>1. BcastTypeOK'
      BY <1>0, <2>5 DEF Bcast_Test, TypeOK, BcastTypeOK
    <3> QED
      BY <1>0, <2>5, <3>1, FrameType DEF Bcast_Test
  <2>6. CASE Bcast_Next
    <3>1. PICK node \in NextData(clients, current) :
            /\ current' = CursorAfterNext(clients, node)
            /\ IF node = Null THEN ItemDone
               ELSE BcastGoto("name") /\ handle' = node /\ UNCHANGED item
      BY <2>6 DEF Bcast_Next
    <3>2. node \in Clients \cup {Null} /\ current' \in Clients \cup {Null}
      BY <1>0, <3>1, NextType DEF TypeOK, ListTypeOK
    <3>3. ListTypeOK'
      BY <1>0, <2>6, <3>2 DEF Bcast_Next, TypeOK, ListTypeOK
    <3>4. BcastTypeOK'
      BY <1>0, <2>6, <3>1, <3>2 DEF Bcast_Next, TypeOK, BcastTypeOK
    <3> QED
      BY <1>0, <2>6, <3>3, <3>4, FrameType DEF Bcast_Next
  <2>7. CASE Bcast_Skip \/ Bcast_Named
    <3>1. BcastTypeOK'
      BY <1>0, <2>7 DEF Bcast_Skip, Bcast_Named, TypeOK, BcastTypeOK
    <3> QED
      BY <1>0, <2>7, <3>1, FrameType DEF Bcast_Skip, Bcast_Named
  <2>8. CASE Bcast_Send
    <3>1. PICK d : d = View(handle)
      OBVIOUS
    <3>2. d \in Observed => Append(got[d], item) \in Seq(Nat)
      BY <1>0, AppendProperties DEF TypeOK, BcastTypeOK
    <3>3. got' = [got EXCEPT ![d] = Append(got[d], item)]
      BY <2>8, <3>1 DEF Bcast_Send
    <3>4. BcastTypeOK'
      BY <1>0, <2>8, <3>2, <3>3 DEF Bcast_Send, TypeOK, BcastTypeOK
    <3> QED
      BY <1>0, <2>8, <3>4, FrameType DEF Bcast_Send
  <2>9. CASE Bcast_SendFails
    <3>1. BcastTypeOK'
      BY <1>0, <2>9 DEF Bcast_SendFails, TypeOK, BcastTypeOK
    <3> QED
      BY <1>0, <2>9, <3>1, FrameType DEF Bcast_SendFails
  <2>10. CASE Bcast_Drop
    <3>1. handle \in Clients
      BY <1>0, <2>10 DEF Bcast_Drop, HandleIsClient
    <3>2. ListTypeOK'
      BY <1>0, <2>10, <3>1, ThreadedDrop, UnlinkType, FrameType DEF Bcast_Drop, Deletes
    <3>3. BcastTypeOK'
      BY <1>0, <2>10 DEF Bcast_Drop, TypeOK, BcastTypeOK
    <3> QED
      BY <1>0, <2>10, <3>2, <3>3, FrameType DEF Bcast_Drop
  <2>11. CASE Bcast_DropReturns
    <3>1. handle \in Clients
      BY <1>0, <2>11 DEF Bcast_DropReturns, HandleIsClient
    <3>2. ListTypeOK'
      BY <1>0, <2>11, <3>1, ThreadlessDrop, CloseType, FrameType DEF Bcast_DropReturns
    <3>3. BcastTypeOK'
      BY <1>0, <2>11 DEF Bcast_DropReturns, TypeOK, BcastTypeOK
    <3> QED
      BY <1>0, <2>11, <3>2, <3>3, FrameType DEF Bcast_DropReturns
  <2>12. CASE Bcast_Sleep
    <3>1. BcastTypeOK'
      BY <1>0, <2>12 DEF Bcast_Sleep, TypeOK, BcastTypeOK
    <3> QED
      BY <1>0, <2>12, <3>1, FrameType DEF Bcast_Sleep
  <2> QED
    BY <1>1, <2>1, <2>2, <2>3, <2>4, <2>5, <2>6, <2>7, <2>8, <2>9, <2>10, <2>11, <2>12
    DEF BcastStep
<1>2. CASE Bcast_Crash
  BY <1>0, <1>2, CrashType DEF Bcast_Crash
<1> QED
  BY <1>1, <1>2

-----------------------------------------------------------------------------
(* The list and its slots. *)

\* The part of the invariant about the list, the threads and their memory.
ListInvariant ==
  /\ SlotsBelongToThreads
  /\ ConnectionLimit
  /\ MemoryBelongsToThread
  /\ BlocksAreReused

\* No thread appears, and none ends with a structure that is not closed.
ThreadsKeepMemory ==
  \A c \in Clients : /\ mem'[c] = "live" => pc'[c] \in Alive
                     /\ pc'[c] = "none" => pc[c] = "none"

\* A step keeps the list invariant if it keeps the list and what decides which
\* connections belong in it.
LEMMA KeepsList ==
  ASSUME ServerInvariant, clients' = clients, addr' = addr, ThreadsKeepMemory,
         \A c \in Clients :
           /\ Held(c)' <=> Held(c)
           /\ mem'[c] = "none" <=> mem[c] = "none"
           /\ mem[c] \in {"freed", "lost"} => mem'[c] \in {"freed", "lost"}
  PROVE  ListInvariant'
<1>1. \A c \in Clients : (c \in ToSet(clients)) <=> Held(c)
  BY ListedIsHeld
<1>2. SlotsBelongToThreads'
  BY <1>1 DEF ServerInvariant, SlotsBelongToThreads, Held, ThreadsKeepMemory
<1>3. ConnectionLimit'
  BY DEF ServerInvariant, ConnectionLimit
<1>4. MemoryBelongsToThread'
  BY DEF ServerInvariant, MemoryBelongsToThread, ThreadsKeepMemory
<1>5. BlocksAreReused'
  <2>1. addr \in [Clients -> Clients]
    BY DEF ServerInvariant, TypeOK
  <2> QED
    BY <2>1 DEF ServerInvariant, BlocksAreReused, Recycled
<1> QED
  BY <1>2, <1>3, <1>4, <1>5 DEF ListInvariant

\* A step that leaves the list alone, whatever the threads do.
LEMMA StutterKeepsList ==
  ASSUME ServerInvariant, UNCHANGED <<clients, mem, addr>>, ThreadsKeepMemory
  PROVE  ListInvariant'
BY KeepsList DEF Held

\* A step that leaves the threads alone as well.
LEMMA IdleKeepsList ==
  ASSUME ServerInvariant, UNCHANGED <<clients, mem, addr, pc>>
  PROVE  ListInvariant'
<1>1. ThreadsKeepMemory
  BY DEF ServerInvariant, MemoryBelongsToThread, ThreadsKeepMemory
<1> QED
  BY <1>1, StutterKeepsList

\* Server_dropClient keeps the list invariant when it finds no thread id.
LEMMA CloseKeepsList ==
  ASSUME ServerInvariant, NEW v \in ToSet(clients), Closes(v), addr' = addr,
         ThreadsKeepMemory
  PROVE  ListInvariant'
<1>1. v \in Clients /\ mem \in [Clients -> {"none", "live", "closed", "freed", "lost"}]
  BY DEF ServerInvariant, TypeOK, ListTypeOK, ToSet
<1>2. Held(v)
  BY <1>1, ListedIsHeld
<1>3. clients' = clients /\ mem' = [mem EXCEPT ![v] = "closed"]
  BY DEF Closes
<1>4. \A c \in Clients :
        /\ Held(c)' <=> Held(c)
        /\ mem'[c] = "none" <=> mem[c] = "none"
        /\ mem[c] \in {"freed", "lost"} => mem'[c] \in {"freed", "lost"}
  BY <1>1, <1>2, <1>3 DEF Held
<1> QED
  BY <1>3, <1>4, KeepsList

\* Server_dropClient keeps the list invariant: the slot goes with the memory,
\* whichever thread frees it, and no cursor is left on an empty list.
LEMMA UnlinkKeepsList ==
  ASSUME ServerInvariant, NEW v \in ToSet(clients), NEW fate \in {"freed", "lost"},
         Unlink(v, fate), addr' = addr, ThreadsKeepMemory
  PROVE  /\ ListInvariant'
         /\ EmptyListHasNoCursor'
         /\ Len(clients') = Len(clients) - 1
<1>0. /\ clients \in Seq(Clients) /\ IsInjective(clients) /\ Len(clients) \in Nat
      /\ mem \in [Clients -> {"none", "live", "closed", "freed", "lost"}]
      /\ addr \in [Clients -> Clients]
      /\ v \in Clients
  BY LenProperties
  DEF ServerInvariant, TypeOK, ListTypeOK, SlotsBelongToThreads, ToSet
<1>1. /\ clients' \in Seq(Clients)
      /\ Len(clients') = Len(clients) - 1
      /\ IsInjective(clients')
      /\ ToSet(clients') = ToSet(clients) \ {v}
  BY <1>0, DeleteNode DEF Unlink
<1>2. mem' = [mem EXCEPT ![v] = fate]
  BY DEF Unlink
<1>3. \A c \in Clients : c \in ToSet(clients) <=> Held(c)
  BY ListedIsHeld
<1>4. \A c \in Clients : Held(c)' <=> Held(c) /\ c # v
  BY <1>0, <1>2, <1>3 DEF Held
<1>5. SlotsBelongToThreads'
  <2>1. \A c \in Clients : c \in ToSet(clients') <=> Held(c)'
    BY <1>1, <1>3, <1>4
  <2> QED
    BY <1>1, <2>1 DEF SlotsBelongToThreads, Held, ThreadsKeepMemory
<1>6. ConnectionLimit'
  BY <1>0, <1>1, LimitAssumption DEF ServerInvariant, ConnectionLimit
<1>7. EmptyListHasNoCursor'
  <2> SUFFICES ASSUME clients' = <<>> PROVE current' = Null
    BY DEF EmptyListHasNoCursor
  <2>1. Len(clients) = 1
    BY <1>0, <1>1
  <2>2. Position(clients, v) = 1 /\ clients[1] = v
    BY <1>0, <2>1, PositionIsIndex
  <2> QED
    BY <2>1, <2>2 DEF Unlink, CursorAfterDelete, Successor
<1>8. MemoryBelongsToThread'
  <2>1. mem[v] # "none"
    BY <1>0, <1>3 DEF Held
  <2> QED
    BY <1>0, <1>2, <2>1 DEF ServerInvariant, MemoryBelongsToThread, ThreadsKeepMemory
<1>9. BlocksAreReused'
  <2>1. \A c \in Clients : mem[c] \in {"freed", "lost"} => mem'[c] \in {"freed", "lost"}
    BY <1>0, <1>2
  <2>2. \A c \in Clients : mem[c] # "none" => mem'[c] # "none"
    BY <1>0, <1>2
  <2> QED
    BY <1>0, <1>4, <2>1, <2>2 DEF ServerInvariant, BlocksAreReused, Recycled
<1> QED
  BY <1>1, <1>5, <1>6, <1>7, <1>8, <1>9 DEF ListInvariant

\* Server_start keeps the list invariant when it appends a new connection, in
\* whichever block calloc() puts its structure.
LEMMA AppendKeepsList ==
  ASSUME ServerInvariant, Main_Append
  PROVE  ListInvariant' /\ EmptyListHasNoCursor'
<1>0. conn \in Clients /\ pc[conn] = "none" /\ Len(clients) < MaxConnections
  BY DEF ServerInvariant, Main_Append, AcceptedIsNew, RoomIsKept, HasRoom
<1>1. /\ clients \in Seq(Clients) /\ IsInjective(clients) /\ Len(clients) \in Nat
      /\ mem \in [Clients -> {"none", "live", "closed", "freed", "lost"}]
      /\ addr \in [Clients -> Clients]
      /\ pc \in [Clients -> Labels]
  BY LenProperties
  DEF ServerInvariant, TypeOK, ListTypeOK, SlotsBelongToThreads
<1>2. mem[conn] = "none"
  BY <1>0 DEF ServerInvariant, MemoryBelongsToThread
<1>3. \A c \in Clients : c \in ToSet(clients) <=> Held(c)
  BY ListedIsHeld
<1>4. /\ clients' \in Seq(Clients)
      /\ Len(clients') = Len(clients) + 1
      /\ IsInjective(clients')
      /\ ToSet(clients') = ToSet(clients) \cup {conn}
  BY <1>0, <1>1, <1>2, <1>3, AppendNode DEF Main_Append, Held
<1>5. /\ mem' = [mem EXCEPT ![conn] = "live"]
      /\ pc' = [pc EXCEPT ![conn] = "spawned"]
      /\ "spawned" \in Alive
  BY DEF Main_Append, Goto, Alive, Unannounced
<1>6. \A c \in Clients : Held(c)' <=> Held(c) \/ c = conn
  BY <1>0, <1>1, <1>5 DEF Held
<1>7. MemoryBelongsToThread'
  BY <1>0, <1>1, <1>5 DEF ServerInvariant, MemoryBelongsToThread
<1>8. SlotsBelongToThreads'
  <2>1. \A c \in Clients : c \in ToSet(clients') <=> Held(c)'
    BY <1>0, <1>3, <1>4, <1>6
  <2> QED
    BY <1>4, <1>7, <2>1 DEF SlotsBelongToThreads, Held, MemoryBelongsToThread
<1>9. ConnectionLimit'
  BY <1>0, <1>1, <1>4, LimitAssumption DEF ConnectionLimit
<1>10. EmptyListHasNoCursor'
  <2>1. clients' # <<>>
    BY <1>1, <1>4
  <2> QED
    BY <2>1 DEF EmptyListHasNoCursor
<1>11. BlocksAreReused'
  <2>1. PICK block \in FreeBlocks(conn) : addr' = [addr EXCEPT ![conn] = block]
    BY DEF Main_Append
  <2>2. /\ \A c \in Clients : addr[c] # c => mem[c] # "none" /\ mem[addr[c]] \in {"freed", "lost"}
        /\ \A c, d \in Clients : Held(c) /\ Held(d) /\ addr[c] = addr[d] => c = d
    BY DEF ServerInvariant, BlocksAreReused, Recycled
  <2>3. block \in Clients /\ (block # conn => mem[block] \in {"freed", "lost"})
    BY <1>0, <1>1, <2>1, <2>2 DEF FreeBlocks
  <2>4. \A d \in Clients : Held(d) => addr[d] # block
    <3>1. CASE block = conn
      <4>1. \A d \in Clients : Held(d) => d # conn
        BY <1>2 DEF Held
      <4> QED
        BY <1>2, <2>2, <3>1, <4>1
    <3>2. CASE block # conn
      BY <2>1, <3>2 DEF FreeBlocks
    <3> QED
      BY <3>1, <3>2
  <2>5. \A c \in Clients : Recycled(c)' => mem'[c] # "none" /\ mem'[addr'[c]] \in {"freed", "lost"}
    BY <1>0, <1>1, <1>2, <1>5, <2>1, <2>2, <2>3 DEF Recycled
  <2>6. \A c, d \in Clients : Held(c)' /\ Held(d)' /\ addr'[c] = addr'[d] => c = d
    BY <1>0, <1>1, <1>6, <2>1, <2>2, <2>4
  <2> QED
    BY <2>5, <2>6 DEF BlocksAreReused
<1> QED
  BY <1>7, <1>8, <1>9, <1>10, <1>11 DEF ListInvariant

\* List_free keeps the list invariant: all structures go with the list.
LEMMA FreeKeepsList ==
  ASSUME ServerInvariant, Main_FreeList
  PROVE  ListInvariant' /\ EmptyListHasNoCursor'
<1>1. /\ clients' = <<>> /\ current' = Null /\ pc' = pc /\ addr' = addr
      /\ mem' = [c \in Clients |-> IF c \in ToSet(clients) THEN "lost" ELSE mem[c]]
  BY DEF Main_FreeList
<1>2. ToSet(clients') = {} /\ IsInjective(clients') /\ Len(clients') = 0
  BY <1>1 DEF ToSet, IsInjective
<1>3. \A c \in Clients : ~Held(c)' /\ mem'[c] \notin {"live", "closed"}
  BY <1>1, ListedIsHeld DEF Held
<1>4. \A c \in Clients : pc[c] = "none" => c \notin ToSet(clients) /\ mem[c] = "none"
  BY ListedIsHeld DEF ServerInvariant, MemoryBelongsToThread, Held
<1>5. MemoryBelongsToThread'
  BY <1>1, <1>3, <1>4 DEF MemoryBelongsToThread
<1>6. BlocksAreReused'
  <2>1. addr \in [Clients -> Clients]
    BY DEF ServerInvariant, TypeOK
  <2>2. \A c \in Clients : /\ mem[c] \in {"freed", "lost"} => mem'[c] \in {"freed", "lost"}
                           /\ mem[c] # "none" => mem'[c] # "none"
    BY <1>1
  <2> QED
    BY <1>1, <1>3, <2>1, <2>2 DEF ServerInvariant, BlocksAreReused, Recycled
<1> QED
  BY <1>1, <1>2, <1>3, <1>5, <1>6, LimitAssumption
  DEF ListInvariant, SlotsBelongToThreads, ConnectionLimit, EmptyListHasNoCursor

\* Following a cursor of the empty list, dangling or not, ends at Null.
LEMMA EmptyListNext ==
  ASSUME NEW items, items = <<>>, NEW cursor, NEW node \in NextData(items, cursor)
  PROVE  CursorAfterNext(items, node) = Null
<1>1. ToSet(items) = {}
  BY DEF ToSet
<1> QED
  BY <1>1 DEF NextData, Dangles, CursorAfterNext

\* A step that leaves the list alone, unless it ends a walk of the cursor.
LEMMA StutterKeepsCursor ==
  ASSUME ServerInvariant, UNCHANGED <<clients, current>>, terminate => terminate',
         bpc \in {"iter", "next"} => terminate' \/ bpc' \in {"iter", "next"}
  PROVE  EmptyListHasNoCursor'
BY DEF ServerInvariant, EmptyListHasNoCursor

-----------------------------------------------------------------------------
(* Every step keeps the invariant. *)

\* The parts of the invariant make the invariant.
LEMMA InvariantParts ==
  ASSUME TypeOK', ListInvariant', EmptyListHasNoCursor', RoomIsKept',
         AcceptedIsNew', HandleIsClient'
  PROVE  ServerInvariant'
BY DEF ServerInvariant, ListInvariant

\* Refusing a connection keeps the list invariant: it never had a slot.
LEMMA RefuseKeepsList ==
  ASSUME ServerInvariant, Refuse, mainPc \in {"handshake", "limit"}
  PROVE  ListInvariant'
<1>1. conn \in Clients /\ pc[conn] = "none" /\ pc \in [Clients -> Labels]
  BY DEF ServerInvariant, AcceptedIsNew, TypeOK
<1>2. mem[conn] = "none"
  BY <1>1 DEF ServerInvariant, MemoryBelongsToThread
<1>3. ThreadsKeepMemory
  BY <1>1, <1>2
  DEF ServerInvariant, MemoryBelongsToThread, ThreadsKeepMemory, Refuse, listVars, Goto
<1> QED
  BY <1>3, StutterKeepsList DEF Refuse, listVars

\* The main thread moves the structures of no client away from the broadcast
\* thread.
LEMMA MainKeepsHandle ==
  ASSUME ServerInvariant, MainStep \/ PeerStep \/ Signal
  PROVE  HandleIsClient' /\ UNCHANGED bcastVars /\ (terminate => terminate')
<1> USE DEF listVars, processVars
<1>1. UNCHANGED bcastVars
  BY DEF MainStep, PeerStep, Signal
<1>2. /\ terminate => terminate'
      /\ \/ mem' = mem
         \/ mem' = [mem EXCEPT ![conn] = "live"]
         \/ mem' = [c \in Clients |-> IF c \in ToSet(clients) THEN "lost" ELSE mem[c]]
  <2>1. CASE MainStep
    BY <2>1 DEF MainStep, Main_NewList, Main_NewQueue, Main_Test, Main_Select,
       Main_LimitReached, Refuse, Main_LimitNotReached, Main_Append, Main_StoreThreadID,
       Main_JoinRead, Main_JoinNext, Main_FreeList, Main_Finish
  <2>2. CASE PeerStep
    BY <2>2 DEF PeerStep, Main_Accept, Main_AcceptFails, Main_HandshakeSucceeds,
       Main_HandshakeFails, Refuse
  <2> QED
    BY <2>1, <2>2 DEF Signal
<1>3. mem \in [Clients -> {"none", "live", "closed", "freed", "lost"}] /\ HandleIsClient
  BY DEF ServerInvariant, TypeOK, ListTypeOK
<1>4. \A c \in Clients : mem[c] # "none" => mem'[c] # "none"
  BY <1>2, <1>3
<1> QED
  BY <1>1, <1>2, <1>3, <1>4 DEF HandleIsClient, bcastVars

\* The main thread keeps the invariant.
LEMMA MainKeepsInvariant ==
  ASSUME ServerInvariant, MainStep \/ PeerStep \/ Signal
  PROVE  ServerInvariant'
<1> USE DEF listVars, mainVars, MainGoto
<1>0. TypeOK'
  BY MainType
<1>1. HandleIsClient' /\ UNCHANGED bcastVars /\ (terminate => terminate')
  BY MainKeepsHandle
<1>2. SUFFICES ListInvariant' /\ EmptyListHasNoCursor' /\ RoomIsKept' /\ AcceptedIsNew'
  BY <1>0, <1>1, InvariantParts
<1>3. RoomIsKept /\ AcceptedIsNew
  BY DEF ServerInvariant
\* A step that leaves the list alone leaves the cursor alone as well.
<1>4. ASSUME UNCHANGED <<clients, current>> PROVE EmptyListHasNoCursor'
  BY <1>1, <1>4, StutterKeepsCursor DEF bcastVars
<1> USE DEF RoomIsKept, AcceptedIsNew, HasRoom
<1>5. CASE Main_NewList
  <2>1. ListInvariant' /\ EmptyListHasNoCursor'
    BY <1>4, <1>5, IdleKeepsList DEF Main_NewList
  <2> QED
    BY <1>3, <1>5, <2>1 DEF Main_NewList
<1>6. CASE Main_NewQueue
  <2>1. ListInvariant' /\ EmptyListHasNoCursor'
    BY <1>4, <1>6, IdleKeepsList DEF Main_NewQueue
  <2> QED
    BY <1>3, <1>6, <2>1 DEF Main_NewQueue
<1>7. CASE Main_Test
  <2>1. ListInvariant' /\ EmptyListHasNoCursor'
    BY <1>4, <1>7, IdleKeepsList DEF Main_Test
  <2> QED
    BY <1>3, <1>7, <2>1 DEF Main_Test
<1>8. CASE Main_Select
  <2>1. ListInvariant' /\ EmptyListHasNoCursor'
    BY <1>4, <1>8, IdleKeepsList DEF Main_Select
  <2> QED
    BY <1>3, <1>8, <2>1 DEF Main_Select
<1>9. CASE Main_LimitReached
  <2>1. ListInvariant' /\ EmptyListHasNoCursor'
    BY <1>4, <1>9, RefuseKeepsList DEF Main_LimitReached, Refuse
  <2> QED
    BY <1>9, <2>1 DEF Main_LimitReached, Refuse
<1>10. CASE Main_LimitNotReached
  <2>1. ListInvariant' /\ EmptyListHasNoCursor'
    BY <1>4, <1>10, IdleKeepsList DEF Main_LimitNotReached
  <2> QED
    BY <1>3, <1>10, <2>1 DEF Main_LimitNotReached
<1>11. CASE Main_Append
  <2>1. ListInvariant' /\ EmptyListHasNoCursor'
    BY <1>11, AppendKeepsList
  <2> QED
    BY <1>3, <1>11, <2>1 DEF Main_Append
<1>12. CASE Main_StoreThreadID
  <2>1. ListInvariant' /\ EmptyListHasNoCursor'
    BY <1>4, <1>12, IdleKeepsList DEF Main_StoreThreadID
  <2> QED
    BY <1>3, <1>12, <2>1 DEF Main_StoreThreadID
<1>13. CASE Main_JoinRead
  <2>1. ListInvariant' /\ EmptyListHasNoCursor'
    BY <1>4, <1>13, IdleKeepsList DEF Main_JoinRead
  <2> QED
    BY <1>3, <1>13, <2>1 DEF Main_JoinRead
<1>14. CASE Main_JoinNext
  <2>1. clients = <<>> => current' = Null
    BY <1>14, EmptyListNext DEF Main_JoinNext
  <2>2. EmptyListHasNoCursor'
    BY <1>14, <2>1 DEF Main_JoinNext, EmptyListHasNoCursor
  <2>3. ListInvariant'
    BY <1>14, IdleKeepsList DEF Main_JoinNext
  <2> QED
    BY <1>14, <2>2, <2>3 DEF Main_JoinNext
<1>15. CASE Main_FreeList
  <2>1. ListInvariant' /\ EmptyListHasNoCursor'
    BY <1>15, FreeKeepsList
  <2> QED
    BY <1>15, <2>1 DEF Main_FreeList
<1>16. CASE Main_Finish
  <2>1. ListInvariant' /\ EmptyListHasNoCursor'
    BY <1>4, <1>16, IdleKeepsList DEF Main_Finish
  <2> QED
    BY <1>3, <1>16, <2>1 DEF Main_Finish
<1>17. CASE Main_AcceptFails
  <2>1. ListInvariant' /\ EmptyListHasNoCursor'
    BY <1>4, <1>17, IdleKeepsList DEF Main_AcceptFails
  <2> QED
    BY <1>3, <1>17, <2>1 DEF Main_AcceptFails
<1>18. CASE Main_HandshakeSucceeds
  <2>1. ListInvariant' /\ EmptyListHasNoCursor'
    BY <1>4, <1>18, IdleKeepsList DEF Main_HandshakeSucceeds
  <2> QED
    BY <1>3, <1>18, <2>1 DEF Main_HandshakeSucceeds
<1>19. CASE Main_HandshakeFails
  <2>1. ListInvariant' /\ EmptyListHasNoCursor'
    BY <1>4, <1>19, RefuseKeepsList DEF Main_HandshakeFails, Refuse
  <2> QED
    BY <1>19, <2>1 DEF Main_HandshakeFails, Refuse
<1>20. CASE Signal
  <2>1. ListInvariant' /\ EmptyListHasNoCursor'
    BY <1>4, <1>20, IdleKeepsList DEF Signal
  <2> QED
    BY <1>3, <1>20, <2>1 DEF Signal
<1>21. ASSUME NEW c \in Clients, Main_Accept(c)
      PROVE  ListInvariant' /\ EmptyListHasNoCursor' /\ RoomIsKept' /\ AcceptedIsNew'
  <2>1. ListInvariant' /\ EmptyListHasNoCursor'
    BY <1>4, <1>21, IdleKeepsList DEF Main_Accept
  <2> QED
    BY <1>21, <2>1 DEF Main_Accept
<1> QED
  BY <1>5, <1>6, <1>7, <1>8, <1>9, <1>10, <1>11, <1>12, <1>13,
     <1>14, <1>15, <1>16, <1>17, <1>18, <1>19, <1>20, <1>21
  DEF MainStep, PeerStep

\* What a step of the thread of c may do to the list: nothing, or close or delete
\* a connection, which need not be its own.
ThreadMove(c) ==
  /\ pc[c] \in Alive
  /\ \E label \in Alive \cup {"exited"} :
       /\ pc' = [pc EXCEPT ![c] = label]
       /\ label = "exited" => mem'[c] # "live"
  /\ \/ UNCHANGED listVars
     \/ \E v \in ToSet(clients) : Closes(v)
     \/ \E v \in ToSet(clients), fate \in {"freed", "lost"} : Deletes(v, fate)

\* After Server_dropClient a connection is closed, or its structure is gone.
LEMMA DropEndsLife ==
  ASSUME ServerInvariant, NEW c \in Clients,
         \/ DropThreadless(c)
         \/ \E fate \in {"freed", "lost"} : DropThreaded(c, fate)
  PROVE  mem'[c] # "live"
<1>1. mem \in [Clients -> {"none", "live", "closed", "freed", "lost"}] /\ TypeOK
  BY DEF ServerInvariant, TypeOK, ListTypeOK
<1>2. /\ Held(c) => View(c) = c
      /\ View(c) # Null => View(c) \in Clients
      /\ c # Null
  BY <1>1, ViewType, NullAssumption
<1>3. CASE DropThreadless(c)
  BY <1>1, <1>2, <1>3 DEF DropThreadless, Held
<1>4. ASSUME NEW fate \in {"freed", "lost"}, DropThreaded(c, fate) PROVE mem'[c] # "live"
  BY <1>1, <1>2, <1>4 DEF DropThreaded, Unlink, Held, listVars
<1> QED
  BY <1>3, <1>4

\* Every step of a connection's thread is such a move.
LEMMA ThreadMoves ==
  ASSUME ServerInvariant, NEW c \in Clients, ClientStep(c)
  PROVE  ThreadMove(c)
<1> USE DEF Goto, Alive, Unannounced, InChat
<1>0. pc \in [Clients -> Labels]
  BY DEF ServerInvariant, TypeOK
<1>1. CASE Client_CheckThread(c)
  <2>1. PICK label \in {"welcome", "mismatch"} : Goto(c, label)
    BY <1>1 DEF Client_CheckThread
  <2> QED
    BY <1>1, <2>1 DEF Client_CheckThread, ThreadMove
<1>2. CASE Client_Welcome(c)
  BY <1>2 DEF Client_Welcome, ThreadMove
<1>3. CASE Client_AuthFails(c)
  BY <1>3 DEF Client_AuthFails, ThreadMove
<1>4. CASE Client_Claim(c)
  <2>1. PICK label \in {"name", "dropAuth"} : Goto(c, label)
    BY <1>4 DEF Client_Claim
  <2> QED
    BY <1>4, <2>1 DEF Client_Claim, ThreadMove
<1>5. CASE Client_Name(c)
  BY <1>5 DEF Client_Name, ThreadMove
<1>6. CASE Client_Hello(c)
  BY <1>6 DEF Client_Hello, ThreadMove
<1>7. CASE Client_Announce(c)
  BY <1>7 DEF Client_Announce, ThreadMove
<1>8. CASE Client_Test(c)
  <2>1. PICK label \in {"leave", "wait"} : Goto(c, label)
    BY <1>8 DEF Client_Test
  <2> QED
    BY <1>8, <2>1 DEF Client_Test, ThreadMove
<1>9. CASE Client_WaitEnds(c)
  BY <1>9 DEF Client_WaitEnds, ThreadMove
<1>10. CASE Client_WaitInterrupted(c)
  BY <1>10 DEF Client_WaitInterrupted, ThreadMove
<1>11. CASE Client_Receive(c)
  BY <1>11 DEF Client_Receive, ThreadMove
<1>12. CASE Client_NoMessage(c)
  BY <1>12 DEF Client_NoMessage, ThreadMove
<1>13. CASE Client_Quit(c)
  BY <1>13 DEF Client_Quit, ThreadMove, Take
<1>14. CASE Client_Leave(c)
  BY <1>14 DEF Client_Leave, ThreadMove
<1>15. ASSUME NEW nick \in Nicks, Client_AuthNick(c, nick) PROVE ThreadMove(c)
  BY <1>15 DEF Client_AuthNick, ThreadMove
<1>16. CASE Client_Message(c) \/ Client_Ignore(c)
  <2>1. /\ pc[c] = "parse" /\ UNCHANGED listVars
        /\ pc' = [pc EXCEPT ![c] = "parse"] \/ pc' = [pc EXCEPT ![c] = "chat"]
    BY <1>0, <1>16 DEF Client_Message, Client_Ignore, Take
  <2> QED
    BY <2>1 DEF ThreadMove
<1>17. CASE Client_DropReturns(c)
  <2>1. /\ pc[c] \in Alive
        /\ After[pc[c]] \in Alive \cup {"exited"}
        /\ pc' = [pc EXCEPT ![c] = After[pc[c]]]
    BY <1>17, AfterIs DEF Client_DropReturns
  <2>2. mem'[c] # "live"
    BY <1>17, DropEndsLife DEF Client_DropReturns
  <2>3. UNCHANGED listVars \/ \E v \in ToSet(clients) : Closes(v)
    BY <1>17, ThreadlessDrop DEF Client_DropReturns
  <2> QED
    BY <2>1, <2>2, <2>3 DEF ThreadMove
<1>18. CASE Client_Drop(c)
  <2>1. pc[c] \in Alive /\ pc' = [pc EXCEPT ![c] = "exited"]
    BY <1>18, AfterIs DEF Client_Drop
  <2>2. PICK fate \in {"freed", "lost"} : DropThreaded(c, fate)
    BY <1>18 DEF Client_Drop
  <2>3. mem'[c] # "live"
    BY <2>2, DropEndsLife
  <2>4. UNCHANGED listVars \/ \E v \in ToSet(clients) : Deletes(v, fate)
    BY <2>2, ThreadedDrop
  <2> QED
    BY <2>1, <2>3, <2>4 DEF ThreadMove
<1> QED
  BY <1>1, <1>2, <1>3, <1>4, <1>5, <1>6, <1>7, <1>8, <1>9,
     <1>10, <1>11, <1>12, <1>13, <1>14, <1>15, <1>16, <1>17, <1>18
  DEF ClientStep

\* A connection's thread keeps the invariant, even if the structure it works on
\* is not its own any more.
LEMMA ClientKeepsInvariant ==
  ASSUME ServerInvariant, NEW c \in Clients, ClientStep(c) \/ Client_Crash(c)
  PROVE  ServerInvariant'
<1>0. TypeOK' /\ TypeOK
  BY ClientType DEF ServerInvariant
<1>1. /\ pc \in [Clients -> Labels]
      /\ mem \in [Clients -> {"none", "live", "closed", "freed", "lost"}]
      /\ Len(clients) \in Nat
  BY <1>0, LenProperties DEF TypeOK, ListTypeOK
<1>2. CASE Client_Crash(c)
  <2>1. ListInvariant'
    BY <1>2, IdleKeepsList DEF Client_Crash, Crash, listVars
  <2>2. EmptyListHasNoCursor'
    BY <1>2, StutterKeepsCursor DEF Client_Crash, Crash, listVars, bcastVars
  <2>3. RoomIsKept' /\ AcceptedIsNew' /\ HandleIsClient'
    BY <1>2 DEF ServerInvariant, RoomIsKept, HasRoom, AcceptedIsNew,
       HandleIsClient, Client_Crash, Crash, listVars, mainVars, bcastVars
  <2> QED
    BY <1>0, <2>1, <2>2, <2>3, InvariantParts
<1>3. CASE ClientStep(c)
  <2>0. UNCHANGED <<terminate, mainPc, conn, addr, bpc, handle>>
    BY <1>3 DEF ClientStep, processVars, mainVars, bcastVars
  <2>1. ThreadMove(c)
    BY <1>3, ThreadMoves
  <2>2. pc[c] # "none" /\ pc[c] \in Alive
    BY <2>1 DEF ThreadMove, Alive, Unannounced, InChat
  <2>3. PICK label \in Alive \cup {"exited"} :
          /\ pc' = [pc EXCEPT ![c] = label]
          /\ label = "exited" => mem'[c] # "live"
    BY <2>1 DEF ThreadMove
  <2>4. label # "none"
    BY DEF Alive, Unannounced, InChat
  <2>5. AcceptedIsNew'
    BY <1>1, <2>0, <2>2, <2>3 DEF ServerInvariant, AcceptedIsNew
  \* What the three kinds of moves have in common.
  <2>6. ASSUME NEW v \in Clients, NEW fate \in {"closed", "freed", "lost"},
               mem' = mem \/ mem' = [mem EXCEPT ![v] = fate]
        PROVE  ThreadsKeepMemory /\ HandleIsClient'
    <3>1. \A d \in Clients : /\ mem'[d] = "live" => mem[d] = "live"
                             /\ mem[d] # "none" => mem'[d] # "none"
      BY <1>1, <2>6
    <3>2. \A d \in Clients : mem[d] = "live" => pc[d] \in Alive
      BY DEF ServerInvariant, MemoryBelongsToThread
    <3>3. pc'[c] = label /\ \A d \in Clients \ {c} : pc'[d] = pc[d]
      BY <1>1, <2>3
    <3>4. ThreadsKeepMemory
      BY <2>2, <2>3, <2>4, <3>1, <3>2, <3>3 DEF ThreadsKeepMemory
    <3>5. HandleIsClient'
      BY <2>0, <3>1 DEF ServerInvariant, HandleIsClient
    <3> QED
      BY <3>4, <3>5
  <2>7. ToSet(clients) \subseteq Clients
    BY <1>0 DEF TypeOK, ListTypeOK, ToSet
  <2>8. CASE UNCHANGED listVars
    <3>1. ThreadsKeepMemory /\ HandleIsClient'
      BY <2>6, <2>8 DEF listVars
    <3>2. ListInvariant' /\ EmptyListHasNoCursor'
      BY <2>0, <2>8, <3>1, StutterKeepsList, StutterKeepsCursor DEF listVars
    <3>3. RoomIsKept'
      BY <2>0, <2>8 DEF ServerInvariant, RoomIsKept, HasRoom, listVars
    <3> QED
      BY <1>0, <2>5, <3>1, <3>2, <3>3, InvariantParts
  <2>9. ASSUME NEW v \in ToSet(clients), Closes(v) PROVE ServerInvariant'
    <3>1. ThreadsKeepMemory /\ HandleIsClient'
      BY <2>6, <2>7, <2>9 DEF Closes
    <3>2. ListInvariant' /\ EmptyListHasNoCursor'
      BY <2>0, <2>9, <3>1, CloseKeepsList, StutterKeepsCursor DEF Closes
    <3>3. RoomIsKept'
      BY <2>0, <2>9 DEF ServerInvariant, RoomIsKept, HasRoom, Closes
    <3> QED
      BY <1>0, <2>5, <3>1, <3>2, <3>3, InvariantParts
  <2>10. ASSUME NEW v \in ToSet(clients), NEW fate \in {"freed", "lost"}, Deletes(v, fate)
         PROVE  ServerInvariant'
    <3>1. ThreadsKeepMemory /\ HandleIsClient'
      BY <2>6, <2>7, <2>10 DEF Deletes, Unlink
    <3>2. ListInvariant' /\ EmptyListHasNoCursor' /\ Len(clients') = Len(clients) - 1
      BY <2>0, <2>10, <3>1, UnlinkKeepsList DEF Deletes
    <3>3. RoomIsKept'
      BY <1>1, <2>0, <3>2, LimitAssumption DEF ServerInvariant, RoomIsKept, HasRoom
    <3> QED
      BY <1>0, <2>5, <3>1, <3>2, <3>3, InvariantParts
  <2> QED
    BY <2>1, <2>8, <2>9, <2>10 DEF ThreadMove
<1> QED
  BY <1>2, <1>3

\* The broadcast thread keeps the invariant, also when it drops a client.
LEMMA BcastKeepsInvariant ==
  ASSUME ServerInvariant, BcastStep \/ Bcast_Crash
  PROVE  ServerInvariant'
<1> USE DEF BcastGoto, ItemDone, Continue, listVars
<1>0. TypeOK' /\ TypeOK /\ HandleIsClient
  BY BcastType DEF ServerInvariant
<1>1. UNCHANGED <<terminate, mainPc, conn, addr, pc>>
  BY DEF BcastStep, Bcast_Crash, Crash, mainVars, processVars
<1>2. AcceptedIsNew'
  BY <1>1 DEF ServerInvariant, AcceptedIsNew
<1>3. Len(clients) \in Nat /\ ToSet(clients) \subseteq Clients
  BY <1>0, LenProperties DEF TypeOK, ListTypeOK, ToSet
<1>4. SUFFICES /\ ListInvariant' /\ EmptyListHasNoCursor' /\ HandleIsClient'
               /\ Len(clients') <= Len(clients)
  <2>1. Len(clients') \in Nat
    BY <1>0, LenProperties DEF TypeOK, ListTypeOK
  <2>2. RoomIsKept'
    BY <1>1, <1>3, <1>4, <2>1, LimitAssumption DEF ServerInvariant, RoomIsKept, HasRoom
  <2> QED
    BY <1>0, <1>2, <1>4, <2>2, InvariantParts
\* A step that leaves the list alone and works on no new client.
<1>5. ASSUME UNCHANGED <<clients, mem>>,
             current' = current \/ bpc' = "iter",
             bpc \in {"iter", "next"} => terminate \/ bpc' \in {"iter", "next"},
             bpc' \in {"name", "send", "drop"} => bpc \in {"name", "send", "drop"} /\ handle' = handle
      PROVE  /\ ListInvariant' /\ EmptyListHasNoCursor' /\ HandleIsClient'
             /\ Len(clients') <= Len(clients)
  <2>1. ListInvariant'
    BY <1>1, <1>5, IdleKeepsList
  <2>2. EmptyListHasNoCursor'
    <3>1. CASE current' = current
      BY <1>1, <1>5, <3>1, StutterKeepsCursor
    <3>2. CASE bpc' = "iter"
      BY <3>2 DEF EmptyListHasNoCursor
    <3> QED
      BY <1>5, <3>1, <3>2
  <2>3. HandleIsClient'
    BY <1>0, <1>5 DEF HandleIsClient
  <2> QED
    BY <1>3, <1>5, <2>1, <2>2, <2>3
<1>6. CASE Bcast_Pop
  BY <1>1, <1>5, <1>6 DEF Bcast_Pop
<1>7. CASE Bcast_Rewind
  BY <1>1, <1>5, <1>7 DEF Bcast_Rewind
<1>8. CASE Bcast_First
  BY <1>1, <1>5, <1>8 DEF Bcast_First
<1>9. CASE Bcast_Rewound
  BY <1>1, <1>5, <1>9 DEF Bcast_Rewound
<1>10. CASE Bcast_Test
  BY <1>1, <1>5, <1>10 DEF Bcast_Test
<1>11. CASE Bcast_Skip
  BY <1>1, <1>5, <1>11 DEF Bcast_Skip
<1>12. CASE Bcast_Named
  BY <1>1, <1>5, <1>12 DEF Bcast_Named
<1>13. CASE Bcast_Send
  BY <1>1, <1>5, <1>13 DEF Bcast_Send
<1>14. CASE Bcast_SendFails
  BY <1>1, <1>5, <1>14 DEF Bcast_SendFails
<1>15. CASE Bcast_Sleep
  BY <1>1, <1>5, <1>15 DEF Bcast_Sleep
<1>16. CASE Bcast_Crash
  BY <1>1, <1>5, <1>16 DEF Bcast_Crash, Crash, bcastVars
<1>17. CASE Bcast_Next
  <2>1. PICK node \in NextData(clients, current) :
          /\ current' = CursorAfterNext(clients, node)
          /\ node # Null => handle' = node
          /\ bpc' = IF node = Null THEN "sleep" ELSE "name"
    BY <1>17 DEF Bcast_Next
  <2>2. clients' = clients /\ mem' = mem
    BY <1>17 DEF Bcast_Next
  <2>3. ListInvariant'
    BY <1>1, <2>2, IdleKeepsList
  <2>4. EmptyListHasNoCursor'
    BY <2>1, <2>2, EmptyListNext DEF EmptyListHasNoCursor
  <2>5. node # Null => node \in ToSet(clients)
    BY <1>0, NextType DEF TypeOK, ListTypeOK
  <2>6. HandleIsClient'
    BY <1>3, <2>1, <2>2, <2>5, ListedIsHeld DEF HandleIsClient, Held
  <2> QED
    BY <1>3, <2>2, <2>3, <2>4, <2>6
<1>18. CASE Bcast_Drop
  <2>1. handle \in Clients /\ bpc = "drop" /\ bpc' = "exited" /\ DropThreaded(handle, "lost")
    BY <1>0, <1>18 DEF Bcast_Drop, HandleIsClient
  <2>2. CASE UNCHANGED listVars
    BY <1>5, <2>1, <2>2
  <2>3. ASSUME NEW v \in ToSet(clients), Deletes(v, "lost")
        PROVE  /\ ListInvariant' /\ EmptyListHasNoCursor' /\ HandleIsClient'
               /\ Len(clients') <= Len(clients)
    <3>1. mem' = [mem EXCEPT ![v] = "lost"]
      BY <2>3 DEF Deletes, Unlink
    <3>2. ThreadsKeepMemory
      BY <1>0, <1>1, <3>1
      DEF ThreadsKeepMemory, ServerInvariant, MemoryBelongsToThread, TypeOK, ListTypeOK
    <3>3. ListInvariant' /\ EmptyListHasNoCursor' /\ Len(clients') = Len(clients) - 1
      BY <1>1, <2>3, <3>2, UnlinkKeepsList DEF Deletes
    <3>4. HandleIsClient'
      BY <2>1 DEF HandleIsClient
    <3> QED
      BY <1>3, <3>3, <3>4
  <2> QED
    BY <2>1, <2>2, <2>3, ThreadedDrop
<1>19. CASE Bcast_DropReturns
  <2>1. handle \in Clients /\ bpc = "drop" /\ bpc' = "iter" /\ DropThreadless(handle)
    BY <1>0, <1>19 DEF Bcast_DropReturns, HandleIsClient
  <2>2. CASE UNCHANGED listVars
    BY <1>5, <2>1, <2>2
  <2>3. ASSUME NEW v \in ToSet(clients), Closes(v)
        PROVE  /\ ListInvariant' /\ EmptyListHasNoCursor' /\ HandleIsClient'
               /\ Len(clients') <= Len(clients)
    <3>1. mem' = [mem EXCEPT ![v] = "closed"] /\ UNCHANGED <<clients, current>>
      BY <2>3 DEF Closes
    <3>2. ThreadsKeepMemory
      BY <1>0, <1>1, <3>1
      DEF ThreadsKeepMemory, ServerInvariant, MemoryBelongsToThread, TypeOK, ListTypeOK
    <3>3. ListInvariant'
      BY <1>1, <2>3, <3>2, CloseKeepsList
    <3>4. EmptyListHasNoCursor'
      BY <1>1, <2>1, <3>1, StutterKeepsCursor
    <3>5. HandleIsClient'
      BY <2>1 DEF HandleIsClient
    <3> QED
      BY <1>3, <3>1, <3>3, <3>4, <3>5
  <2> QED
    BY <2>1, <2>2, <2>3, ThreadlessDrop
<1> QED
  BY <1>6, <1>7, <1>8, <1>9, <1>10, <1>11, <1>12, <1>13, <1>14,
     <1>15, <1>16, <1>17, <1>18, <1>19
  DEF BcastStep

-----------------------------------------------------------------------------
(* The theorems of the list and its slots. *)

\* ServerInvariant holds in every state of the server, for every set of
\* connections, every limit, whatever peers send and break and wherever
\* structures are allocated.
THEOREM ServerInvariantHolds == Spec => []ServerInvariant
<1>1. Init => ServerInvariant
  <2> SUFFICES ASSUME Init PROVE ServerInvariant
    OBVIOUS
  <2>1. TypeOK
    <3>1. ProcessTypeOK /\ MainTypeOK
      BY DEF Init, ProcessTypeOK, MainTypeOK
    <3>2. \A S : <<>> \in Seq(S)
      BY EmptySeq
    <3>3. ListTypeOK /\ QueueTypeOK
      BY <3>2 DEF Init, ListTypeOK, QueueTypeOK
    <3>4. SessionTypeOK
      BY <3>2 DEF Init, SessionTypeOK
    <3>5. BcastTypeOK
      BY <3>2 DEF Init, BcastTypeOK
    <3>6. /\ threadID \in [Clients -> BOOLEAN] /\ pc \in [Clients -> Labels]
          /\ addr \in [Clients -> Clients]
      BY DEF Init, Labels
    <3> QED
      BY <3>1, <3>3, <3>4, <3>5, <3>6 DEF TypeOK
  <2>2. SlotsBelongToThreads /\ ConnectionLimit
    BY LimitAssumption
    DEF Init, SlotsBelongToThreads, ConnectionLimit, IsInjective, ToSet
  <2>3. BlocksAreReused
    BY DEF Init, BlocksAreReused, Recycled, Held
  <2> QED
    BY <2>1, <2>2, <2>3
    DEF Init, ServerInvariant, EmptyListHasNoCursor, RoomIsKept, AcceptedIsNew,
        MemoryBelongsToThread, HandleIsClient
<1>2. ServerInvariant /\ [Next]_vars => ServerInvariant'
  <2> SUFFICES ASSUME ServerInvariant, [Next]_vars PROVE ServerInvariant'
    OBVIOUS
  <2>1. CASE Next
    BY <2>1, MainKeepsInvariant, ClientKeepsInvariant, BcastKeepsInvariant
    DEF Next
  <2>2. CASE UNCHANGED vars
    <3>1. TypeOK'
      BY <2>2, FrameType DEF vars, ServerInvariant, TypeOK
    <3>2. ListInvariant' /\ EmptyListHasNoCursor'
      BY <2>2, IdleKeepsList, StutterKeepsCursor DEF vars, listVars, processVars, bcastVars
    <3>3. RoomIsKept' /\ AcceptedIsNew' /\ HandleIsClient'
      BY <2>2 DEF vars, mainVars, listVars, bcastVars, ServerInvariant,
         RoomIsKept, HasRoom, AcceptedIsNew, HandleIsClient
    <3> QED
      BY <3>1, <3>2, <3>3, InvariantParts
  <2> QED
    BY <2>1, <2>2
<1> QED
  BY <1>1, <1>2, PTL DEF Spec

\* The variables of the server always have their types.
THEOREM TypeCorrect == Spec => []TypeOK
BY ServerInvariantHolds, PTL DEF ServerInvariant

\* Server_start never lets the list of clients grow beyond maxConnections.
THEOREM LimitHolds == Spec => []ConnectionLimit
BY ServerInvariantHolds, PTL DEF ServerInvariant

\* A connection has a slot of the list exactly while its structure is allocated,
\* which is no longer than its thread lives unless it was closed as threadless.
THEOREM SlotsHold == Spec => []SlotsBelongToThreads
BY ServerInvariantHolds, PTL DEF ServerInvariant

\* The cursor of the empty list is NULL but for the round that follows an
\* unlocked List_rewind, so that a broadcast to nobody ends.
THEOREM EmptyListHolds == Spec => []EmptyListHasNoCursor
BY ServerInvariantHolds, PTL DEF ServerInvariant

-----------------------------------------------------------------------------
(* What a step does to the session and the log, whichever line does it. *)

\* Server_broadcastMessage on the allocated queue.
Push(type, c) ==
  /\ log' = Append(log, [type |-> type, from |-> c, nick |-> NickOf(c)])
  /\ messages' = Append(messages, Len(log) + 1)

\* Where a thread may go while nothing of its session changes.
QuietLabel(c, label) ==
  \/ /\ pc[c] \in {"spawned", "welcome", "auth"}
     /\ label \in {"mismatch", "welcome", "dropWelcome", "auth", "dropAuth"}
  \/ pc[c] = "claim" /\ label \in {"name", "dropAuth"}
  \/ pc[c] = "hello" /\ label \in {"announce", "dropHello"}
  \/ pc[c] \in InChat /\ label \in InChat

\* The thread of c moves, and nothing of its session changes.
QuietMove(c) ==
  /\ UNCHANGED <<nickname, want, messages, log, clients, current, mem>>
  /\ \E label \in Labels : QuietLabel(c, label) /\ pc' = [pc EXCEPT ![c] = label]

\* The thread of c has found a nickname that nobody uses.
AskMove(c) ==
  /\ UNCHANGED <<nickname, messages, log, clients, current, mem>>
  /\ pc[c] = "auth"
  /\ Usable(c)
  /\ ~clientsLock
  /\ \E nick \in Nicks : want' = [want EXCEPT ![c] = nick]
  /\ pc' = [pc EXCEPT ![c] = "claim"]

\* The thread of c queues a broadcast.
SayMove(c) ==
  /\ UNCHANGED <<nickname, want, clients, current, mem>>
  /\ \/ pc[c] = "announce" /\ pc' = [pc EXCEPT ![c] = "chat"] /\ Push("joined", c)
     \/ pc[c] = "parse" /\ pc' = [pc EXCEPT ![c] = "chat"] /\ Push("msg", c)
     \/ pc[c] = "leave" /\ pc' = [pc EXCEPT ![c] = "dropEnd"] /\ Push("left", c)

\* A running thread finds the queue allocated.
LEMMA ThreadHasQueue ==
  ASSUME QueueOutlivesThreads, process = "running", NEW c \in Clients, pc[c] # "none"
  PROVE  "messages" \in heap
BY DEF QueueOutlivesThreads

\* A step of a connection's thread is one of these moves, writes its nickname or
\* calls Server_dropClient.
LEMMA ClientMoves ==
  ASSUME ServerInvariant, QueueOutlivesThreads, process = "running",
         NEW c \in Clients, ClientStep(c)
  PROVE  \/ QuietMove(c) \/ AskMove(c) \/ SayMove(c)
         \/ Client_Name(c) \/ Client_DropReturns(c) \/ Client_Drop(c)
<1> USE DEF Goto, listVars, sessionVars, queueVars
<1>1. pc \in [Clients -> Labels]
  BY DEF ServerInvariant, TypeOK
<1>2. ASSUME NEW label, QuietLabel(c, label) PROVE label \in Labels
  BY <1>2 DEF QuietLabel, Labels, Alive, Unannounced, InChat
<1>3. pc[c] # "none" => "messages" \in heap
  BY ThreadHasQueue
\* A quiet step is known by its label.
<1>4. ASSUME UNCHANGED <<nickname, want, messages, log, clients, current, mem>>,
             NEW label, QuietLabel(c, label), pc' = [pc EXCEPT ![c] = label]
      PROVE  QuietMove(c)
  BY <1>2, <1>4 DEF QuietMove
<1>5. CASE Client_CheckThread(c)
  <2>1. PICK label \in {"welcome", "mismatch"} : Goto(c, label)
    BY <1>5 DEF Client_CheckThread
  <2> QED
    BY <1>4, <1>5, <2>1 DEF Client_CheckThread, QuietLabel
<1>6. CASE Client_Welcome(c)
  BY <1>4, <1>6 DEF Client_Welcome, QuietLabel
<1>7. CASE Client_AuthFails(c)
  BY <1>4, <1>7 DEF Client_AuthFails, QuietLabel
<1>8. ASSUME NEW nick \in Nicks, Client_AuthNick(c, nick)
      PROVE  QuietMove(c) \/ AskMove(c)
  BY <1>4, <1>8 DEF Client_AuthNick, QuietLabel, AskMove
<1>9. CASE Client_Claim(c)
  <2>1. PICK label \in {"name", "dropAuth"} : Goto(c, label)
    BY <1>9 DEF Client_Claim
  <2> QED
    BY <1>4, <1>9, <2>1 DEF Client_Claim, QuietLabel
<1>10. CASE Client_Hello(c)
  BY <1>4, <1>10 DEF Client_Hello, QuietLabel
<1>11. CASE Client_Announce(c)
  BY <1>3, <1>11 DEF Client_Announce, SayMove, Broadcast, Push
<1>12. CASE Client_Test(c)
  <2>1. PICK label \in {"leave", "wait"} : Goto(c, label)
    BY <1>12 DEF Client_Test
  <2> QED
    BY <1>4, <1>12, <2>1 DEF Client_Test, QuietLabel, InChat
<1>13. CASE Client_WaitEnds(c) \/ Client_WaitInterrupted(c)
  BY <1>4, <1>13 DEF Client_WaitEnds, Client_WaitInterrupted, QuietLabel, InChat
<1>14. CASE Client_Receive(c) \/ Client_NoMessage(c) \/ Client_Quit(c)
  <2>1. /\ UNCHANGED <<nickname, want, messages, log, clients, current, mem>>
        /\ pc[c] \in InChat
        /\ \E label \in InChat : pc' = [pc EXCEPT ![c] = label]
    BY <1>14 DEF Client_Receive, Client_NoMessage, Client_Quit, Take, InChat
  <2> QED
    BY <1>4, <2>1 DEF QuietLabel
<1>15. CASE Client_Message(c)
  <2>1. pc[c] = "parse" /\ "messages" \in heap
    BY <1>3, <1>15 DEF Client_Message, Take
  <2>2. CASE Goto(c, "chat") /\ Broadcast("msg", c)
    BY <1>15, <2>1, <2>2 DEF Client_Message, SayMove, Broadcast, Push
  <2>3. CASE UNCHANGED <<pc, queueVars>>
    <3>1. pc' = [pc EXCEPT ![c] = "parse"]
      BY <1>1, <2>1, <2>3
    <3> QED
      BY <1>4, <1>15, <2>1, <2>3, <3>1 DEF Client_Message, QuietLabel, InChat
  <2> QED
    BY <1>15, <2>2, <2>3 DEF Client_Message
<1>16. CASE Client_Ignore(c)
  <2>1. pc[c] = "parse" /\ pc' = [pc EXCEPT ![c] = "parse"]
    BY <1>1, <1>16 DEF Client_Ignore, Take
  <2> QED
    BY <1>4, <1>16, <2>1 DEF Client_Ignore, QuietLabel, InChat
<1>17. CASE Client_Leave(c)
  BY <1>3, <1>17 DEF Client_Leave, SayMove, Broadcast, Push
<1> QED
  BY <1>5, <1>6, <1>7, <1>8, <1>9, <1>10, <1>11, <1>12, <1>13, <1>14, <1>15,
     <1>16, <1>17 DEF ClientStep

\* The main thread changes no session; it refuses a connection, appends one,
\* moves the cursor on its way out, or frees the list.
RefuseMove ==
  /\ UNCHANGED <<clients, current, mem, addr>>
  /\ conn \in Clients
  /\ pc[conn] = "none"
  /\ pc' = [pc EXCEPT ![conn] = "exited"]

AppendMove ==
  /\ conn \in Clients
  /\ pc[conn] = "none"
  /\ pc' = [pc EXCEPT ![conn] = "spawned"]
  /\ mem' = [mem EXCEPT ![conn] = "live"]
  /\ \E block \in Clients : addr' = [addr EXCEPT ![conn] = block]
  /\ clients' = Append(clients, conn)
  /\ current' = CursorAfterAppend(clients, current, conn)

IdleMove ==
  /\ UNCHANGED <<pc, clients, mem, addr>>
  /\ current' = current \/ mainPc = "joinnext"

FreeMove == Main_FreeList

\* Thread ids are stored and never taken back.
IdsStay == \A c \in Clients : threadID[c] => threadID'[c]

\* A step of the main thread is one of these moves.
LEMMA MainMoves ==
  ASSUME ServerInvariant, MainStep \/ PeerStep \/ Signal
  PROVE  /\ UNCHANGED <<sessionVars, queueVars, bcastVars>>
         /\ IdsStay
         /\ RefuseMove \/ AppendMove \/ IdleMove \/ FreeMove
<1> USE DEF listVars, mainVars
<1>1. AcceptedIsNew /\ threadID \in [Clients -> BOOLEAN]
  BY DEF ServerInvariant, TypeOK
<1>2. UNCHANGED <<sessionVars, queueVars, bcastVars>>
  BY DEF MainStep, PeerStep, Signal
<1>3. CASE MainStep
  <2>1. CASE Main_LimitReached
    BY <1>1, <1>2, <2>1
    DEF Main_LimitReached, Refuse, AcceptedIsNew, RefuseMove, Goto, IdsStay
  <2>2. CASE Main_Append
    BY <1>1, <1>2, <2>2 DEF Main_Append, AcceptedIsNew, AppendMove, Goto, IdsStay, FreeBlocks
  <2>3. CASE Main_JoinNext
    BY <1>2, <2>3 DEF Main_JoinNext, IdleMove, IdsStay
  <2>4. CASE Main_FreeList
    BY <1>2, <2>4 DEF FreeMove, Main_FreeList, IdsStay
  <2>5. CASE Main_StoreThreadID
    BY <1>1, <1>2, <2>5 DEF Main_StoreThreadID, IdleMove, IdsStay
  <2> QED
    BY <1>2, <1>3, <2>1, <2>2, <2>3, <2>4, <2>5
    DEF MainStep, IdleMove, IdsStay, Main_NewList, Main_NewQueue, Main_Test, Main_Select,
        Main_LimitNotReached, Main_JoinRead, Main_Finish
<1>4. CASE PeerStep
  <2>1. CASE Main_HandshakeFails
    BY <1>1, <1>2, <2>1
    DEF Main_HandshakeFails, Refuse, AcceptedIsNew, RefuseMove, Goto, IdsStay
  <2> QED
    BY <1>2, <1>4, <2>1
    DEF PeerStep, IdleMove, IdsStay, Main_Accept, Main_AcceptFails, Main_HandshakeSucceeds
<1>5. CASE Signal
  BY <1>2, <1>5 DEF Signal, IdleMove, IdsStay
<1> QED
  BY <1>3, <1>4, <1>5

\* What the broadcast thread does to the structures: nothing, or it closes or
\* deletes one of the list.
LEMMA BcastMoves ==
  ASSUME ServerInvariant, BcastStep \/ Bcast_Crash
  PROVE  /\ UNCHANGED <<addr, threadID, pc, sessionVars, log, terminate, heap, mainVars>>
         /\ \/ mem' = mem
            \/ \E v \in ToSet(clients) : Closes(v)
            \/ \E v \in ToSet(clients) : Deletes(v, "lost")
<1> USE DEF listVars, queueVars, processVars
<1>1. CASE Bcast_Crash
  BY <1>1 DEF Bcast_Crash, Crash
<1>2. CASE BcastStep
  <2>1. /\ UNCHANGED <<addr, threadID, pc, sessionVars, log, terminate, heap, mainVars>>
    BY <1>2 DEF BcastStep, Bcast_Pop, Bcast_Rewind, Bcast_First, Bcast_Rewound, Bcast_Test,
       Bcast_Next, Bcast_Skip, Bcast_Named, Bcast_Send, Bcast_SendFails, Bcast_Drop,
       Bcast_DropReturns, Bcast_Sleep
  <2>2. bpc = "drop" => handle \in Clients
    BY DEF ServerInvariant, HandleIsClient
  <2>3. CASE Bcast_Drop
    BY <2>1, <2>2, <2>3, ThreadedDrop DEF Bcast_Drop
  <2>4. CASE Bcast_DropReturns
    BY <2>1, <2>2, <2>4, ThreadlessDrop DEF Bcast_DropReturns
  <2> QED
    BY <1>2, <2>1, <2>3, <2>4 DEF BcastStep, Bcast_Pop, Bcast_Rewind, Bcast_First,
       Bcast_Rewound, Bcast_Test, Bcast_Next, Bcast_Skip, Bcast_Named, Bcast_Send,
       Bcast_SendFails, Bcast_Sleep
<1> QED
  BY <1>1, <1>2

\* A step of another thread leaves the main thread where it is.
LEMMA OthersKeepMain ==
  ASSUME \/ \E c \in Clients : ClientStep(c) \/ Client_Crash(c)
         \/ BcastStep \/ Bcast_Crash
  PROVE  /\ UNCHANGED <<terminate, heap, mainPc>>
         /\ process' = process \/ process' # "running"
BY DEF ClientStep, Client_Crash, BcastStep, Bcast_Crash, Crash, processVars, mainVars

\* What has been freed stays freed, and what is there does not vanish.
LEMMA GoneStays ==
  ASSUME ServerInvariant, Next, NEW c \in Clients
  PROVE  /\ mem[c] \in {"freed", "lost"} => mem'[c] = mem[c]
         /\ mem[c] # "none" => mem'[c] # "none"
         /\ mem[c] = "closed" => mem'[c] \in {"closed", "freed", "lost"}
<1>0. mem \in [Clients -> {"none", "live", "closed", "freed", "lost"}]
  BY DEF ServerInvariant, TypeOK, ListTypeOK
<1>1. \A v \in Clients : v \in ToSet(clients) => mem[v] \in {"live", "closed"}
  BY ListedIsHeld DEF Held
<1>2. ToSet(clients) \subseteq Clients
  BY DEF ServerInvariant, TypeOK, ListTypeOK, ToSet
<1>3. CASE mem' = mem
  BY <1>3
<1>4. ASSUME NEW v \in ToSet(clients), NEW fate \in {"closed", "freed", "lost"},
             mem' = [mem EXCEPT ![v] = fate]
      PROVE  /\ mem[c] \in {"freed", "lost"} => mem'[c] = mem[c]
             /\ mem[c] # "none" => mem'[c] # "none"
             /\ mem[c] = "closed" => mem'[c] \in {"closed", "freed", "lost"}
  BY <1>0, <1>1, <1>2, <1>4
<1>5. CASE MainStep \/ PeerStep \/ Signal
  <2>1. CASE AppendMove
    <3>1. mem[conn] = "none" /\ mem' = [mem EXCEPT ![conn] = "live"]
      BY <2>1 DEF AppendMove, ServerInvariant, MemoryBelongsToThread
    <3> QED
      BY <1>0, <3>1
  <2>2. CASE FreeMove
    BY <1>1, <2>2 DEF FreeMove, Main_FreeList
  <2> QED
    BY <1>3, <1>5, <2>1, <2>2, MainMoves DEF RefuseMove, IdleMove
<1>6. ASSUME NEW d \in Clients, ClientStep(d)
      PROVE  /\ mem[c] \in {"freed", "lost"} => mem'[c] = mem[c]
             /\ mem[c] # "none" => mem'[c] # "none"
             /\ mem[c] = "closed" => mem'[c] \in {"closed", "freed", "lost"}
  BY <1>3, <1>4, <1>6, ThreadMoves DEF ThreadMove, Closes, Deletes, Unlink, listVars
<1>7. ASSUME NEW d \in Clients, Client_Crash(d) PROVE mem' = mem
  BY <1>7 DEF Client_Crash, Crash, listVars
<1>8. CASE BcastStep \/ Bcast_Crash
  BY <1>3, <1>4, <1>8, BcastMoves DEF Closes, Deletes, Unlink
<1> QED
  BY <1>3, <1>5, <1>6, <1>7, <1>8 DEF Next

\* A server in which no structure has been lost has not lost one before.
LEMMA SoundBefore ==
  ASSUME ServerInvariant, Next, Sound'
  PROVE  Sound
BY GoneStays DEF Sound

-----------------------------------------------------------------------------
(* The queue, the thread ids and the nicknames. *)

\* The main thread keeps the queue as long as there are threads.
LEMMA QueueIsKept ==
  ASSUME ServerInvariant, QueueOutlivesThreads, Next
  PROVE  QueueOutlivesThreads'
<1> USE DEF QueueOutlivesThreads, MainGoto, mainVars, processVars, listVars
<1>1. CASE MainStep
  BY <1>1 DEF MainStep, Main_NewList, Main_NewQueue, Main_Test, Main_Select,
     Main_LimitReached, Refuse, Main_LimitNotReached, Main_Append,
     Main_StoreThreadID, Main_JoinRead, Main_JoinNext, Main_FreeList, Main_Finish
<1>2. CASE PeerStep
  BY <1>2 DEF PeerStep, Main_Accept, Main_AcceptFails, Main_HandshakeSucceeds,
     Main_HandshakeFails, Refuse
<1>3. CASE Signal
  BY <1>3 DEF Signal
<1>4. ASSUME NEW c \in Clients, ClientStep(c) PROVE QueueOutlivesThreads'
  <2>1. pc[c] # "none"
    BY <1>4, ThreadMoves DEF ThreadMove, Alive, Unannounced, InChat
  <2> QED
    BY <1>4, <2>1, OthersKeepMain
<1>5. ASSUME NEW c \in Clients, Client_Crash(c) PROVE QueueOutlivesThreads'
  BY <1>5 DEF Client_Crash, Crash
<1>6. CASE BcastStep \/ Bcast_Crash
  <2>1. pc' = pc
    BY <1>6, BcastMoves
  <2> QED
    BY <1>6, <2>1, OthersKeepMain
<1> QED
  BY <1>1, <1>2, <1>3, <1>4, <1>5, <1>6 DEF Next

\* The lock is held, and a thread id is missing, exactly where they should be.
LEMMA MainKeepsIds ==
  ASSUME ServerInvariant, ThreadsHaveData, MainStep \/ PeerStep \/ Signal
  PROVE  /\ clientsLock' <=> mainPc' = "setid"
         /\ \A c \in Clients :
              mem'[c] # "none" /\ ~threadID'[c] => mainPc' = "setid" /\ conn' = c
<1> USE DEF ThreadsHaveData, MainGoto, mainVars, processVars, listVars
<1>0. /\ mem \in [Clients -> {"none", "live", "closed", "freed", "lost"}]
      /\ threadID \in [Clients -> BOOLEAN]
  BY DEF ServerInvariant, TypeOK, ListTypeOK
<1>1. CASE Main_Append
  BY <1>0, <1>1 DEF Main_Append
<1>2. CASE Main_StoreThreadID
  BY <1>0, <1>2 DEF Main_StoreThreadID
<1>3. CASE Main_FreeList
  <2>1. \A c \in Clients : c \in ToSet(clients) => mem[c] # "none"
    BY ListedIsHeld DEF Held
  <2> QED
    BY <1>0, <1>3, <2>1 DEF Main_FreeList
<1>4. CASE MainStep
  BY <1>1, <1>2, <1>3, <1>4 DEF MainStep, Main_NewList, Main_NewQueue, Main_Test, Main_Select,
     Main_LimitReached, Refuse, Main_LimitNotReached, Main_JoinRead, Main_JoinNext, Main_Finish
<1>5. CASE PeerStep
  BY <1>5 DEF PeerStep, Main_Accept, Main_AcceptFails, Main_HandshakeSucceeds,
     Main_HandshakeFails, Refuse
<1>6. CASE Signal
  BY <1>6 DEF Signal
<1> QED
  BY <1>4, <1>5, <1>6

\* Only the main thread brings structures to life.
LEMMA OthersBringNothing ==
  ASSUME ServerInvariant, BcastStep \/ Bcast_Crash \/ \E c \in Clients : ClientStep(c) \/ Client_Crash(c)
  PROVE  /\ UNCHANGED <<addr, threadID, mainVars>>
         /\ \A d \in Clients : Held(d)' => Held(d)
         /\ \A d \in Clients : mem'[d] # "none" => mem[d] # "none"
<1> USE DEF Held
<1>0. mem \in [Clients -> {"none", "live", "closed", "freed", "lost"}]
  BY DEF ServerInvariant, TypeOK, ListTypeOK
<1>1. ToSet(clients) \subseteq Clients
  BY DEF ServerInvariant, TypeOK, ListTypeOK, ToSet
<1>2. \A v \in Clients : v \in ToSet(clients) => mem[v] \in {"live", "closed"}
  BY ListedIsHeld
<1>3. /\ UNCHANGED <<addr, threadID, mainVars>>
      /\ \/ mem' = mem
         \/ \E v \in ToSet(clients), fate \in {"closed", "freed", "lost"} :
              mem' = [mem EXCEPT ![v] = fate]
  <2>1. CASE BcastStep \/ Bcast_Crash
    BY <2>1, BcastMoves DEF Closes, Deletes, Unlink
  <2>2. ASSUME NEW c \in Clients, ClientStep(c)
        PROVE  /\ UNCHANGED <<addr, threadID, mainVars>>
               /\ \/ mem' = mem
                  \/ \E v \in ToSet(clients), fate \in {"closed", "freed", "lost"} :
                       mem' = [mem EXCEPT ![v] = fate]
    <3>1. UNCHANGED <<addr, threadID, mainVars>>
      BY <2>2 DEF ClientStep
    <3> QED
      BY <2>2, <3>1, ThreadMoves DEF ThreadMove, Closes, Deletes, Unlink, listVars
  <2>3. ASSUME NEW c \in Clients, Client_Crash(c)
        PROVE  UNCHANGED <<addr, threadID, mainVars>> /\ mem' = mem
    BY <2>3 DEF Client_Crash, Crash, listVars
  <2> QED
    BY <2>1, <2>2, <2>3
<1> QED
  BY <1>0, <1>1, <1>2, <1>3

\* A thread that claims a nickname knows it.
LEMMA WantIsKept ==
  ASSUME ServerInvariant, QueueOutlivesThreads, ThreadsHaveData, Next
  PROVE  \A c \in Clients : pc'[c] \in {"claim", "name"} => want'[c] \in Nicks
<1>0. pc \in [Clients -> Labels] /\ want \in [Clients -> Nicks \cup {Null}]
  BY DEF ServerInvariant, TypeOK, SessionTypeOK
<1>1. \A c \in Clients : pc[c] \in {"claim", "name"} => want[c] \in Nicks
  BY DEF ThreadsHaveData
<1>2. CASE MainStep \/ PeerStep \/ Signal
  BY <1>0, <1>1, <1>2, MainMoves
  DEF sessionVars, RefuseMove, AppendMove, IdleMove, FreeMove, Main_FreeList
<1>3. ASSUME NEW d \in Clients, ClientStep(d)
      PROVE  \A c \in Clients : pc'[c] \in {"claim", "name"} => want'[c] \in Nicks
  <2>0. process = "running"
    BY DEF Next
  <2>1. CASE QuietMove(d)
    BY <1>0, <1>1, <2>1 DEF QuietMove, QuietLabel, InChat
  <2>2. CASE AskMove(d)
    BY <1>0, <1>1, <2>2 DEF AskMove
  <2>3. CASE SayMove(d)
    BY <1>0, <1>1, <2>3 DEF SayMove
  <2>4. CASE Client_Name(d)
    BY <1>0, <1>1, <2>4 DEF Client_Name, Goto
  <2>5. CASE Client_DropReturns(d) \/ Client_Drop(d)
    <3>1. PICK label \in {"welcome", "auth", "hello", "announce", "exited"} :
            pc' = [pc EXCEPT ![d] = label]
      BY <2>5, AfterIs DEF Client_DropReturns, Client_Drop, Goto
    <3>2. want' = want
      BY <2>5 DEF Client_DropReturns, Client_Drop, sessionVars
    <3> QED
      BY <1>0, <1>1, <3>1, <3>2
  <2> QED
    BY <1>3, <2>0, <2>1, <2>2, <2>3, <2>4, <2>5, ClientMoves
<1>4. ASSUME NEW d \in Clients, Client_Crash(d)
      PROVE  UNCHANGED <<pc, want>>
  BY <1>4 DEF Client_Crash, Crash, sessionVars
<1>5. CASE BcastStep \/ Bcast_Crash
  BY <1>1, <1>5, BcastMoves DEF sessionVars
<1> QED
  BY <1>1, <1>2, <1>3, <1>4, <1>5 DEF Next

LEMMA DataIsKept ==
  ASSUME ServerInvariant, QueueOutlivesThreads, ThreadsHaveData, Next
  PROVE  ThreadsHaveData'
<1>1. \A c \in Clients : pc'[c] \in {"claim", "name"} => want'[c] \in Nicks
  BY WantIsKept
<1>2. CASE MainStep \/ PeerStep \/ Signal
  BY <1>1, <1>2, MainKeepsIds DEF ThreadsHaveData
<1>3. CASE BcastStep \/ Bcast_Crash \/ \E c \in Clients : ClientStep(c) \/ Client_Crash(c)
  BY <1>1, <1>3, OthersBringNothing DEF ThreadsHaveData, mainVars
<1> QED
  BY <1>2, <1>3 DEF Next

\* A nickname, once written, may be overwritten but is never taken away; only
\* the thread that writes one changes any.
LEMMA NicksStay ==
  ASSUME ServerInvariant, ThreadsHaveData, Next, NEW c \in Clients
  PROVE  nickname[c] # Null => nickname'[c] # Null
<1>0. nickname \in [Clients -> Nicks \cup {Null}]
  BY DEF ServerInvariant, TypeOK, SessionTypeOK
<1>1. CASE MainStep \/ PeerStep \/ Signal
  BY <1>1, MainMoves DEF sessionVars
<1>2. ASSUME NEW d \in Clients, ClientStep(d)
      PROVE  nickname[c] # Null => nickname'[c] # Null
  <2>1. CASE Client_Name(d)
    <3>1. want[d] # Null
      BY <2>1, NullAssumption DEF Client_Name, ThreadsHaveData
    <3> QED
      BY <1>0, <2>1, <3>1 DEF Client_Name
  <2>2. CASE nickname' = nickname
    BY <2>2
  <2> QED
    BY <1>2, <2>1, <2>2 DEF ClientStep, sessionVars, Client_CheckThread, Client_Welcome,
       Client_AuthFails, Client_AuthNick, Client_Claim, Client_Hello, Client_Announce,
       Client_Test, Client_WaitEnds, Client_WaitInterrupted, Client_Receive,
       Client_NoMessage, Client_Quit, Client_Message, Client_Ignore, Client_Leave,
       Client_DropReturns, Client_Drop
<1>3. ASSUME NEW d \in Clients, Client_Crash(d) PROVE nickname' = nickname
  BY <1>3 DEF Client_Crash, Crash, sessionVars
<1>4. CASE BcastStep \/ Bcast_Crash
  BY <1>4, BcastMoves DEF sessionVars
<1> QED
  BY <1>1, <1>2, <1>3, <1>4 DEF Next

\* In a server that has lost nothing, a thread works on its own structure.
LEMMA OwnStructure ==
  ASSUME ServerInvariant, NamesAreClaimed, NEW c \in Clients, pc[c] \in Alive
  PROVE  Held(c) /\ View(c) = c /\ c # Null
BY ViewType, NullAssumption DEF ServerInvariant, NamesAreClaimed

\* In a server that has lost nothing, Server_dropClient takes only the structure
\* of the calling thread: it closes one that has no thread id, and frees one
\* that was open.
LEMMA DropsItsOwn ==
  ASSUME ServerInvariant, NamesAreClaimed, Sound', NEW c \in Clients, pc[c] \in Alive,
         Client_DropReturns(c) \/ Client_Drop(c)
  PROVE  \/ Client_DropReturns(c) /\ ~threadID[c] /\ mem' = [mem EXCEPT ![c] = "closed"]
         \/ Client_Drop(c) /\ mem[c] = "live" /\ mem' = [mem EXCEPT ![c] = "freed"]
<1>0. mem \in [Clients -> {"none", "live", "closed", "freed", "lost"}]
  BY DEF ServerInvariant, TypeOK, ListTypeOK
<1>1. Held(c) /\ View(c) = c /\ c # Null
  BY OwnStructure
<1>2. CASE Client_DropReturns(c)
  BY <1>1, <1>2 DEF Client_DropReturns, DropThreadless
<1>3. CASE Client_Drop(c)
  <2>1. PICK fate \in {"freed", "lost"} :
          fate = (IF mem[c] = "live" THEN "freed" ELSE "lost") /\ DropThreaded(c, fate)
    BY <1>3 DEF Client_Drop
  <2>2. mem' = [mem EXCEPT ![c] = fate]
    BY <1>1, <2>1 DEF DropThreaded, Unlink
  <2>3. fate # "lost"
    BY <1>0, <2>2 DEF Sound
  <2> QED
    BY <1>3, <2>1, <2>2, <2>3
<1> QED
  BY <1>2, <1>3

\* The same of the broadcast thread: it closes a structure without a thread id,
\* or leaves all alone.
LEMMA BcastLosesNothing ==
  ASSUME ServerInvariant, Sound', BcastStep \/ Bcast_Crash
  PROVE  \/ mem' = mem
         \/ \E v \in Clients : ~threadID[v] /\ mem' = [mem EXCEPT ![v] = "closed"]
<1>0. mem \in [Clients -> {"none", "live", "closed", "freed", "lost"}]
  BY DEF ServerInvariant, TypeOK, ListTypeOK
<1>1. ToSet(clients) \subseteq Clients
  BY DEF ServerInvariant, TypeOK, ListTypeOK, ToSet
<1>2. ASSUME NEW v \in ToSet(clients), Deletes(v, "lost") PROVE FALSE
  BY <1>0, <1>1, <1>2 DEF Deletes, Unlink, Sound
<1> QED
  BY <1>1, <1>2, BcastMoves DEF Closes

\* The same of the main thread: it frees only an empty list.
LEMMA MainLosesNothing ==
  ASSUME ServerInvariant, Sound', FreeMove
  PROVE  mem' = mem /\ pc' = pc
<1>0. mem \in [Clients -> {"none", "live", "closed", "freed", "lost"}]
  BY DEF ServerInvariant, TypeOK, ListTypeOK
<1>1. /\ mem' = [c \in Clients |-> IF c \in ToSet(clients) THEN "lost" ELSE mem[c]]
      /\ pc' = pc
  BY DEF FreeMove, Main_FreeList
<1>2. \A c \in Clients : c \notin ToSet(clients)
  BY <1>1 DEF Sound
<1> QED
  BY <1>0, <1>1, <1>2

\* The main thread keeps the nicknames and what they stand for.
LEMMA MainKeepsNames ==
  ASSUME ServerInvariant, NamesAreClaimed, Sound', MainStep \/ PeerStep \/ Signal
  PROVE  NamesAreClaimed'
<1>0. /\ pc \in [Clients -> Labels]
      /\ mem \in [Clients -> {"none", "live", "closed", "freed", "lost"}]
  BY DEF ServerInvariant, TypeOK, ListTypeOK
<1>1. nickname' = nickname /\ IdsStay
  BY MainMoves DEF sessionVars
<1> USE DEF NamesAreClaimed, Held, IdsStay
<1>2. CASE mem' = mem /\ pc' = pc
  BY <1>1, <1>2
<1>3. CASE RefuseMove
  BY <1>0, <1>1, <1>3 DEF RefuseMove, Unnamed, Named, InChat, Alive, Unannounced
<1>4. CASE AppendMove
  BY <1>0, <1>1, <1>4 DEF AppendMove, Unnamed, Named, InChat, Alive, Unannounced
<1>5. CASE IdleMove
  BY <1>2, <1>5 DEF IdleMove
<1>6. CASE FreeMove
  BY <1>2, <1>6, MainLosesNothing
<1> QED
  BY <1>3, <1>4, <1>5, <1>6, MainMoves

\* A connection's thread writes its nickname where and when it should.
LEMMA ClientKeepsNames ==
  ASSUME ServerInvariant, QueueOutlivesThreads, ThreadsHaveData, NamesAreClaimed,
         process = "running", Sound', NEW c \in Clients, ClientStep(c)
  PROVE  NamesAreClaimed'
<1>0. /\ pc \in [Clients -> Labels]
      /\ mem \in [Clients -> {"none", "live", "closed", "freed", "lost"}]
      /\ nickname \in [Clients -> Nicks \cup {Null}]
  BY DEF ServerInvariant, TypeOK, ListTypeOK, SessionTypeOK
<1>1. threadID' = threadID
  BY DEF ClientStep
<1>2. pc[c] \in Alive
  BY ThreadMoves DEF ThreadMove
<1>3. Held(c) /\ View(c) = c /\ c # Null
  BY <1>2, OwnStructure
<1> USE DEF NamesAreClaimed, Held
<1>4. CASE QuietMove(c)
  <2>1. PICK label \in Labels : QuietLabel(c, label) /\ pc' = [pc EXCEPT ![c] = label]
    BY <1>4 DEF QuietMove
  <2>2. UNCHANGED <<nickname, mem>>
    BY <1>4 DEF QuietMove
  <2>3. /\ label \in Unnamed => nickname[c] = Null
        /\ label \in Named => nickname[c] # Null \/ mem[c] = "closed"
        /\ label \in {"claim", "name"} => mem[c] = "live" /\ threadID[c]
    BY <2>1 DEF QuietLabel, Unnamed, Named, InChat
  <2> QED
    BY <1>0, <1>1, <1>3, <2>1, <2>2, <2>3
<1>5. CASE AskMove(c)
  <2>1. mem[c] = "live" /\ threadID[c] /\ nickname[c] = Null
    BY <1>3, <1>5 DEF AskMove, Usable, ThreadsHaveData, Unnamed
  <2>2. UNCHANGED <<nickname, mem>> /\ pc' = [pc EXCEPT ![c] = "claim"]
    BY <1>5 DEF AskMove
  <2> QED
    BY <1>0, <1>1, <2>1, <2>2 DEF Named, InChat
<1>6. CASE SayMove(c)
  <2>1. PICK label \in {"chat", "dropEnd"} : pc' = [pc EXCEPT ![c] = label]
    BY <1>6 DEF SayMove
  <2>2. UNCHANGED <<nickname, mem>> /\ pc[c] \in Named
    BY <1>6 DEF SayMove, Named, InChat
  <2> QED
    BY <1>0, <1>1, <1>3, <2>1, <2>2 DEF Unnamed
<1>7. CASE Client_Name(c)
  <2>1. mem[c] = "live" /\ threadID[c] /\ want[c] # Null
    BY <1>7, NullAssumption DEF Client_Name, ThreadsHaveData
  <2>2. /\ nickname' = [nickname EXCEPT ![c] = want[c]]
        /\ mem' = mem /\ pc' = [pc EXCEPT ![c] = "hello"]
    BY <1>3, <1>7 DEF Client_Name, Goto, listVars
  <2> QED
    BY <1>0, <1>1, <2>1, <2>2 DEF Unnamed
<1>8. CASE Client_DropReturns(c) \/ Client_Drop(c)
  <2>0. nickname' = nickname
    BY <1>8 DEF Client_DropReturns, Client_Drop, sessionVars
  <2>1. CASE Client_DropReturns(c) /\ ~threadID[c] /\ mem' = [mem EXCEPT ![c] = "closed"]
    <3>1. nickname[c] = Null
      BY <2>1
    <3>2. PICK label \in {"welcome", "auth", "hello", "announce", "exited"} :
            pc' = [pc EXCEPT ![c] = label]
      BY <2>1, AfterIs DEF Client_DropReturns, Goto
    <3> QED
      BY <1>0, <1>1, <2>0, <2>1, <3>1, <3>2
  <2>2. CASE Client_Drop(c) /\ mem[c] = "live" /\ mem' = [mem EXCEPT ![c] = "freed"]
    <3>1. pc' = [pc EXCEPT ![c] = "exited"]
      BY <2>2 DEF Client_Drop, Goto
    <3> QED
      BY <1>0, <1>1, <2>0, <2>2, <3>1 DEF Unnamed, Named, InChat, Alive, Unannounced
  <2> QED
    BY <1>2, <1>8, <2>1, <2>2, DropsItsOwn
<1> QED
  BY <1>4, <1>5, <1>6, <1>7, <1>8, ClientMoves

\* The nicknames and what they stand for are kept until something is lost.
LEMMA NamesAreKept ==
  ASSUME ServerInvariant, QueueOutlivesThreads, ThreadsHaveData, Sound => NamesAreClaimed,
         Next
  PROVE  (Sound => NamesAreClaimed)'
<1> SUFFICES ASSUME Sound' PROVE NamesAreClaimed'
  OBVIOUS
<1>0. NamesAreClaimed
  BY SoundBefore
<1>1. CASE MainStep \/ PeerStep \/ Signal
  BY <1>0, <1>1, MainKeepsNames
<1>2. ASSUME NEW c \in Clients, ClientStep(c) PROVE NamesAreClaimed'
  BY <1>0, <1>2, ClientKeepsNames DEF Next
<1>3. ASSUME NEW c \in Clients, Client_Crash(c) PROVE NamesAreClaimed'
  BY <1>0, <1>3 DEF Client_Crash, Crash, listVars, sessionVars, NamesAreClaimed, Held
<1>4. CASE BcastStep \/ Bcast_Crash
  <2>1. UNCHANGED <<threadID, pc, nickname>>
    BY <1>4, BcastMoves DEF sessionVars
  <2>2. mem \in [Clients -> {"none", "live", "closed", "freed", "lost"}]
    BY DEF ServerInvariant, TypeOK, ListTypeOK
  <2>3. CASE mem' = mem
    BY <1>0, <2>1, <2>3 DEF NamesAreClaimed, Held
  <2>4. ASSUME NEW v \in Clients, ~threadID[v], mem' = [mem EXCEPT ![v] = "closed"]
        PROVE  NamesAreClaimed'
    BY <1>0, <2>1, <2>2, <2>4 DEF NamesAreClaimed, Held
  <2> QED
    BY <1>4, <2>3, <2>4, BcastLosesNothing
<1> QED
  BY <1>1, <1>2, <1>3, <1>4 DEF Next

-----------------------------------------------------------------------------
(* The announcements. *)

\* Each thread announces its client, then talks, then leaves.
LogIsBracketed ==
  \A i \in DOMAIN log :
    LET earlier == {j \in 1 .. (i - 1) : log[j].from = log[i].from}
    IN  /\ (log[i].type = "joined") <=> (earlier = {})
        /\ \A j \in earlier : log[j].type # "left"

\* The messages bear the nickname of their sender.
LogIsNamed ==
  \A i \in DOMAIN log :
    /\ log[i].nick = nickname[log[i].from]
    /\ log[i].nick = Null => mem[log[i].from] = "closed"

\* These are the two parts of the bracketing of sessions.
LEMMA BracketingParts ==
  SessionBracketing <=> LogIsBracketed /\ (Sound => LogIsNamed)
BY DEF SessionBracketing, LogIsBracketed, LogIsNamed

\* Pushing adds one entry at the end of the log.
LEMMA PushAppends ==
  ASSUME ServerInvariant, NEW type \in {"joined", "msg", "left"}, NEW c \in Clients,
         Push(type, c)
  PROVE  /\ Len(log) \in Nat
         /\ DOMAIN log = 1 .. Len(log)
         /\ Len(log') = Len(log) + 1
         /\ DOMAIN log' = 1 .. (Len(log) + 1)
         /\ \A i \in 1 .. Len(log) : log'[i] = log[i]
         /\ log'[Len(log) + 1].type = type
         /\ log'[Len(log) + 1].from = c
         /\ log'[Len(log) + 1].nick = NickOf(c)
<1>0. PICK nick \in Nicks \cup {Null} : nick = NickOf(c)
  BY NickType DEF ServerInvariant
<1>1. log \in Seq(Entry) /\ [type |-> type, from |-> c, nick |-> nick] \in Entry
  BY DEF ServerInvariant, TypeOK, QueueTypeOK, Entry
<1> QED
  BY <1>0, <1>1, AppendProperties, LenProperties DEF Push

\* An announcement in its turn keeps the bracketing.
LEMMA PushKeepsBracketing ==
  ASSUME ServerInvariant, LogMatchesThreads, LogIsBracketed, NEW c \in Clients,
         NEW type \in {"joined", "msg", "left"}, Push(type, c),
         IF type = "joined" THEN pc[c] = "announce" ELSE pc[c] \in InChat
  PROVE  LogIsBracketed'
<1> DEFINE Earlier(i) == {j \in 1 .. (i - 1) : log[j].from = log[i].from}
           said == {i \in DOMAIN log : log[i].from = c}
<1>1. /\ Len(log) \in Nat
      /\ DOMAIN log = 1 .. Len(log)
      /\ DOMAIN log' = 1 .. (Len(log) + 1)
      /\ \A i \in 1 .. Len(log) : log'[i] = log[i]
      /\ log'[Len(log) + 1].type = type
      /\ log'[Len(log) + 1].from = c
  BY PushAppends
<1>2. /\ pc[c] = "announce" => said = {}
      /\ pc[c] \in InChat => said # {} /\ \A i \in said : log[i].type # "left"
  BY DEF LogMatchesThreads, Unannounced
<1>3. ASSUME NEW i \in 1 .. Len(log)
      PROVE  LET earlier == {j \in 1 .. (i - 1) : log'[j].from = log'[i].from}
             IN  /\ (log'[i].type = "joined") <=> (earlier = {})
                 /\ \A j \in earlier : log'[j].type # "left"
  <2>1. \A j \in 1 .. (i - 1) : log'[j] = log[j]
    BY <1>1
  <2>2. {j \in 1 .. (i - 1) : log'[j].from = log'[i].from} = Earlier(i)
    BY <1>1, <2>1
  <2>3. /\ (log[i].type = "joined") <=> (Earlier(i) = {})
        /\ \A j \in Earlier(i) : log[j].type # "left"
    BY <1>1 DEF LogIsBracketed
  <2>4. \A j \in Earlier(i) : log'[j].type # "left"
    BY <2>1, <2>3
  <2> QED
    BY <1>1, <2>2, <2>3, <2>4
<1>4. LET i == Len(log) + 1
          earlier == {j \in 1 .. (i - 1) : log'[j].from = log'[i].from}
      IN  /\ (log'[i].type = "joined") <=> (earlier = {})
          /\ \A j \in earlier : log'[j].type # "left"
  <2>1. {j \in 1 .. (Len(log) + 1 - 1) : log'[j].from = log'[Len(log) + 1].from} = said
    BY <1>1
  <2>2. \A j \in said : log'[j] = log[j]
    BY <1>1
  <2>3. (type = "joined") <=> (said = {})
    BY <1>2
  <2>4. \A j \in said : log[j].type # "left"
    BY <1>2
  <2> QED
    BY <1>1, <2>1, <2>2, <2>3, <2>4
<1> QED
  BY <1>1, <1>3, <1>4 DEF LogIsBracketed

\* An announcement in its turn keeps the log in step with the threads.
LEMMA PushKeepsMatch ==
  ASSUME ServerInvariant, LogMatchesThreads, NEW c \in Clients,
         NEW type \in {"joined", "msg", "left"}, Push(type, c),
         NEW label \in {"chat", "dropEnd"}, pc' = [pc EXCEPT ![c] = label],
         label = "chat" => type # "left",
         IF type = "joined" THEN pc[c] = "announce" ELSE pc[c] \in InChat
  PROVE  LogMatchesThreads'
<1> DEFINE said(d) == {i \in DOMAIN log : log[i].from = d}
           said2(d) == {i \in DOMAIN log' : log'[i].from = d}
<1>1. /\ Len(log) \in Nat
      /\ DOMAIN log = 1 .. Len(log)
      /\ DOMAIN log' = 1 .. (Len(log) + 1)
      /\ \A i \in 1 .. Len(log) : log'[i] = log[i]
      /\ log'[Len(log) + 1].type = type
      /\ log'[Len(log) + 1].from = c
  BY PushAppends
<1>2. \A d \in Clients :
        /\ pc[d] \in Unannounced \cup {"none"} => said(d) = {}
        /\ pc[d] \in InChat => said(d) # {} /\ \A i \in said(d) : log[i].type # "left"
  BY DEF LogMatchesThreads
<1>3. pc \in [Clients -> Labels]
  BY DEF ServerInvariant, TypeOK
<1>4. ASSUME NEW d \in Clients, d # c
      PROVE  /\ pc'[d] = pc[d]
             /\ said2(d) = said(d)
             /\ \A i \in said(d) : log'[i] = log[i]
  BY <1>1, <1>3, <1>4
<1>5. said2(c) # {}
  <2>1. Len(log) + 1 \in said2(c)
    BY <1>1
  <2> QED
    BY <2>1
<1>6. pc'[c] = label
  BY <1>3
<1>7. label = "chat" => \A i \in said2(c) : log'[i].type # "left"
  BY <1>1, <1>2 DEF Unannounced
<1>8. ASSUME NEW d \in Clients
      PROVE  /\ pc'[d] \in Unannounced \cup {"none"} => said2(d) = {}
             /\ pc'[d] \in InChat => said2(d) # {} /\ \A i \in said2(d) : log'[i].type # "left"
  <2>1. CASE d = c
    BY <1>5, <1>6, <1>7, <2>1 DEF Unannounced, InChat
  <2>2. CASE d # c
    BY <1>2, <1>4, <2>2
  <2> QED
    BY <2>1, <2>2
<1> QED
  BY <1>8 DEF LogMatchesThreads

\* What a thread queues bears its nickname, as long as nothing has been lost.
LEMMA PushKeepsNames ==
  ASSUME ServerInvariant, NamesAreClaimed, LogIsNamed, NEW c \in Clients,
         NEW type \in {"joined", "msg", "left"}, Push(type, c),
         UNCHANGED <<nickname, mem>>, pc[c] \in {"announce", "parse", "leave"}
  PROVE  LogIsNamed'
<1>1. /\ Len(log) \in Nat
      /\ DOMAIN log = 1 .. Len(log)
      /\ DOMAIN log' = 1 .. (Len(log) + 1)
      /\ \A i \in 1 .. Len(log) : log'[i] = log[i]
      /\ log'[Len(log) + 1].from = c
      /\ log'[Len(log) + 1].nick = NickOf(c)
  BY PushAppends
<1>2. pc[c] \in Alive /\ pc[c] \in Named
  BY DEF Alive, Unannounced, InChat, Named
<1>3. NickOf(c) = nickname[c]
  BY <1>2, OwnStructure DEF NickOf
<1>4. nickname[c] = Null => mem[c] = "closed"
  BY <1>2 DEF NamesAreClaimed
<1>5. ASSUME NEW i \in DOMAIN log'
      PROVE  /\ log'[i].nick = nickname'[log'[i].from]
             /\ log'[i].nick = Null => mem'[log'[i].from] = "closed"
  <2>1. CASE i \in 1 .. Len(log)
    BY <1>1, <2>1 DEF LogIsNamed
  <2>2. CASE i = Len(log) + 1
    BY <1>1, <1>3, <1>4, <2>2
  <2> QED
    BY <1>1, <1>5, <2>1, <2>2
<1> QED
  BY <1>5 DEF LogIsNamed

\* The step queues nothing, and the thread of c is the only one that moves, from
\* one side of the announcements to where it may go from there.
Silent(c) ==
  /\ log' = log
  /\ \E label \in Labels :
       /\ pc' = [pc EXCEPT ![c] = label]
       /\ label \in Unannounced \cup {"none"} => pc[c] \in Unannounced \cup {"none"}
       /\ label \in InChat => pc[c] \in InChat

\* Every step is silent, or queues the announcement that is due.
LEMMA StepIsSilentOrSays ==
  ASSUME ServerInvariant, QueueOutlivesThreads, Next
  PROVE  \/ UNCHANGED <<log, pc>>
         \/ \E c \in Clients : Silent(c)
         \/ \E c \in Clients : ClientStep(c) /\ SayMove(c)
<1>0. pc \in [Clients -> Labels]
  BY DEF ServerInvariant, TypeOK
<1>1. CASE MainStep \/ PeerStep \/ Signal
  <2>1. log' = log
    BY <1>1, MainMoves DEF queueVars
  <2>2. CASE RefuseMove
    <3>1. conn \in Clients /\ pc' = [pc EXCEPT ![conn] = "exited"]
      BY <2>2 DEF RefuseMove
    <3>2. Silent(conn)
      <4>1. "exited" \in Labels /\ "exited" \notin Unannounced \cup {"none"} \cup InChat
        BY DEF Labels, Unannounced, InChat
      <4> QED
        BY <2>1, <3>1, <4>1 DEF Silent
    <3> QED
      BY <3>1, <3>2
  <2>3. CASE AppendMove
    <3>1. conn \in Clients /\ pc[conn] = "none" /\ pc' = [pc EXCEPT ![conn] = "spawned"]
      BY <2>3 DEF AppendMove
    <3>2. Silent(conn)
      BY <2>1, <3>1 DEF Silent, Labels, Alive, Unannounced, InChat
    <3> QED
      BY <3>1, <3>2
  <2>4. CASE IdleMove \/ FreeMove
    BY <2>1, <2>4 DEF IdleMove, FreeMove, Main_FreeList
  <2> QED
    BY <1>1, <2>2, <2>3, <2>4, MainMoves
<1>2. ASSUME NEW c \in Clients, ClientStep(c)
      PROVE  Silent(c) \/ (ClientStep(c) /\ SayMove(c))
  <2>0. ASSUME NEW label \in Labels, pc' = [pc EXCEPT ![c] = label], log' = log,
               label \in Unannounced => pc[c] \in Unannounced,
               label # "none", label \in InChat => pc[c] \in InChat
        PROVE  Silent(c)
    BY <2>0 DEF Silent
  <2>1. CASE QuietMove(c)
    <3>1. PICK label \in Labels : QuietLabel(c, label) /\ pc' = [pc EXCEPT ![c] = label]
      BY <2>1 DEF QuietMove
    <3>2. /\ label \in Unannounced => pc[c] \in Unannounced
          /\ label # "none"
          /\ label \in InChat => pc[c] \in InChat
      BY <3>1 DEF QuietLabel, Unannounced, InChat
    <3> QED
      BY <2>0, <2>1, <3>1, <3>2 DEF QuietMove
  <2>2. CASE AskMove(c)
    BY <2>0, <2>2 DEF AskMove, Unannounced, InChat, Labels, Alive
  <2>3. CASE Client_Name(c)
    BY <2>0, <2>3 DEF Client_Name, Goto, Unannounced, InChat, Labels, Alive, queueVars
  <2>4. CASE Client_DropReturns(c) \/ Client_Drop(c)
    <3>1. PICK label \in {"welcome", "auth", "hello", "announce", "exited"} :
            /\ pc' = [pc EXCEPT ![c] = label]
            /\ label # "exited" => pc[c] \in Unannounced
      BY <2>4, AfterIs DEF Client_DropReturns, Client_Drop, Goto, Unannounced
    <3>2. log' = log /\ label \in Labels /\ label \notin InChat /\ label # "none"
      BY <2>4, <3>1
      DEF Client_DropReturns, Client_Drop, queueVars, Labels, Alive, Unannounced, InChat
    <3>3. label \in Unannounced => pc[c] \in Unannounced
      BY <3>1 DEF Unannounced
    <3> QED
      BY <2>0, <3>1, <3>2, <3>3
  <2> QED
    BY <1>2, <2>1, <2>2, <2>3, <2>4, ClientMoves DEF Next
<1>3. ASSUME NEW c \in Clients, Client_Crash(c) PROVE UNCHANGED <<log, pc>>
  BY <1>3 DEF Client_Crash, Crash, queueVars
<1>4. CASE BcastStep \/ Bcast_Crash
  BY <1>4, BcastMoves
<1> QED
  BY <1>1, <1>2, <1>3, <1>4 DEF Next

\* The announcements stay in order, and in step with the threads.
LEMMA LogIsKept ==
  ASSUME ServerInvariant, QueueOutlivesThreads, LogMatchesThreads, LogIsBracketed, Next
  PROVE  LogMatchesThreads' /\ LogIsBracketed'
<1>0. pc \in [Clients -> Labels]
  BY DEF ServerInvariant, TypeOK
<1>1. CASE UNCHANGED <<log, pc>>
  BY <1>1 DEF LogMatchesThreads, LogIsBracketed
<1>2. ASSUME NEW c \in Clients, Silent(c) PROVE LogMatchesThreads' /\ LogIsBracketed'
  <2>1. PICK label \in Labels :
          /\ pc' = [pc EXCEPT ![c] = label]
          /\ label \in Unannounced \cup {"none"} => pc[c] \in Unannounced \cup {"none"}
          /\ label \in InChat => pc[c] \in InChat
    BY <1>2 DEF Silent
  <2>2. log' = log
    BY <1>2 DEF Silent
  <2>3. LogMatchesThreads'
    BY <1>0, <2>1, <2>2 DEF LogMatchesThreads
  <2> QED
    BY <2>2, <2>3 DEF LogIsBracketed
<1>3. ASSUME NEW c \in Clients, SayMove(c) PROVE LogMatchesThreads' /\ LogIsBracketed'
  <2>1. PICK type \in {"joined", "msg", "left"}, label \in {"chat", "dropEnd"} :
          /\ Push(type, c)
          /\ pc' = [pc EXCEPT ![c] = label]
          /\ label = "chat" => type # "left"
          /\ IF type = "joined" THEN pc[c] = "announce" ELSE pc[c] \in InChat
    BY <1>3 DEF SayMove, InChat
  <2> QED
    BY <2>1, PushKeepsMatch, PushKeepsBracketing
<1> QED
  BY <1>1, <1>2, <1>3, StepIsSilentOrSays

\* The log has entries only, of connections.
LEMMA LogType ==
  ASSUME ServerInvariant, NEW i \in DOMAIN log
  PROVE  log[i] \in Entry /\ log[i].from \in Clients
<1>1. log \in Seq(Entry)
  BY DEF ServerInvariant, TypeOK, QueueTypeOK
<1>2. log[i] \in Entry
  BY <1>1
<1> QED
  BY <1>2 DEF Entry

\* A step that queues nothing and writes no nickname of one who has spoken keeps
\* the names in the log, if what was closed stays closed.
LEMMA QuietKeepsNames ==
  ASSUME ServerInvariant, LogIsNamed, log' = log,
         \A d \in Clients : mem[d] = "closed" => mem'[d] = "closed",
         \A i \in DOMAIN log : nickname'[log[i].from] = nickname[log[i].from]
  PROVE  LogIsNamed'
BY LogType DEF LogIsNamed

\* The names in the log stay right until something is lost.
LEMMA NamesInLogAreKept ==
  ASSUME ServerInvariant, QueueOutlivesThreads, Sound => NamesAreClaimed,
         LogMatchesThreads, Sound => LogIsNamed, Next
  PROVE  (Sound => LogIsNamed)'
<1> SUFFICES ASSUME Sound' PROVE LogIsNamed'
  OBVIOUS
<1>0. NamesAreClaimed /\ LogIsNamed
  BY SoundBefore
<1>1. mem \in [Clients -> {"none", "live", "closed", "freed", "lost"}]
  BY DEF ServerInvariant, TypeOK, ListTypeOK
\* A silent step that writes no nickname.
<1>2. ASSUME UNCHANGED <<log, nickname>>,
             \A d \in Clients : mem[d] = "closed" => mem'[d] = "closed"
      PROVE  LogIsNamed'
  BY <1>0, <1>2, QuietKeepsNames
<1>3. CASE MainStep \/ PeerStep \/ Signal
  <2>1. UNCHANGED <<log, nickname>>
    BY <1>3, MainMoves DEF sessionVars, queueVars
  <2>2. CASE mem' = mem
    BY <1>2, <2>1, <2>2
  <2>3. CASE AppendMove
    <3>1. conn \in Clients /\ mem' = [mem EXCEPT ![conn] = "live"] /\ mem[conn] = "none"
      BY <2>3 DEF AppendMove, ServerInvariant, MemoryBelongsToThread
    <3> QED
      BY <1>1, <1>2, <2>1, <3>1
  <2>4. CASE FreeMove
    BY <2>2, <2>4, MainLosesNothing
  <2> QED
    BY <1>3, <2>2, <2>3, <2>4, MainMoves DEF RefuseMove, IdleMove
<1>4. ASSUME NEW c \in Clients, ClientStep(c) PROVE LogIsNamed'
  <2>0. pc[c] \in Alive
    BY <1>4, ThreadMoves DEF ThreadMove
  <2>1. CASE QuietMove(c)
    BY <1>2, <2>1 DEF QuietMove
  <2>2. CASE AskMove(c)
    BY <1>2, <2>2 DEF AskMove
  <2>3. CASE SayMove(c)
    <3>1. PICK type \in {"joined", "msg", "left"} :
            Push(type, c) /\ pc[c] \in {"announce", "parse", "leave"}
      BY <2>3 DEF SayMove
    <3>2. UNCHANGED <<nickname, mem>>
      BY <2>3 DEF SayMove
    <3> QED
      BY <1>0, <3>1, <3>2, PushKeepsNames
  <2>4. CASE Client_Name(c)
    <3>1. View(c) = c /\ c # Null
      BY <1>0, <2>0, OwnStructure
    <3>2. /\ nickname' = [nickname EXCEPT ![c] = want[c]]
          /\ UNCHANGED <<log, mem>>
          /\ pc[c] \in Unannounced
      BY <2>4, <3>1 DEF Client_Name, listVars, queueVars, Unannounced
    <3>3. \A i \in DOMAIN log : log[i].from # c
      BY <3>2 DEF LogMatchesThreads
    <3>4. nickname \in [Clients -> Nicks \cup {Null}]
      BY DEF ServerInvariant, TypeOK, SessionTypeOK
    <3>5. \A i \in DOMAIN log : nickname'[log[i].from] = nickname[log[i].from]
      BY <3>2, <3>3, <3>4, LogType
    <3> QED
      BY <1>0, <3>2, <3>5, QuietKeepsNames
  <2>5. CASE Client_DropReturns(c) \/ Client_Drop(c)
    <3>1. UNCHANGED <<log, nickname>>
      BY <2>5 DEF Client_DropReturns, Client_Drop, sessionVars, queueVars
    <3>2. \/ mem' = [mem EXCEPT ![c] = "closed"]
          \/ mem[c] = "live" /\ mem' = [mem EXCEPT ![c] = "freed"]
      BY <1>0, <2>0, <2>5, DropsItsOwn
    <3> QED
      BY <1>1, <1>2, <3>1, <3>2
  <2> QED
    BY <1>4, <2>1, <2>2, <2>3, <2>4, <2>5, ClientMoves DEF Next
<1>5. ASSUME NEW c \in Clients, Client_Crash(c) PROVE UNCHANGED <<log, nickname, mem>>
  BY <1>5 DEF Client_Crash, Crash, listVars, sessionVars, queueVars
<1>6. CASE BcastStep \/ Bcast_Crash
  <2>1. UNCHANGED <<log, nickname>>
    BY <1>6, BcastMoves DEF sessionVars
  <2>2. \A d \in Clients : mem[d] = "closed" => mem'[d] = "closed"
    BY <1>1, <1>6, BcastLosesNothing
  <2> QED
    BY <1>2, <2>1, <2>2
<1> QED
  BY <1>2, <1>3, <1>4, <1>5, <1>6 DEF Next

-----------------------------------------------------------------------------
(* Who receives. *)

\* A structure that is allocated after a step of another thread than the
\* broadcast thread, in the block that this thread holds, was there before or
\* has come to that block later.
LEMMA OthersKeepHandle ==
  ASSUME ServerInvariant, ThreadsHaveData, HandleIsNamed, Next,
         UNCHANGED <<bpc, handle>>
  PROVE  HandleIsNamed'
<1> SUFFICES ASSUME bpc \in {"send", "drop"}, NEW c \in Clients, Held(c)',
                    addr'[c] = addr'[handle]
             PROVE  nickname'[c] # Null \/ Recycled(c)'
  BY DEF HandleIsNamed
<1>0. /\ handle \in Clients
      /\ mem[handle] # "none"
      /\ BlocksAreReused
  BY DEF ServerInvariant, HandleIsClient
<1>1. /\ mem \in [Clients -> {"none", "live", "closed", "freed", "lost"}]
      /\ addr \in [Clients -> Clients]
  BY DEF ServerInvariant, TypeOK, ListTypeOK
<1>2. nickname[c] # Null => nickname'[c] # Null
  BY NicksStay
<1>3. CASE addr' = addr /\ Held(c)
  BY <1>0, <1>2, <1>3 DEF HandleIsNamed, Recycled
<1>4. CASE BcastStep \/ Bcast_Crash \/ \E d \in Clients : ClientStep(d) \/ Client_Crash(d)
  BY <1>3, <1>4, OthersBringNothing
<1>5. CASE MainStep \/ PeerStep \/ Signal
  <2>1. CASE AppendMove
    <3>1. PICK block \in Clients : addr' = [addr EXCEPT ![conn] = block]
      BY <2>1 DEF AppendMove
    <3>2. conn \in Clients /\ mem[conn] = "none" /\ mem' = [mem EXCEPT ![conn] = "live"]
      BY <2>1 DEF AppendMove, ServerInvariant, MemoryBelongsToThread
    <3>3. addr'[handle] = addr[handle]
      BY <1>0, <1>1, <3>1, <3>2
    <3>4. CASE c = conn
      <4>1. addr[handle] # conn
        BY <1>0, <3>2 DEF BlocksAreReused, Recycled
      <4> QED
        BY <3>3, <3>4, <4>1 DEF Recycled
    <3>5. CASE c # conn
      <4>1. Held(c) /\ addr'[c] = addr[c]
        BY <1>1, <3>1, <3>2, <3>5 DEF Held
      <4> QED
        BY <1>0, <1>2, <3>3, <4>1 DEF HandleIsNamed, Recycled
    <3> QED
      BY <3>4, <3>5
  <2>2. CASE FreeMove
    <3>1. addr' = addr /\ (Held(c)' => Held(c))
      BY <2>2 DEF FreeMove, Main_FreeList, Held
    <3> QED
      BY <1>3, <3>1
  <2>3. CASE RefuseMove \/ IdleMove
    BY <1>3, <2>3 DEF RefuseMove, IdleMove, Held
  <2> QED
    BY <1>5, <2>1, <2>2, <2>3, MainMoves
<1> QED
  BY <1>4, <1>5 DEF Next

\* The broadcast thread sends only after it has seen a nickname, or memory that
\* belongs to no client.
LEMMA HandleIsKept ==
  ASSUME ServerInvariant, ThreadsHaveData, HandleIsNamed, Next
  PROVE  HandleIsNamed'
<1>1. CASE UNCHANGED <<bpc, handle>>
  BY <1>1, OthersKeepHandle
<1>2. CASE BcastStep
  <2>0. UNCHANGED <<addr, nickname>>
    BY <1>2, BcastMoves DEF sessionVars
  <2>1. CASE Bcast_Named
    <3>0. mem' = mem /\ handle' = handle /\ bpc = "name"
      BY <2>1 DEF Bcast_Named, listVars
    <3>1. handle \in Clients /\ TypeOK /\ BlocksAreReused
      BY <3>0 DEF ServerInvariant, HandleIsClient
    <3>2. ASSUME NEW c \in Clients, Held(c), addr[c] = addr[handle]
          PROVE  nickname[c] # Null
      <4>1. View(handle) # Null
        BY <3>1, <3>2, ViewType
      <4>2. PICK v \in Clients : v = View(handle) /\ Held(v) /\ addr[v] = addr[handle]
        BY <3>1, <4>1, ViewType
      <4>3. v = c
        BY <3>1, <3>2, <4>2 DEF BlocksAreReused
      <4>4. nickname[v] # Null
        BY <2>1, <4>1, <4>2 DEF Bcast_Named, Authenticated, NickOf
      <4> QED
        BY <4>3, <4>4
    <3> QED
      BY <2>0, <3>0, <3>2 DEF HandleIsNamed, Held
  <2>2. CASE Bcast_SendFails
    <3>1. UNCHANGED <<mem, handle>> /\ bpc = "send"
      BY <2>2 DEF Bcast_SendFails, listVars
    <3> QED
      BY <2>0, <3>1 DEF HandleIsNamed, Held, Recycled
  <2>3. CASE bpc' \notin {"send", "drop"}
    BY <2>3 DEF HandleIsNamed
  <2> QED
    BY <1>2, <2>1, <2>2, <2>3 DEF BcastStep, Bcast_Pop, Bcast_Rewind, Bcast_First,
       Bcast_Rewound, Bcast_Test, Bcast_Next, Bcast_Skip, Bcast_Send, Bcast_Drop,
       Bcast_DropReturns, Bcast_Sleep, BcastGoto, ItemDone, Continue
<1> QED
  BY <1>1, <1>2 DEF Next, MainStep, PeerStep, Signal, ClientStep, Client_Crash, Bcast_Crash,
     Crash, bcastVars

\* Nobody receives without a nickname, but who was given a used block.
LEMMA ReceiversAreKept ==
  ASSUME ServerInvariant, ThreadsHaveData, HandleIsNamed, OnlyAuthenticatedReceive, Next
  PROVE  OnlyAuthenticatedReceive'
<1>0. /\ got \in [Observed -> Seq(Nat)]
      /\ addr \in [Clients -> Clients]
      /\ Observed \subseteq Clients
      /\ BlocksAreReused
  BY ObservedAssumption DEF ServerInvariant, TypeOK, BcastTypeOK
<1>1. \A c \in Clients : nickname[c] # Null => nickname'[c] # Null
  BY NicksStay
<1>2. CASE UNCHANGED <<got, addr>>
  BY <1>0, <1>1, <1>2 DEF OnlyAuthenticatedReceive, Recycled
<1>3. CASE Bcast_Send /\ UNCHANGED <<addr, nickname>>
  <2>1. handle \in Clients /\ TypeOK /\ bpc = "send"
    BY <1>3 DEF Bcast_Send, ServerInvariant, HandleIsClient
  <2>2. PICK d \in Clients : d = View(handle) /\ Held(d) /\ addr[d] = addr[handle]
    BY <1>3, <2>1, ViewType DEF Bcast_Send, Usable
  <2>3. nickname[d] # Null \/ Recycled(d)
    BY <2>1, <2>2 DEF HandleIsNamed
  <2>4. got' = [got EXCEPT ![d] = Append(got[d], item)]
    BY <1>3, <2>2 DEF Bcast_Send
  <2> QED
    BY <1>0, <1>3, <2>3, <2>4 DEF OnlyAuthenticatedReceive, Recycled
<1>4. CASE AppendMove /\ got' = got
  <2>1. PICK block \in Clients : addr' = [addr EXCEPT ![conn] = block]
    BY <1>4 DEF AppendMove
  <2>2. conn \in Clients /\ mem[conn] = "none"
    BY <1>4 DEF AppendMove, ServerInvariant, MemoryBelongsToThread
  <2>3. ~Recycled(conn)
    BY <1>0, <2>2 DEF BlocksAreReused
  <2> QED
    BY <1>0, <1>1, <1>4, <2>1, <2>2, <2>3 DEF OnlyAuthenticatedReceive, Recycled
<1>5. CASE MainStep \/ PeerStep \/ Signal
  <2>1. got' = got
    BY <1>5, MainMoves DEF bcastVars
  <2> QED
    BY <1>2, <1>4, <1>5, <2>1, MainMoves
    DEF RefuseMove, IdleMove, FreeMove, Main_FreeList
<1>6. ASSUME NEW c \in Clients, ClientStep(c) \/ Client_Crash(c) PROVE UNCHANGED <<got, addr>>
  BY <1>6 DEF ClientStep, Client_Crash, Crash, bcastVars
<1>7. CASE Bcast_Crash
  BY <1>2, <1>7 DEF Bcast_Crash, Crash, bcastVars
<1>8. CASE BcastStep
  <2>1. UNCHANGED <<addr, nickname>>
    BY <1>8, BcastMoves DEF sessionVars
  <2> QED
    BY <1>2, <1>3, <1>8, <2>1 DEF BcastStep, Bcast_Pop, Bcast_Rewind, Bcast_First,
       Bcast_Rewound, Bcast_Test, Bcast_Next, Bcast_Skip, Bcast_Named, Bcast_SendFails,
       Bcast_Drop, Bcast_DropReturns, Bcast_Sleep
<1> QED
  BY <1>2, <1>5, <1>6, <1>7, <1>8 DEF Next

\* The session invariant holds in every state of the server.
THEOREM SessionInvariantHolds == Spec => []SessionInvariant
<1>1. Init => SessionInvariant
  <2> SUFFICES ASSUME Init PROVE SessionInvariant
    OBVIOUS
  <2>1. QueueOutlivesThreads /\ ThreadsHaveData
    BY DEF Init, QueueOutlivesThreads, ThreadsHaveData
  <2>2. NamesAreClaimed
    BY DEF Init, NamesAreClaimed, Unnamed, Named, InChat, Alive, Unannounced
  <2>3. LogMatchesThreads
    BY DEF Init, LogMatchesThreads, InChat
  <2>4. SessionBracketing /\ OnlyAuthenticatedReceive /\ HandleIsNamed
    BY DEF Init, SessionBracketing, OnlyAuthenticatedReceive, HandleIsNamed
  <2> QED
    BY <2>1, <2>2, <2>3, <2>4 DEF SessionInvariant
<1>2. ServerInvariant /\ SessionInvariant /\ [Next]_vars => SessionInvariant'
  <2> SUFFICES ASSUME ServerInvariant, SessionInvariant, [Next]_vars
               PROVE  SessionInvariant'
    OBVIOUS
  <2>0. /\ QueueOutlivesThreads /\ ThreadsHaveData /\ LogMatchesThreads
        /\ Sound => NamesAreClaimed
        /\ LogIsBracketed
        /\ Sound => LogIsNamed
        /\ HandleIsNamed /\ OnlyAuthenticatedReceive
    BY BracketingParts DEF SessionInvariant
  <2>1. CASE Next
    <3>1. QueueOutlivesThreads' /\ ThreadsHaveData'
      BY <2>0, <2>1, QueueIsKept, DataIsKept
    <3>2. (Sound => NamesAreClaimed)'
      BY <2>0, <2>1, NamesAreKept
    <3>3. LogMatchesThreads' /\ LogIsBracketed'
      BY <2>0, <2>1, LogIsKept
    <3>4. (Sound => LogIsNamed)'
      BY <2>0, <2>1, NamesInLogAreKept
    <3>5. SessionBracketing'
      BY <3>3, <3>4, BracketingParts, PTL
    <3>6. HandleIsNamed' /\ OnlyAuthenticatedReceive'
      BY <2>0, <2>1, HandleIsKept, ReceiversAreKept
    <3> QED
      BY <3>1, <3>2, <3>3, <3>5, <3>6 DEF SessionInvariant
  <2>2. CASE UNCHANGED vars
    <3>1. UNCHANGED <<process, heap, mainPc, conn, clientsLock, mem, addr, threadID, pc,
                      nickname, want, log, bpc, handle, got>>
      BY <2>2 DEF vars, processVars, mainVars, listVars, sessionVars, queueVars, bcastVars
    <3>2. QueueOutlivesThreads' /\ ThreadsHaveData'
      BY <2>0, <3>1 DEF QueueOutlivesThreads, ThreadsHaveData
    <3>3. (Sound => NamesAreClaimed)'
      BY <2>0, <3>1 DEF Sound, NamesAreClaimed, Held
    <3>4. LogMatchesThreads'
      BY <2>0, <3>1 DEF LogMatchesThreads
    <3>5. SessionBracketing'
      BY <3>1 DEF SessionInvariant, SessionBracketing, Sound
    <3>6. HandleIsNamed' /\ OnlyAuthenticatedReceive'
      BY <2>0, <3>1 DEF HandleIsNamed, OnlyAuthenticatedReceive, Held, Recycled
    <3> QED
      BY <3>2, <3>3, <3>4, <3>5, <3>6 DEF SessionInvariant
  <2> QED
    BY <2>1, <2>2
<1> QED
  BY <1>1, <1>2, ServerInvariantHolds, PTL DEF Spec

\* Every thread announces its client, then talks, then says that it has left,
\* and until a structure is lost the messages bear the right nickname.
THEOREM SessionsAreBracketed == Spec => []SessionBracketing
BY SessionInvariantHolds, PTL DEF SessionInvariant

\* Nothing is sent to a connection without a nickname, unless its structure was
\* given a block that another connection had before.
THEOREM OnlyNamedReceive == Spec => []OnlyAuthenticatedReceive
BY SessionInvariantHolds, PTL DEF SessionInvariant

-----------------------------------------------------------------------------
(* The order of the broadcasts. *)

\* The invariants of the order of delivery.
OrderInvariant == QueueIsOrdered /\ SentBeforeQueue /\ DeliveryOrder

\* Appending to a sequence adds one element to its set.
LEMMA AppendSet ==
  ASSUME NEW S, NEW s \in Seq(S), NEW x \in S
  PROVE  /\ Append(s, x) \in Seq(S)
         /\ Len(s) \in Nat
         /\ DOMAIN s = 1 .. Len(s)
         /\ DOMAIN Append(s, x) = 1 .. (Len(s) + 1)
         /\ \A i \in 1 .. Len(s) : Append(s, x)[i] = s[i]
         /\ Append(s, x)[Len(s) + 1] = x
         /\ ToSet(Append(s, x)) = ToSet(s) \cup {x}
<1>1. /\ Append(s, x) \in Seq(S)
      /\ Len(s) \in Nat
      /\ DOMAIN s = 1 .. Len(s)
      /\ DOMAIN Append(s, x) = 1 .. (Len(s) + 1)
      /\ \A i \in 1 .. Len(s) : Append(s, x)[i] = s[i]
      /\ Append(s, x)[Len(s) + 1] = x
  BY AppendProperties, LenProperties
<1>2. ToSet(Append(s, x)) = ToSet(s) \cup {x}
  BY <1>1 DEF ToSet
<1> QED
  BY <1>1, <1>2

\* The types that the order is about.
LEMMA OrderTypes ==
  ASSUME ServerInvariant
  PROVE  /\ messages \in Seq(Nat)
         /\ log \in Seq(Entry)
         /\ Len(log) \in Nat
         /\ item \in Nat
         /\ got \in [Observed -> Seq(Nat)]
         /\ \A c \in Observed : ToSet(got[c]) \subseteq Nat
         /\ \A i \in DOMAIN messages : messages[i] \in Nat
<1>1. /\ messages \in Seq(Nat) /\ log \in Seq(Entry) /\ item \in Nat
      /\ got \in [Observed -> Seq(Nat)]
  BY DEF ServerInvariant, TypeOK, QueueTypeOK, BcastTypeOK
<1>2. \A s \in Seq(Nat) : ToSet(s) \subseteq Nat
  BY DEF ToSet
<1> QED
  BY <1>1, <1>2, LenProperties

\* A step that leaves the queue and the broadcast thread's message alone keeps
\* the order.
LEMMA StutterKeepsOrder ==
  ASSUME OrderInvariant, UNCHANGED <<messages, log, bpc, item, got>>
  PROVE  OrderInvariant'
BY DEF OrderInvariant, QueueIsOrdered, SentBeforeQueue, DeliveryOrder

\* The same, if the broadcast thread goes from a message on with that message.
LEMMA SameMessageKeepsOrder ==
  ASSUME OrderInvariant, UNCHANGED <<messages, log, item, got>>,
         \/ bpc' = "exited"
         \/ /\ bpc \in {"rewind", "first", "rewound", "iter", "next", "name", "send", "drop"}
            /\ bpc' \in {"rewind", "first", "rewound", "iter", "next", "name", "send", "drop"}
         \/ bpc \in {"pop", "sleep"} /\ bpc' \in {"pop", "sleep"}
  PROVE  OrderInvariant'
BY DEF OrderInvariant, QueueIsOrdered, SentBeforeQueue, DeliveryOrder

\* A pushed message comes after all others.
LEMMA PushKeepsOrder ==
  ASSUME ServerInvariant, OrderInvariant, UNCHANGED <<bpc, item, got>>,
         NEW type \in {"joined", "msg", "left"}, NEW c \in Clients, Push(type, c)
  PROVE  OrderInvariant'
<1>1. /\ Len(log) \in Nat /\ Len(log') = Len(log) + 1
  BY PushAppends
<1>2. /\ messages' = Append(messages, Len(log) + 1)
      /\ DOMAIN messages = 1 .. Len(messages)
      /\ Len(messages) \in Nat
      /\ DOMAIN messages' = 1 .. (Len(messages) + 1)
      /\ \A i \in 1 .. Len(messages) : messages'[i] = messages[i]
      /\ messages'[Len(messages) + 1] = Len(log) + 1
  BY <1>1, OrderTypes, AppendSet DEF Push
<1>3. QueueIsOrdered'
  BY <1>1, <1>2, OrderTypes DEF OrderInvariant, QueueIsOrdered
<1>4. SentBeforeQueue'
  <2> SUFFICES ASSUME NEW d \in Observed, NEW k \in ToSet(got[d])
               PROVE  /\ k <= Len(log')
                      /\ item # 0 => k <= item
                      /\ \A i \in DOMAIN messages' : k < messages'[i]
    BY DEF SentBeforeQueue
  <2>1. /\ k \in Nat /\ k <= Len(log) /\ (item # 0 => k <= item)
        /\ \A i \in DOMAIN messages : k < messages[i]
    BY OrderTypes DEF OrderInvariant, SentBeforeQueue
  <2>2. ASSUME NEW i \in DOMAIN messages' PROVE k < messages'[i]
    BY <1>1, <1>2, <2>1
  <2> QED
    BY <1>1, <2>1, <2>2
<1>5. DeliveryOrder'
  BY DEF OrderInvariant, DeliveryOrder
<1> QED
  BY <1>3, <1>4, <1>5 DEF OrderInvariant

\* CQueue_tryPop takes the message that comes first.
LEMMA PopKeepsOrder ==
  ASSUME ServerInvariant, OrderInvariant, Bcast_Pop
  PROVE  OrderInvariant'
<1>1. CASE messages = <<>>
  <2>1. UNCHANGED <<messages, log, item, got>> /\ bpc = "pop" /\ bpc' = "sleep"
    BY <1>1 DEF Bcast_Pop, BcastGoto
  <2> QED
    BY <2>1, SameMessageKeepsOrder
<1>2. CASE messages # <<>>
  <2>1. /\ bpc' = "rewind" /\ item' = Head(messages) /\ messages' = Tail(messages)
        /\ UNCHANGED <<log, got>>
    BY <1>2 DEF Bcast_Pop, BcastGoto
  <2>2. messages \in Seq(Nat)
    BY OrderTypes
  <2>3. /\ Len(messages) \in Nat /\ Len(messages) >= 1
        /\ DOMAIN messages = 1 .. Len(messages)
        /\ item' = messages[1]
        /\ DOMAIN messages' = 1 .. (Len(messages) - 1)
        /\ \A i \in 1 .. (Len(messages) - 1) : messages'[i] = messages[i + 1]
    <3>1. Len(messages) \in Nat /\ DOMAIN messages = 1 .. Len(messages)
      BY <2>2
    <3>2. Len(messages) >= 1
      BY <1>2, <2>2, <3>1, EmptySeq
    <3>3. /\ Len(Tail(messages)) = Len(messages) - 1
          /\ Tail(messages) \in Seq(Nat)
          /\ \A i \in 1 .. (Len(messages) - 1) : Tail(messages)[i] = messages[i + 1]
      BY <1>2, <2>2, HeadTailProperties
    <3>4. Head(messages) = messages[1]
      BY <2>2
    <3>5. DOMAIN Tail(messages) = 1 .. (Len(messages) - 1)
      BY <3>3
    <3> QED
      BY <2>1, <3>1, <3>2, <3>3, <3>4, <3>5
  <2>4. /\ \A i \in 1 .. Len(messages) :
             messages[i] \in Nat /\ item < messages[i] /\ messages[i] <= Len(log)
        /\ \A i, j \in 1 .. Len(messages) : i < j => messages[i] < messages[j]
    BY <2>3, OrderTypes DEF OrderInvariant, QueueIsOrdered
  <2>5. QueueIsOrdered'
    <3>1. ASSUME NEW i \in DOMAIN messages'
          PROVE  item' < messages'[i] /\ messages'[i] <= Len(log')
      BY <2>1, <2>3, <2>4
    <3>2. ASSUME NEW i \in DOMAIN messages', NEW j \in DOMAIN messages', i < j
          PROVE  messages'[i] < messages'[j]
      <4>1. i + 1 \in 1 .. Len(messages) /\ j + 1 \in 1 .. Len(messages) /\ i + 1 < j + 1
        BY <2>3, <3>2
      <4> QED
        BY <2>3, <2>4, <4>1
    <3>3. item' <= Len(log') /\ item' # 0
      BY <2>1, <2>3, <2>4, OrderTypes
    <3> QED
      BY <2>1, <3>1, <3>2, <3>3 DEF QueueIsOrdered
  <2>6. SentBeforeQueue'
    <3> SUFFICES ASSUME NEW d \in Observed, NEW k \in ToSet(got[d])
                 PROVE  /\ k <= Len(log)
                        /\ k <= item'
                        /\ \A i \in DOMAIN messages' : k < messages'[i]
      BY <2>1 DEF SentBeforeQueue
    <3>1. k \in Nat /\ k <= Len(log) /\ \A i \in 1 .. Len(messages) : k < messages[i]
      BY <2>3, OrderTypes DEF OrderInvariant, SentBeforeQueue
    <3>2. k <= item'
      BY <2>3, <2>4, <3>1
    <3>3. ASSUME NEW i \in DOMAIN messages' PROVE k < messages'[i]
      BY <2>3, <3>1
    <3> QED
      BY <3>1, <3>2, <3>3
  <2>7. DeliveryOrder'
    BY <2>1 DEF OrderInvariant, DeliveryOrder
  <2> QED
    BY <2>5, <2>6, <2>7 DEF OrderInvariant
<1> QED
  BY <1>1, <1>2

\* Sending the message in hand comes after all that has been sent before.
LEMMA SendKeepsOrder ==
  ASSUME ServerInvariant, OrderInvariant, Bcast_Send
  PROVE  OrderInvariant'
<1>0. /\ bpc = "send" /\ bpc' = "iter" /\ UNCHANGED <<messages, log, item>>
  BY DEF Bcast_Send, Continue, BcastGoto, queueVars
<1>1. CASE View(handle) \notin Observed
  <2>1. got' = got
    BY <1>1, OrderTypes DEF Bcast_Send
  <2> QED
    BY <1>0, <2>1, SameMessageKeepsOrder
<1> SUFFICES ASSUME View(handle) \in Observed PROVE OrderInvariant'
  BY <1>1
<1>2. PICK d \in Observed : got' = [got EXCEPT ![d] = Append(got[d], item)]
  BY DEF Bcast_Send
<1>3. item # 0 /\ item <= Len(log) /\ \A i \in DOMAIN messages : item < messages[i]
  BY <1>0 DEF OrderInvariant, QueueIsOrdered
<1>4. QueueIsOrdered'
  BY <1>0 DEF OrderInvariant, QueueIsOrdered
<1>5. /\ got'[d] = Append(got[d], item)
      /\ \A e \in Observed \ {d} : got'[e] = got[e]
      /\ got[d] \in Seq(Nat) /\ item \in Nat
  BY <1>2, OrderTypes
<1>6. /\ Len(got[d]) \in Nat
      /\ DOMAIN got[d] = 1 .. Len(got[d])
      /\ DOMAIN got'[d] = 1 .. (Len(got[d]) + 1)
      /\ \A i \in 1 .. Len(got[d]) : got'[d][i] = got[d][i]
      /\ got'[d][Len(got[d]) + 1] = item
      /\ ToSet(got'[d]) = ToSet(got[d]) \cup {item}
  BY <1>5, AppendSet
<1>7. SentBeforeQueue'
  <2> SUFFICES ASSUME NEW e \in Observed, NEW k \in ToSet(got'[e])
               PROVE  /\ k <= Len(log)
                      /\ k <= item
                      /\ \A i \in DOMAIN messages : k < messages[i]
    BY <1>0 DEF SentBeforeQueue
  <2>1. k = item \/ k \in ToSet(got[e])
    BY <1>5, <1>6
  <2>2. CASE k = item
    BY <1>3, <2>2, OrderTypes
  <2>3. CASE k \in ToSet(got[e])
    BY <1>3, <2>3 DEF OrderInvariant, SentBeforeQueue
  <2> QED
    BY <2>1, <2>2, <2>3
<1>8. DeliveryOrder'
  <2> SUFFICES ASSUME NEW e \in Observed, NEW i \in DOMAIN got'[e], NEW j \in DOMAIN got'[e],
                      i < j
               PROVE  got'[e][i] <= got'[e][j]
    BY DEF DeliveryOrder
  <2>1. CASE e # d
    BY <1>5, <2>1 DEF OrderInvariant, DeliveryOrder
  <2>2. CASE e = d /\ j \in 1 .. Len(got[d])
    <3>1. i \in 1 .. Len(got[d])
      BY <1>6, <2>2
    <3>2. got[d][i] <= got[d][j]
      BY <1>6, <2>2, <3>1 DEF OrderInvariant, DeliveryOrder
    <3> QED
      BY <1>6, <2>2, <3>1, <3>2
  <2>3. CASE e = d /\ j = Len(got[d]) + 1
    <3>1. i \in 1 .. Len(got[d])
      BY <1>6, <2>3
    <3>2. got[d][i] \in ToSet(got[d])
      BY <1>6, <3>1 DEF ToSet
    <3>3. got[d][i] <= item
      BY <1>3, <3>2 DEF OrderInvariant, SentBeforeQueue
    <3> QED
      BY <1>6, <2>3, <3>1, <3>3
  <2> QED
    BY <1>6, <2>1, <2>2, <2>3
<1> QED
  BY <1>4, <1>7, <1>8 DEF OrderInvariant

\* A message that has been sent around is forgotten.
LEMMA DoneKeepsOrder ==
  ASSUME ServerInvariant, OrderInvariant, UNCHANGED <<messages, log, got>>, ItemDone
  PROVE  OrderInvariant'
<1>1. bpc' = "sleep" /\ item' = 0
  BY DEF ItemDone, BcastGoto
<1>2. QueueIsOrdered'
  BY <1>1, OrderTypes DEF OrderInvariant, QueueIsOrdered
<1>3. SentBeforeQueue' /\ DeliveryOrder'
  BY <1>1 DEF OrderInvariant, SentBeforeQueue, DeliveryOrder
<1> QED
  BY <1>2, <1>3 DEF OrderInvariant

\* The broadcast thread keeps the order.
LEMMA BcastKeepsOrder ==
  ASSUME ServerInvariant, OrderInvariant, BcastStep \/ Bcast_Crash
  PROVE  OrderInvariant'
<1> USE DEF BcastGoto, Continue, queueVars
<1>1. CASE Bcast_Pop
  BY <1>1, PopKeepsOrder
<1>2. CASE Bcast_Rewind
  BY <1>2, SameMessageKeepsOrder DEF Bcast_Rewind
<1>11. CASE Bcast_First \/ Bcast_Rewound \/ Bcast_Named
  BY <1>11, SameMessageKeepsOrder DEF Bcast_First, Bcast_Rewound, Bcast_Named
<1>3. CASE Bcast_Test
  BY <1>3, SameMessageKeepsOrder, DoneKeepsOrder DEF Bcast_Test
<1>4. CASE Bcast_Next
  BY <1>4, SameMessageKeepsOrder, DoneKeepsOrder DEF Bcast_Next
<1>5. CASE Bcast_Skip
  BY <1>5, SameMessageKeepsOrder DEF Bcast_Skip
<1>6. CASE Bcast_Send
  BY <1>6, SendKeepsOrder
<1>7. CASE Bcast_SendFails
  BY <1>7, SameMessageKeepsOrder DEF Bcast_SendFails
<1>8. CASE Bcast_Drop \/ Bcast_DropReturns
  BY <1>8, SameMessageKeepsOrder DEF Bcast_Drop, Bcast_DropReturns
<1>9. CASE Bcast_Sleep
  BY <1>9, SameMessageKeepsOrder DEF Bcast_Sleep
<1>10. CASE Bcast_Crash
  BY <1>10, StutterKeepsOrder DEF Bcast_Crash, Crash, bcastVars
<1> QED
  BY <1>1, <1>2, <1>3, <1>4, <1>5, <1>6, <1>7, <1>8, <1>9, <1>10, <1>11 DEF BcastStep

\* The other threads keep the order.
LEMMA OthersKeepOrder ==
  ASSUME ServerInvariant, SessionInvariant, OrderInvariant, process = "running",
         \/ MainStep \/ PeerStep \/ Signal
         \/ \E c \in Clients : ClientStep(c) \/ Client_Crash(c)
  PROVE  OrderInvariant'
<1>1. CASE MainStep \/ PeerStep \/ Signal
  BY <1>1, MainMoves, StutterKeepsOrder DEF queueVars, bcastVars
<1>2. ASSUME NEW c \in Clients, Client_Crash(c) PROVE OrderInvariant'
  BY <1>2, StutterKeepsOrder DEF Client_Crash, Crash, queueVars, bcastVars
<1>3. ASSUME NEW c \in Clients, ClientStep(c) PROVE OrderInvariant'
  <2>1. UNCHANGED <<bpc, item, got>>
    BY <1>3 DEF ClientStep, bcastVars
  <2>2. CASE SayMove(c)
    BY <2>1, <2>2, PushKeepsOrder DEF SayMove
  <2>3. CASE UNCHANGED <<messages, log>>
    BY <2>1, <2>3, StutterKeepsOrder
  <2> QED
    BY <1>3, <2>2, <2>3, ClientMoves
    DEF SessionInvariant, QuietMove, AskMove, Client_Name, Client_DropReturns, Client_Drop,
        queueVars
<1> QED
  BY <1>1, <1>2, <1>3

-----------------------------------------------------------------------------
(* Every message is delivered exactly once. *)

\* What ExactDelivery says of a connection.
Served(c) ==
  /\ IsInjective(got[c])
  /\ \A k \in DOMAIN log : Finished(k) /\ JoinedBy(c, k) => k \in ToSet(got[c])

\* All that the proof of the delivery needs.
AllInvariants ==
  /\ ServerInvariant
  /\ SessionInvariant
  /\ StopsWhenTold
  /\ OrderInvariant
  /\ Undisturbed => RoundIsExact
  /\ ExactDelivery

\* A server that is undisturbed has not been disturbed before.
LEMMA DisturbanceStays ==
  ASSUME AllInvariants, Next, Undisturbed'
  PROVE  Undisturbed
<1>1. ~terminate
  <2> USE DEF Undisturbed, processVars
  <2>1. CASE MainStep
    BY <2>1 DEF MainStep, Main_NewList, Main_NewQueue, Main_Test, Main_Select,
       Main_LimitReached, Refuse, Main_LimitNotReached, Main_Append, Main_StoreThreadID,
       Main_JoinRead, Main_JoinNext, Main_FreeList, Main_Finish
  <2>2. CASE PeerStep
    BY <2>2 DEF PeerStep, Main_Accept, Main_AcceptFails, Main_HandshakeSucceeds,
       Main_HandshakeFails, Refuse
  <2>3. CASE Signal
    BY <2>3 DEF Signal
  <2>4. CASE \/ \E c \in Clients : ClientStep(c) \/ Client_Crash(c)
             \/ BcastStep \/ Bcast_Crash
    BY <2>4, OthersKeepMain
  <2> QED
    BY <2>1, <2>2, <2>3, <2>4 DEF Next
<1>2. ASSUME NEW c \in Clients PROVE mem[c] \notin {"freed", "lost"}
  <2>1. mem[c] \in {"freed", "lost"} => mem'[c] = mem[c]
    BY GoneStays DEF AllInvariants
  <2> QED
    BY <2>1 DEF Undisturbed
<1> QED
  BY <1>1, <1>2 DEF Undisturbed

\* An undisturbed server has lost nothing, and no block has been used twice.
LEMMA UndisturbedIsSound ==
  ASSUME AllInvariants, Undisturbed
  PROVE  NamesAreClaimed /\ LogIsNamed /\ \A c \in Clients : ~Recycled(c)
<1>1. Sound
  BY DEF Undisturbed, Sound
<1>2. NamesAreClaimed /\ LogIsNamed
  BY <1>1, BracketingParts DEF AllInvariants, SessionInvariant
<1>3. BlocksAreReused /\ addr \in [Clients -> Clients]
  BY DEF AllInvariants, ServerInvariant, TypeOK
<1>4. \A c \in Clients : ~Recycled(c)
  BY <1>3 DEF BlocksAreReused, Undisturbed
<1> QED
  BY <1>2, <1>4

\* Later announcements do not change who had joined by an earlier message.
LEMMA JoinedStays ==
  ASSUME ServerInvariant, NEW type \in {"joined", "msg", "left"}, NEW c \in Clients,
         Push(type, c), NEW k \in Nat, k <= Len(log), NEW d
  PROVE  JoinedBy(d, k)' <=> JoinedBy(d, k)
<1>1. \A j \in 1 .. k : log'[j] = log[j]
  BY PushAppends
<1> QED
  BY <1>1 DEF JoinedBy

\* A step that leaves the log or adds to it.
LogGrows ==
  \/ UNCHANGED <<messages, log>>
  \/ \E type \in {"joined", "msg", "left"}, c \in Clients : Push(type, c)

\* A step outside the broadcast thread that keeps the list keeps the round.
LEMMA FrameKeepsRound ==
  ASSUME ServerInvariant, OrderInvariant, RoundIsExact, LogGrows,
         UNCHANGED <<clients, current, bpc, item, handle, got>>
  PROVE  RoundIsExact'
<1>1. ASSUME NEW c \in Observed PROVE JoinedBy(c, item)' <=> JoinedBy(c, item)
  <2>1. item \in Nat /\ item <= Len(log)
    BY OrderTypes DEF OrderInvariant, QueueIsOrdered
  <2>2. PICK k \in Nat : k = item
    BY <2>1
  <2>3. JoinedBy(c, k)' <=> JoinedBy(c, k)
    <3>1. CASE log' = log
      BY <3>1 DEF JoinedBy
    <3>2. ASSUME NEW type \in {"joined", "msg", "left"}, NEW d \in Clients, Push(type, d)
          PROVE  JoinedBy(c, k)' <=> JoinedBy(c, k)
      BY <2>1, <2>2, <3>2, JoinedStays
    <3> QED
      BY <3>1, <3>2 DEF LogGrows
  <2> QED
    BY <2>2, <2>3 DEF JoinedBy
<1>2. \A c \in Observed : (Ahead(c)' <=> Ahead(c)) /\ (InHand(c)' <=> InHand(c))
  BY DEF Ahead, InHand
<1> QED
  BY <1>1, <1>2 DEF RoundIsExact, InHand

\* Such a step finishes with no message and sends none.
LEMMA FrameKeepsServed ==
  ASSUME ServerInvariant, OrderInvariant, LogGrows, UNCHANGED <<item, got>>,
         NEW c \in Observed, Served(c)
  PROVE  Served(c)'
<1>1. CASE UNCHANGED <<messages, log>>
  BY <1>1 DEF Served, Finished, JoinedBy
<1>2. ASSUME NEW type \in {"joined", "msg", "left"}, NEW d \in Clients, Push(type, d)
      PROVE  Served(c)'
  <2>1. /\ Len(log) \in Nat /\ DOMAIN log = 1 .. Len(log)
        /\ DOMAIN log' = 1 .. (Len(log) + 1)
    BY <1>2, PushAppends
  <2>2. ToSet(messages') = ToSet(messages) \cup {Len(log) + 1}
    <3>1. messages \in Seq(Nat) /\ Len(log) + 1 \in Nat
      BY <2>1, OrderTypes
    <3>2. ToSet(Append(messages, Len(log) + 1)) = ToSet(messages) \cup {Len(log) + 1}
      BY <3>1, AppendSet
    <3> QED
      BY <1>2, <3>2 DEF Push
  <2>3. ASSUME NEW k \in DOMAIN log', Finished(k)', JoinedBy(c, k)'
        PROVE  k \in ToSet(got[c])
    <3>1. k \in DOMAIN log /\ k \notin ToSet(messages) /\ k # item
      BY <2>1, <2>2, <2>3 DEF Finished
    <3>2. JoinedBy(c, k)
      BY <1>2, <2>1, <2>3, <3>1, JoinedStays
    <3> QED
      BY <3>1, <3>2 DEF Served, Finished
  <2> QED
    BY <2>3 DEF Served
<1> QED
  BY <1>1, <1>2 DEF LogGrows

\* Whoever has joined has a name and, if nobody has left, a node in the list.
LEMMA JoinedInList ==
  ASSUME AllInvariants, Undisturbed, NEW c \in Clients, NEW k \in Nat, k <= Len(log),
         JoinedBy(c, k)
  PROVE  nickname[c] # Null /\ c \in ToSet(clients)
<1>1. PICK j \in 1 .. k : log[j].from = c /\ log[j].nick # Null
  BY DEF JoinedBy
<1>2. DOMAIN log = 1 .. Len(log) /\ Len(log) \in Nat
  BY OrderTypes DEF AllInvariants
<1>3. nickname[c] # Null
  BY <1>1, <1>2, UndisturbedIsSound DEF LogIsNamed
<1>4. Held(c)
  BY <1>3, UndisturbedIsSound DEF NamesAreClaimed, Undisturbed, Held
<1> QED
  BY <1>3, <1>4, ListedIsHeld DEF AllInvariants

\* What the list is, for the walk of the cursor.
LEMMA WalkTypes ==
  ASSUME AllInvariants
  PROVE  /\ clients \in Seq(Clients)
         /\ Len(clients) \in Nat
         /\ DOMAIN clients = 1 .. Len(clients)
         /\ IsInjective(clients)
         /\ \A i \in 1 .. Len(clients) : clients[i] \in Clients /\ clients[i] # Null
         /\ \A c : c \in ToSet(clients) <=> \E i \in 1 .. Len(clients) : clients[i] = c
         /\ got \in [Observed -> Seq(Nat)]
         /\ item \in Nat
         /\ item <= Len(log)
<1>1. clients \in Seq(Clients) /\ IsInjective(clients)
  BY DEF AllInvariants, ServerInvariant, TypeOK, ListTypeOK, SlotsBelongToThreads
<1>2. /\ Len(clients) \in Nat
      /\ DOMAIN clients = 1 .. Len(clients)
      /\ \A i \in 1 .. Len(clients) : clients[i] \in Clients /\ clients[i] # Null
  BY <1>1, LenProperties, NullAssumption
<1>3. \A c : c \in ToSet(clients) <=> \E i \in 1 .. Len(clients) : clients[i] = c
  BY <1>2 DEF ToSet
<1>4. got \in [Observed -> Seq(Nat)] /\ item \in Nat /\ item <= Len(log)
  BY OrderTypes DEF AllInvariants, OrderInvariant, QueueIsOrdered
<1> QED
  BY <1>1, <1>2, <1>3, <1>4

\* Appending a connection that has not been sent anything keeps the round.
LEMMA AppendKeepsRound ==
  ASSUME AllInvariants, Undisturbed, RoundIsExact, AppendMove,
         UNCHANGED <<bpc, item, handle, got, log>>
  PROVE  RoundIsExact'
<1>1. /\ clients \in Seq(Clients) /\ Len(clients) \in Nat
      /\ DOMAIN clients = 1 .. Len(clients)
  BY WalkTypes
<1>2. /\ conn \in Clients
      /\ pc[conn] = "none"
      /\ clients' = Append(clients, conn)
      /\ current' = CursorAfterAppend(clients, current, conn)
  BY DEF AppendMove
<1>3. conn \notin ToSet(clients)
  <2>1. mem[conn] = "none"
    BY <1>2 DEF AllInvariants, ServerInvariant, MemoryBelongsToThread
  <2> QED
    BY <1>2, <2>1, ListedIsHeld DEF AllInvariants, Held
<1>4. conn \in Observed => item \notin ToSet(got[conn])
  <2>1. nickname[conn] = Null /\ ~Recycled(conn)
    BY <1>2, UndisturbedIsSound DEF NamesAreClaimed, Unnamed
  <2>2. conn \in Observed => got[conn] = <<>>
    BY <2>1 DEF AllInvariants, SessionInvariant, OnlyAuthenticatedReceive
  <2> QED
    BY <2>2 DEF ToSet
<1>5. /\ DOMAIN clients' = 1 .. (Len(clients) + 1)
      /\ \A i \in 1 .. Len(clients) : clients'[i] = clients[i]
      /\ clients'[Len(clients) + 1] = conn
      /\ ToSet(clients') = ToSet(clients) \cup {conn}
  BY <1>1, <1>2, AppendSet
<1>6. clients # <<>> => current' = current
  BY <1>2 DEF CursorAfterAppend
<1>7. clients = <<>> => current' = conn /\ Len(clients) = 0
  BY <1>2 DEF CursorAfterAppend
<1>8. current' = Null \/ current' \in ToSet(clients')
  BY <1>5, <1>6, <1>7 DEF RoundIsExact
<1>9. ASSUME NEW c \in Observed, Ahead(c) PROVE Ahead(c)'
  <2>1. PICK i \in 1 .. Len(clients), j \in 1 .. Len(clients) :
          clients[i] = current /\ clients[j] = c /\ i <= j
    BY <1>1, <1>9 DEF Ahead
  <2>2. current' = current
    BY <1>1, <1>6, <1>7, <2>1
  <2>3. i \in DOMAIN clients' /\ j \in DOMAIN clients'
    BY <1>1, <1>5, <2>1
  <2>4. clients'[i] = current' /\ clients'[j] = c
    BY <1>5, <2>1, <2>2
  <2> QED
    BY <2>1, <2>3, <2>4 DEF Ahead
<1>10. ASSUME NEW c \in Observed, c # conn, Ahead(c)' PROVE Ahead(c)
  <2>1. PICK i \in DOMAIN clients', j \in DOMAIN clients' :
          clients'[i] = current' /\ clients'[j] = c /\ i <= j
    BY <1>10 DEF Ahead
  <2>2. j # Len(clients) + 1
    BY <1>5, <1>10, <2>1
  <2>3. j \in 1 .. Len(clients) /\ i \in 1 .. Len(clients)
    BY <1>1, <1>5, <2>1, <2>2
  <2>4. current' = current
    BY <1>1, <1>6, <1>7, <2>3
  <2> QED
    BY <1>1, <1>5, <2>1, <2>3, <2>4 DEF Ahead
<1>11. \A c \in Observed : (InHand(c)' <=> InHand(c)) /\ (JoinedBy(c, item)' <=> JoinedBy(c, item))
  BY DEF InHand, JoinedBy
<1>12. ~InHand(conn)
  BY <1>3 DEF InHand, RoundIsExact
<1>13. bpc \in {"name", "send"} => handle \in ToSet(clients')
  BY <1>5 DEF RoundIsExact
<1>14. bpc \in {"rewind", "first", "rewound"} => \A c \in Observed : item \notin ToSet(got[c])
  BY DEF RoundIsExact
<1>16. clients # <<>> => clients' # <<>> /\ FirstNode(clients') = FirstNode(clients)
  <2>1. ASSUME clients # <<>> PROVE 1 \in 1 .. Len(clients) /\ 1 \in DOMAIN clients'
    BY <1>1, <1>5, <2>1, EmptySeq
  <2>2. ASSUME clients # <<>> PROVE clients' # <<>> /\ clients'[1] = clients[1]
    BY <1>5, <2>1, <2>2
  <2> QED
    BY <2>2 DEF FirstNode
<1>17. /\ bpc = "first" => clients' # <<>>
       /\ bpc = "rewound" => clients' # <<>> /\ handle = FirstNode(clients')
  BY <1>16 DEF RoundIsExact
<1>15. ASSUME bpc \in {"iter", "next", "name", "send"}, NEW c \in Observed
       PROVE  /\ JoinedBy(c, item)' => item \in ToSet(got[c]) \/ Ahead(c)' \/ InHand(c)'
              /\ InHand(c)' => item \notin ToSet(got[c])
              /\ InHand(c)' \/ item \in ToSet(got[c]) => ~Ahead(c)'
  <2>1. /\ JoinedBy(c, item) => item \in ToSet(got[c]) \/ Ahead(c) \/ InHand(c)
        /\ InHand(c) => item \notin ToSet(got[c])
        /\ InHand(c) \/ item \in ToSet(got[c]) => ~Ahead(c)
    BY <1>15 DEF RoundIsExact
  <2>2. CASE c = conn
    BY <1>4, <1>9, <1>11, <1>12, <2>1, <2>2
  <2>3. CASE c # conn
    BY <1>9, <1>10, <1>11, <2>1, <2>3
  <2> QED
    BY <2>2, <2>3
<1> QED
  BY <1>8, <1>13, <1>14, <1>15, <1>17 DEF RoundIsExact

\* List_rewind looks whether there is anybody, and reads the first node.
LEMMA RewindKeepsRound ==
  ASSUME AllInvariants, Undisturbed, RoundIsExact, Bcast_Rewind \/ Bcast_First
  PROVE  RoundIsExact'
<1>0. /\ bpc \in {"rewind", "first"}
      /\ UNCHANGED <<clients, current, log, item, got>>
  BY DEF Bcast_Rewind, Bcast_First, listVars, queueVars
<1>1. \A c \in Observed : item \notin ToSet(got[c])
  BY <1>0 DEF RoundIsExact
<1>2. CASE bpc' \in {"first", "rewound"}
  <2>1. clients # <<>> /\ (bpc' = "rewound" => handle' = FirstNode(clients))
    BY <1>2 DEF RoundIsExact, Bcast_Rewind, Bcast_First, BcastGoto
  <2> QED
    BY <1>0, <1>1, <1>2, <2>1 DEF RoundIsExact
<1>3. CASE bpc' = "iter"
  <2>1. clients = <<>>
    BY <1>3 DEF Bcast_Rewind, Bcast_First, BcastGoto
  <2>2. \A c \in Observed : ~JoinedBy(c, item)
    <3>1. ToSet(clients) = {}
      BY <2>1 DEF ToSet
    <3> QED
      BY <3>1, WalkTypes, JoinedInList, ObservedAssumption
  <2>3. \A c \in Observed : ~InHand(c)' /\ ~JoinedBy(c, item)'
    BY <1>0, <1>3, <2>2 DEF InHand, JoinedBy
  <2> QED
    BY <1>0, <1>1, <1>3, <2>3 DEF RoundIsExact
<1> QED
  BY <1>2, <1>3 DEF Bcast_Rewind, Bcast_First, BcastGoto

\* List_rewind puts everybody ahead of the cursor.
LEMMA RewoundKeepsRound ==
  ASSUME AllInvariants, Undisturbed, RoundIsExact, Bcast_Rewound
  PROVE  RoundIsExact'
<1>1. /\ bpc = "rewound" /\ bpc' = "iter"
      /\ UNCHANGED <<clients, messages, log, item, got>>
      /\ clients # <<>> /\ handle = FirstNode(clients)
  BY DEF Bcast_Rewound, Continue, BcastGoto, queueVars, RoundIsExact
<1>2. /\ Len(clients) \in Nat /\ DOMAIN clients = 1 .. Len(clients)
      /\ clients \in Seq(Clients)
  BY WalkTypes
<1>3. \A c \in Observed : item \notin ToSet(got[c])
  BY <1>1 DEF RoundIsExact
<1>4. "clients" \in heap
  <2>1. 1 \in 1 .. Len(clients)
    BY <1>1, <1>2, EmptySeq
  <2>2. clients[1] \in Clients /\ clients[1] \in ToSet(clients)
    BY <2>1, WalkTypes
  <2>3. pc[clients[1]] # "none"
    BY <2>2, ListedIsHeld DEF AllInvariants, ServerInvariant, MemoryBelongsToThread, Held
  <2> QED
    BY <2>2, <2>3
    DEF AllInvariants, SessionInvariant, QueueOutlivesThreads, StopsWhenTold, Undisturbed
<1>5. current' = clients[1] /\ 1 \in DOMAIN clients
  BY <1>1, <1>2, <1>4, EmptySeq DEF Bcast_Rewound, FirstNode
<1>6. ASSUME NEW c \in ToSet(clients) PROVE Ahead(c)'
  <2>1. PICK j \in DOMAIN clients : clients[j] = c
    BY DEF ToSet
  <2>2. 1 \in DOMAIN clients /\ 1 <= j
    BY <1>2, <2>1
  <2> QED
    BY <1>1, <1>5, <2>1, <2>2 DEF Ahead
<1>7. current' \in ToSet(clients')
  BY <1>1, <1>5 DEF ToSet
<1>8. ASSUME NEW c \in Observed, JoinedBy(c, item)' PROVE c \in ToSet(clients)
  <2>1. JoinedBy(c, item)
    BY <1>1, <1>8 DEF JoinedBy
  <2> QED
    BY <2>1, WalkTypes, JoinedInList, ObservedAssumption
<1>9. \A c \in Observed : ~InHand(c)'
  BY <1>1 DEF InHand
<1> QED
  BY <1>1, <1>3, <1>6, <1>7, <1>8, <1>9 DEF RoundIsExact

\* List_next takes the connection under the cursor in hand.
LEMMA NextKeepsRound ==
  ASSUME AllInvariants, Undisturbed, RoundIsExact, Bcast_Next, current # Null
  PROVE  RoundIsExact' /\ UNCHANGED <<messages, log, item, got>>
<1>1. /\ clients \in Seq(Clients) /\ Len(clients) \in Nat
      /\ DOMAIN clients = 1 .. Len(clients)
      /\ IsInjective(clients)
  BY WalkTypes
<1>2. current \in ToSet(clients)
  BY DEF RoundIsExact
<1>3. NextData(clients, current) = {current}
  BY <1>2 DEF NextData, Dangles
<1>4. /\ bpc = "next" /\ bpc' = "name" /\ handle' = current
      /\ current' = Successor(clients, current)
      /\ UNCHANGED <<clients, messages, log, item, got>>
  BY <1>3 DEF Bcast_Next, BcastGoto, queueVars, CursorAfterNext
<1>5. PICK p \in 1 .. Len(clients) : p = Position(clients, current) /\ clients[p] = current
  BY <1>1, <1>2, PositionIsIndex
<1>6. current' = IF p < Len(clients) THEN clients[p + 1] ELSE Null
  BY <1>4, <1>5 DEF Successor
<1>7. \A i \in 1 .. Len(clients) : clients[i] = current => i = p
  BY <1>1, <1>5 DEF IsInjective
<1>8. ASSUME NEW i \in 1 .. Len(clients), clients[i] = current'
      PROVE  p < Len(clients) /\ i = p + 1
  <2>1. p < Len(clients)
    BY <1>6, <1>8, WalkTypes
  <2> QED
    BY <1>1, <1>5, <1>6, <1>8, <2>1 DEF IsInjective
<1>9. ASSUME NEW c \in Observed
      PROVE  Ahead(c)' <=> Ahead(c) /\ c # current
  <2>1. ASSUME Ahead(c)' PROVE Ahead(c) /\ c # current
    <3>1. PICK i \in 1 .. Len(clients), j \in 1 .. Len(clients) :
            clients[i] = current' /\ clients[j] = c /\ i <= j
      BY <1>1, <1>4, <2>1 DEF Ahead
    <3>2. i = p + 1 /\ p <= j /\ j # p
      BY <1>8, <3>1
    <3> QED
      BY <1>1, <1>5, <1>7, <3>1, <3>2 DEF Ahead
  <2>2. ASSUME Ahead(c), c # current PROVE Ahead(c)'
    <3>1. PICK i \in 1 .. Len(clients), j \in 1 .. Len(clients) :
            clients[i] = current /\ clients[j] = c /\ i <= j
      BY <1>1, <2>2 DEF Ahead
    <3>2. i = p /\ j # p
      BY <1>7, <2>2, <3>1
    <3>3. p + 1 \in 1 .. Len(clients) /\ p + 1 <= j /\ p < Len(clients)
      BY <1>1, <3>1, <3>2
    <3>4. clients[p + 1] = current'
      BY <1>6, <3>3
    <3> QED
      BY <1>1, <1>4, <3>1, <3>3, <3>4 DEF Ahead
  <2> QED
    BY <2>1, <2>2
<1>10. \A c \in Observed : InHand(c)' <=> c = current
  BY <1>4 DEF InHand
<1>11. \A c \in Observed : ~InHand(c)
  BY <1>4 DEF InHand
<1>12. Ahead(current)
  BY <1>1, <1>5 DEF Ahead
<1>13. ASSUME NEW c \in Observed
       PROVE  /\ JoinedBy(c, item)' => item \in ToSet(got[c]) \/ Ahead(c)' \/ InHand(c)'
              /\ InHand(c)' => item \notin ToSet(got[c])
              /\ InHand(c)' \/ item \in ToSet(got[c]) => ~Ahead(c)'
  <2>1. /\ JoinedBy(c, item) => item \in ToSet(got[c]) \/ Ahead(c) \/ InHand(c)
        /\ InHand(c) => item \notin ToSet(got[c])
        /\ InHand(c) \/ item \in ToSet(got[c]) => ~Ahead(c)
    BY <1>4 DEF RoundIsExact
  <2>2. JoinedBy(c, item)' <=> JoinedBy(c, item)
    BY <1>4 DEF JoinedBy
  <2> QED
    BY <1>9, <1>10, <1>11, <1>12, <2>1, <2>2
<1>14. current' = Null \/ current' \in ToSet(clients)
  <2>1. p < Len(clients) => p + 1 \in 1 .. Len(clients)
    BY <1>1
  <2> QED
    BY <1>6, <2>1, WalkTypes
<1> QED
  BY <1>2, <1>4, <1>13, <1>14 DEF RoundIsExact

\* When the cursor is at the end, everybody who is owed the message has it.
LEMMA EndOfRound ==
  ASSUME AllInvariants, Undisturbed, RoundIsExact, Bcast_Next, current = Null
  PROVE  /\ RoundIsExact'
         /\ item' = 0
         /\ UNCHANGED <<messages, log, got>>
         /\ \A c \in Observed : JoinedBy(c, item) => item \in ToSet(got[c])
<1>1. NextData(clients, current) = {Null}
  BY DEF NextData, Dangles
<1>2. /\ bpc = "next" /\ bpc' = "sleep" /\ item' = 0 /\ current' = current
      /\ UNCHANGED <<clients, messages, log, got>>
  BY <1>1 DEF Bcast_Next, BcastGoto, queueVars, CursorAfterNext, ItemDone
<1>3. \A c \in Observed : ~Ahead(c)
  BY WalkTypes DEF Ahead
<1>4. \A c \in Observed : ~InHand(c)
  BY <1>2 DEF InHand
<1>5. \A c \in Observed : JoinedBy(c, item) => item \in ToSet(got[c])
  BY <1>2, <1>3, <1>4 DEF RoundIsExact
<1>6. RoundIsExact'
  BY <1>2 DEF RoundIsExact
<1> QED
  BY <1>2, <1>5, <1>6

\* The handle of an undisturbed round is the structure that List_next returned.
LEMMA HandleIsSound ==
  ASSUME AllInvariants, Undisturbed, bpc \in {"name", "send", "drop"}
  PROVE  handle \in Clients /\ Held(handle) /\ View(handle) = handle /\ handle # Null
<1>1. handle \in Clients /\ mem[handle] # "none" /\ TypeOK
  BY DEF AllInvariants, ServerInvariant, HandleIsClient
<1>2. Held(handle)
  BY <1>1 DEF Undisturbed, Held, TypeOK, ListTypeOK
<1> QED
  BY <1>1, <1>2, ViewType, NullAssumption

\* A connection that the broadcast thread sends to has its thread id.
LEMMA HandleHasThread ==
  ASSUME AllInvariants, Undisturbed, bpc \in {"send", "drop"}
  PROVE  threadID[handle]
<1>1. handle \in Clients /\ Held(handle)
  BY HandleIsSound
<1>2. nickname[handle] # Null
  BY <1>1, UndisturbedIsSound DEF AllInvariants, SessionInvariant, HandleIsNamed
<1> QED
  BY <1>1, <1>2, UndisturbedIsSound DEF NamesAreClaimed

\* Sending to the connection in hand keeps the round exact, and nobody gets
\* the message twice.
LEMMA SendKeepsRound ==
  ASSUME AllInvariants, Undisturbed, RoundIsExact, Bcast_Send
  PROVE  /\ RoundIsExact'
         /\ \A c \in Observed : Served(c) => Served(c)'
<1>1. /\ bpc = "send" /\ bpc' = "iter"
      /\ UNCHANGED <<clients, current, messages, log, item>>
  BY DEF Bcast_Send, Continue, BcastGoto, queueVars, listVars
<1>2. handle \in Clients /\ View(handle) = handle
  BY <1>1, HandleIsSound
<1>3. got' = [got EXCEPT ![handle] = Append(got[handle], item)]
  BY <1>2 DEF Bcast_Send
<1>4. /\ item \in Nat
      /\ \A c \in Observed \ {handle} : got'[c] = got[c]
      /\ handle \in Observed => got'[handle] = Append(got[handle], item) /\ got[handle] \in Seq(Nat)
  BY <1>2, <1>3, WalkTypes
<1>5. ASSUME handle \in Observed PROVE ToSet(got'[handle]) = ToSet(got[handle]) \cup {item}
  <2>1. got'[handle] = Append(got[handle], item) /\ got[handle] \in Seq(Nat) /\ item \in Nat
    BY <1>4, <1>5
  <2> QED
    BY <2>1, AppendSet
<1>6. \A c \in Observed :
        /\ Ahead(c)' <=> Ahead(c)
        /\ JoinedBy(c, item)' <=> JoinedBy(c, item)
        /\ ~InHand(c)'
        /\ InHand(c) <=> c = handle
  BY <1>1 DEF Ahead, JoinedBy, InHand
<1>7. \A c \in Observed :
        /\ JoinedBy(c, item) => item \in ToSet(got[c]) \/ Ahead(c) \/ InHand(c)
        /\ InHand(c) => item \notin ToSet(got[c])
        /\ InHand(c) \/ item \in ToSet(got[c]) => ~Ahead(c)
  BY <1>1 DEF RoundIsExact
<1>8. ASSUME NEW c \in Observed
      PROVE  /\ JoinedBy(c, item) => item \in ToSet(got'[c]) \/ Ahead(c)
             /\ item \in ToSet(got'[c]) => ~Ahead(c)
  BY <1>4, <1>5, <1>6, <1>7
<1>9. RoundIsExact'
  <2>1. current' = Null \/ current' \in ToSet(clients')
    BY <1>1 DEF RoundIsExact
  <2> QED
    BY <1>1, <1>6, <1>8, <2>1 DEF RoundIsExact
<1>10. ASSUME NEW c \in Observed, Served(c) PROVE Served(c)'
  <2>1. IsInjective(got'[c])
    <3>1. CASE c = handle
      <4>1. item \notin ToSet(got[handle]) /\ IsInjective(got[handle])
        BY <1>6, <1>7, <1>10, <3>1 DEF Served
      <4>2. got[handle] \in Seq(Nat) /\ item \in Nat
        BY <1>4, <3>1
      <4>3. IsInjective(Append(got[handle], item))
        BY <4>1, <4>2, AppendNode
      <4> QED
        BY <1>4, <3>1, <4>3
    <3>2. CASE c # handle
      BY <1>4, <1>10, <3>2 DEF Served
    <3> QED
      BY <3>1, <3>2
  <2>2. ToSet(got[c]) \subseteq ToSet(got'[c])
    BY <1>4, <1>5
  <2>3. \A k : (Finished(k)' <=> Finished(k)) /\ (JoinedBy(c, k)' <=> JoinedBy(c, k))
    BY <1>1 DEF Finished, JoinedBy
  <2> QED
    BY <1>1, <1>10, <2>1, <2>2, <2>3 DEF Served
<1> QED
  BY <1>9, <1>10

\* Whoever is passed over has not joined.
LEMMA SkipKeepsRound ==
  ASSUME AllInvariants, Undisturbed, RoundIsExact, Bcast_Skip
  PROVE  RoundIsExact' /\ UNCHANGED <<messages, log, item, got>>
<1>1. /\ bpc = "name" /\ bpc' = "iter"
      /\ UNCHANGED <<clients, current, messages, log, item, got>>
  BY DEF Bcast_Skip, Continue, BcastGoto, queueVars, listVars
<1>2. handle \in Clients /\ View(handle) = handle /\ handle # Null
  BY <1>1, HandleIsSound
<1>3. nickname[handle] = Null
  BY <1>2 DEF Bcast_Skip, Authenticated, NickOf
<1>4. ~JoinedBy(handle, item)
  BY <1>2, <1>3, WalkTypes, JoinedInList
<1>5. \A c \in Observed :
        /\ Ahead(c)' <=> Ahead(c)
        /\ JoinedBy(c, item)' <=> JoinedBy(c, item)
        /\ ~InHand(c)'
        /\ InHand(c) <=> c = handle
  BY <1>1 DEF Ahead, JoinedBy, InHand
<1>6. \A c \in Observed :
        /\ JoinedBy(c, item) => item \in ToSet(got[c]) \/ Ahead(c) \/ InHand(c)
        /\ InHand(c) \/ item \in ToSet(got[c]) => ~Ahead(c)
  BY <1>1 DEF RoundIsExact
<1>7. current' = Null \/ current' \in ToSet(clients')
  BY <1>1 DEF RoundIsExact
<1> QED
  BY <1>1, <1>4, <1>5, <1>6, <1>7 DEF RoundIsExact

\* A message that comes from the queue has been sent to nobody.
LEMMA PopKeepsRound ==
  ASSUME AllInvariants, Undisturbed, RoundIsExact, Bcast_Pop
  PROVE  /\ RoundIsExact'
         /\ \A c \in Observed : Served(c) => Served(c)'
<1>0. bpc = "pop" /\ UNCHANGED <<clients, current, log, handle, got>>
  BY DEF Bcast_Pop, listVars
<1>1. CASE messages = <<>>
  <2>1. bpc' = "sleep" /\ UNCHANGED <<messages, item>>
    BY <1>1 DEF Bcast_Pop, BcastGoto
  <2>2. RoundIsExact'
    BY <1>0, <2>1 DEF RoundIsExact
  <2>3. \A c \in Observed : Served(c) => Served(c)'
    BY <1>0, <2>1 DEF Served, Finished, JoinedBy
  <2> QED
    BY <2>2, <2>3
<1>2. CASE messages # <<>>
  <2>1. bpc' = "rewind" /\ item' = Head(messages) /\ messages' = Tail(messages)
    BY <1>2 DEF Bcast_Pop, BcastGoto
  <2>2. messages \in Seq(Nat)
    BY OrderTypes DEF AllInvariants
  <2>3. 1 \in DOMAIN messages /\ item' = messages[1]
    BY <1>2, <2>1, <2>2, EmptySeq
  <2>4. ASSUME NEW c \in Observed PROVE item' \notin ToSet(got[c])
    <3>1. \A k \in ToSet(got[c]) : k \in Nat /\ k < messages[1]
      BY <2>3, OrderTypes DEF AllInvariants, OrderInvariant, SentBeforeQueue
    <3> QED
      BY <2>3, <3>1
  <2>5. RoundIsExact'
    BY <1>0, <2>1, <2>4 DEF RoundIsExact
  <2>6. ToSet(messages) \subseteq ToSet(messages') \cup {item'}
    <3>1. /\ Tail(messages) \in Seq(Nat)
          /\ Len(Tail(messages)) = Len(messages) - 1
          /\ \A i \in 1 .. (Len(messages) - 1) : Tail(messages)[i] = messages[i + 1]
      BY <1>2, <2>2, HeadTailProperties
    <3>2. /\ DOMAIN messages = 1 .. Len(messages) /\ Len(messages) \in Nat
          /\ DOMAIN Tail(messages) = 1 .. (Len(messages) - 1)
      BY <2>2, <3>1
    <3>3. ASSUME NEW i \in DOMAIN messages, i # 1
          PROVE  messages[i] \in ToSet(Tail(messages))
      <4>1. i - 1 \in 1 .. (Len(messages) - 1) /\ (i - 1) + 1 = i
        BY <3>2, <3>3
      <4>2. Tail(messages)[i - 1] = messages[i]
        BY <3>1, <4>1
      <4> QED
        BY <3>2, <4>1, <4>2 DEF ToSet
    <3>4. ASSUME NEW k \in ToSet(messages) PROVE k \in ToSet(Tail(messages)) \cup {messages[1]}
      <4>1. PICK i \in DOMAIN messages : messages[i] = k
        BY DEF ToSet
      <4> QED
        BY <3>3, <4>1
    <3> QED
      BY <2>1, <2>3, <3>4
  <2>7. item = 0
    BY <1>0 DEF AllInvariants, OrderInvariant, QueueIsOrdered
  <2>8. ASSUME NEW c \in Observed, Served(c) PROVE Served(c)'
    <3>1. ASSUME NEW k \in DOMAIN log, Finished(k)' PROVE Finished(k)
      <4>1. k # 0
        BY <3>1, OrderTypes DEF AllInvariants
      <4> QED
        BY <1>0, <2>6, <2>7, <3>1, <4>1 DEF Finished
    <3>2. \A k : JoinedBy(c, k)' <=> JoinedBy(c, k)
      BY <1>0 DEF JoinedBy
    <3> QED
      BY <1>0, <2>8, <3>1, <3>2 DEF Served
  <2> QED
    BY <2>5, <2>8
<1> QED
  BY <1>1, <1>2

\* The broadcast thread delivers to everybody once.
LEMMA BcastKeepsDelivery ==
  ASSUME AllInvariants, Undisturbed, RoundIsExact, \A c \in Observed : Served(c),
         BcastStep \/ Bcast_Crash, Undisturbed'
  PROVE  RoundIsExact' /\ \A c \in Observed : Served(c)'
<1> USE DEF BcastGoto, Continue, listVars, queueVars
\* A step that does not touch the messages leaves everybody served.
<1>0. ASSUME UNCHANGED <<messages, log, item, got>>
      PROVE  \A c \in Observed : Served(c)'
  BY <1>0 DEF Served, Finished, JoinedBy
<1>1. CASE Bcast_Pop
  BY <1>1, PopKeepsRound
<1>2. CASE Bcast_Rewind \/ Bcast_First \/ Bcast_Rewound
  <2>1. UNCHANGED <<messages, log, item, got>>
    BY <1>2 DEF Bcast_Rewind, Bcast_First, Bcast_Rewound
  <2> QED
    BY <1>0, <1>2, <2>1, RewindKeepsRound, RewoundKeepsRound
<1>3. CASE Bcast_Test
  <2>1. /\ bpc = "iter" /\ bpc' = "next"
        /\ UNCHANGED <<clients, current, messages, log, item, handle, got>>
    BY <1>3 DEF Bcast_Test, Undisturbed
  <2>2. \A c \in Observed :
          /\ Ahead(c)' <=> Ahead(c)
          /\ JoinedBy(c, item)' <=> JoinedBy(c, item)
          /\ ~InHand(c)' /\ ~InHand(c)
    BY <2>1 DEF Ahead, JoinedBy, InHand
  <2>3. RoundIsExact'
    BY <2>1, <2>2 DEF RoundIsExact
  <2> QED
    BY <1>0, <2>1, <2>3
<1>4. CASE Bcast_Next
  <2>1. CASE current # Null
    BY <1>0, <1>4, <2>1, NextKeepsRound
  <2>2. CASE current = Null
    <3>1. /\ RoundIsExact' /\ item' = 0 /\ UNCHANGED <<messages, log, got>>
          /\ \A c \in Observed : JoinedBy(c, item) => item \in ToSet(got[c])
      BY <1>4, <2>2, EndOfRound
    <3>2. ASSUME NEW c \in Observed PROVE Served(c)'
      <4>1. \A k : JoinedBy(c, k)' <=> JoinedBy(c, k)
        BY <3>1 DEF JoinedBy
      <4>2. \A k \in DOMAIN log : Finished(k)' => Finished(k) \/ k = item
        BY <3>1 DEF Finished
      <4> QED
        BY <3>1, <4>1, <4>2 DEF Served
    <3> QED
      BY <3>1, <3>2
  <2> QED
    BY <2>1, <2>2
<1>5. CASE Bcast_Skip
  BY <1>0, <1>5, SkipKeepsRound
<1>6. CASE Bcast_Send
  BY <1>6, SendKeepsRound
<1>7. CASE Bcast_SendFails
  <2>1. /\ bpc' = "drop" /\ UNCHANGED <<clients, current, messages, log, item, got>>
    BY <1>7 DEF Bcast_SendFails
  <2> QED
    BY <1>0, <2>1 DEF RoundIsExact
<1>8. CASE Bcast_Named
  <2>1. /\ bpc = "name" /\ bpc' = "send"
        /\ UNCHANGED <<clients, current, messages, log, item, handle, got>>
    BY <1>8 DEF Bcast_Named
  <2>2. \A c \in Observed :
          /\ Ahead(c)' <=> Ahead(c)
          /\ JoinedBy(c, item)' <=> JoinedBy(c, item)
          /\ InHand(c)' <=> InHand(c)
    BY <2>1 DEF Ahead, JoinedBy, InHand
  <2>3. RoundIsExact'
    BY <2>1, <2>2 DEF RoundIsExact
  <2> QED
    BY <1>0, <2>1, <2>3
<1>9. CASE Bcast_Sleep
  <2>1. /\ bpc' \in {"exited", "pop"}
        /\ UNCHANGED <<clients, current, messages, log, item, got>>
    BY <1>9 DEF Bcast_Sleep
  <2> QED
    BY <1>0, <2>1 DEF RoundIsExact
<1>10. CASE Bcast_Crash
  <2>1. UNCHANGED <<clients, current, messages, log, bpc, item, handle, got>>
    BY <1>10 DEF Bcast_Crash, Crash, bcastVars
  <2>2. RoundIsExact'
    BY <2>1, FrameKeepsRound DEF LogGrows, AllInvariants
  <2> QED
    BY <1>0, <2>1, <2>2
<1>11. mem \in [Clients -> {"none", "live", "closed", "freed", "lost"}]
  BY DEF AllInvariants, ServerInvariant, TypeOK, ListTypeOK
<1>12. ~Bcast_Drop
  <2> SUFFICES ASSUME Bcast_Drop PROVE FALSE
    OBVIOUS
  <2>1. handle \in Clients /\ Held(handle) /\ View(handle) = handle
    BY HandleIsSound DEF Bcast_Drop
  <2>2. mem'[handle] = "lost"
    BY <1>11, <2>1 DEF Bcast_Drop, DropThreaded, Unlink
  <2> QED
    BY <2>1, <2>2 DEF Undisturbed
<1>13. ~Bcast_DropReturns
  <2> SUFFICES ASSUME Bcast_DropReturns PROVE FALSE
    OBVIOUS
  <2>1. View(handle) = handle /\ handle # Null /\ threadID[handle]
    BY HandleIsSound, HandleHasThread DEF Bcast_DropReturns
  <2> QED
    BY <2>1 DEF Bcast_DropReturns, DropThreadless
<1> QED
  BY <1>1, <1>2, <1>3, <1>4, <1>5, <1>6, <1>7, <1>8, <1>9, <1>10, <1>12, <1>13
  DEF BcastStep

\* The other threads do not disturb a delivery either, unless one of them ends.
LEMMA OthersKeepDelivery ==
  ASSUME AllInvariants, Undisturbed, RoundIsExact, \A c \in Observed : Served(c),
         process = "running", Undisturbed',
         \/ MainStep \/ PeerStep \/ Signal
         \/ \E c \in Clients : ClientStep(c) \/ Client_Crash(c)
  PROVE  RoundIsExact' /\ \A c \in Observed : Served(c)'
<1>0. ServerInvariant /\ SessionInvariant /\ OrderInvariant
  BY DEF AllInvariants
\* A step that keeps the list and the broadcast thread, and may push a message.
<1>1. ASSUME LogGrows, UNCHANGED <<clients, current, bpc, item, handle, got>>
      PROVE  RoundIsExact' /\ \A c \in Observed : Served(c)'
  BY <1>0, <1>1, FrameKeepsRound, FrameKeepsServed
<1>2. CASE MainStep \/ PeerStep \/ Signal
  <2>1. UNCHANGED <<messages, log, bpc, item, handle, got>>
    BY <1>0, <1>2, MainMoves DEF queueVars, bcastVars
  <2>2. mainPc \notin {"join", "joinnext", "freelist"}
    BY DEF AllInvariants, StopsWhenTold, Undisturbed
  <2>3. CASE AppendMove
    <3>1. RoundIsExact'
      BY <2>1, <2>3, AppendKeepsRound
    <3>2. \A c \in Observed : Served(c)'
      BY <1>0, <2>1, FrameKeepsServed DEF LogGrows
    <3> QED
      BY <3>1, <3>2
  <2>4. CASE RefuseMove \/ IdleMove
    BY <1>1, <2>1, <2>2, <2>4 DEF LogGrows, RefuseMove, IdleMove
  <2>5. ~FreeMove
    BY <2>2 DEF FreeMove, Main_FreeList
  <2> QED
    BY <1>0, <1>2, <2>3, <2>4, <2>5, MainMoves
<1>3. ASSUME NEW c \in Clients, Client_Crash(c)
      PROVE  RoundIsExact' /\ \A d \in Observed : Served(d)'
  BY <1>1, <1>3 DEF Client_Crash, Crash, listVars, queueVars, bcastVars, LogGrows
<1>4. ASSUME NEW c \in Clients, ClientStep(c)
      PROVE  RoundIsExact' /\ \A d \in Observed : Served(d)'
  <2>1. UNCHANGED <<bpc, item, handle, got>>
    BY <1>4 DEF ClientStep, bcastVars
  <2>2. CASE SayMove(c)
    <3>1. LogGrows /\ UNCHANGED <<clients, current>>
      BY <2>2 DEF SayMove, LogGrows
    <3> QED
      BY <1>1, <2>1, <3>1
  <2>3. CASE QuietMove(c) \/ AskMove(c) \/ Client_Name(c) \/ Client_DropReturns(c)
    <3>1. LogGrows /\ UNCHANGED <<clients, current>>
      BY <2>3 DEF QuietMove, AskMove, Client_Name, Client_DropReturns, DropThreadless, LogGrows,
         listVars, queueVars
    <3> QED
      BY <1>1, <2>1, <3>1
  <2>4. ~Client_Drop(c)
    <3> SUFFICES ASSUME Client_Drop(c) PROVE FALSE
      OBVIOUS
    <3>1. pc[c] \in Alive
      BY AfterIs DEF Client_Drop, Alive, Unannounced
    <3>2. Held(c) /\ View(c) = c
      BY <1>0, <3>1, OwnStructure, UndisturbedIsSound
    <3>3. PICK fate \in {"freed", "lost"} : DropThreaded(c, fate)
      BY DEF Client_Drop
    <3>4. mem'[c] = fate
      BY <1>0, <3>2, <3>3 DEF DropThreaded, Unlink, ServerInvariant, TypeOK, ListTypeOK
    <3> QED
      BY <3>4 DEF Undisturbed
  <2> QED
    BY <1>0, <1>4, <2>2, <2>3, <2>4, ClientMoves DEF SessionInvariant
<1> QED
  BY <1>2, <1>3, <1>4

\* Only a signal brings the main thread to the end of its loop.
LEMMA KeepsStopsWhenTold ==
  ASSUME StopsWhenTold, Next
  PROVE  StopsWhenTold'
<1> USE DEF StopsWhenTold, MainGoto, mainVars, processVars
<1>1. CASE MainStep
  BY <1>1 DEF MainStep, Main_NewList, Main_NewQueue, Main_Test, Main_Select,
     Main_LimitReached, Refuse, Main_LimitNotReached, Main_Append,
     Main_StoreThreadID, Main_JoinRead, Main_JoinNext, Main_FreeList, Main_Finish
<1>2. CASE PeerStep
  BY <1>2 DEF PeerStep, Main_Accept, Main_AcceptFails, Main_HandshakeSucceeds,
     Main_HandshakeFails, Refuse
<1>3. CASE Signal
  BY <1>3 DEF Signal
<1>4. CASE \/ \E c \in Clients : ClientStep(c) \/ Client_Crash(c)
           \/ BcastStep \/ Bcast_Crash
  BY <1>4, OthersKeepMain
<1> QED
  BY <1>1, <1>2, <1>3, <1>4 DEF Next

\* The delivery invariant is preserved by every step.
LEMMA StepKeepsDelivery ==
  ASSUME ServerInvariant, SessionInvariant, DeliveryInvariant, Next
  PROVE  DeliveryInvariant'
<1>1. AllInvariants
  BY DEF AllInvariants, DeliveryInvariant, OrderInvariant
<1>2. StopsWhenTold'
  BY KeepsStopsWhenTold DEF DeliveryInvariant
<1>3. OrderInvariant'
  BY <1>1, OthersKeepOrder, BcastKeepsOrder DEF Next, AllInvariants
<1>4. ASSUME Undisturbed' PROVE RoundIsExact' /\ \A c \in Observed : Served(c)'
  <2>1. Undisturbed
    BY <1>1, <1>4, DisturbanceStays
  <2>2. RoundIsExact /\ \A c \in Observed : Served(c)
    BY <1>1, <2>1 DEF AllInvariants, ExactDelivery, Served
  <2> QED
    BY <1>1, <1>4, <2>1, <2>2, OthersKeepDelivery, BcastKeepsDelivery DEF Next
<1>5. ExactDelivery'
  BY <1>4 DEF ExactDelivery, Served
<1> QED
  BY <1>2, <1>3, <1>4, <1>5 DEF DeliveryInvariant, OrderInvariant

\* The delivery invariant holds in every state of the server.
THEOREM DeliveryInvariantHolds == Spec => []DeliveryInvariant
<1>1. Init => DeliveryInvariant
  <2> SUFFICES ASSUME Init PROVE DeliveryInvariant
    OBVIOUS
  <2>1. StopsWhenTold /\ QueueIsOrdered
    BY DEF Init, StopsWhenTold, QueueIsOrdered
  <2>2. SentBeforeQueue /\ DeliveryOrder
    BY DEF Init, SentBeforeQueue, DeliveryOrder, ToSet
  <2>3. RoundIsExact
    BY DEF Init, RoundIsExact
  <2>4. ExactDelivery
    BY DEF Init, ExactDelivery, IsInjective
  <2> QED
    BY <2>1, <2>2, <2>3, <2>4 DEF DeliveryInvariant
<1>2. ServerInvariant /\ SessionInvariant /\ DeliveryInvariant /\ [Next]_vars
        => DeliveryInvariant'
  <2> SUFFICES ASSUME ServerInvariant, SessionInvariant, DeliveryInvariant, [Next]_vars
               PROVE  DeliveryInvariant'
    OBVIOUS
  <2>1. CASE Next
    BY <2>1, StepKeepsDelivery
  <2>2. CASE UNCHANGED vars
    <3>1. /\ UNCHANGED <<mainPc, terminate, mem, clients, current>>
          /\ UNCHANGED <<messages, log, bpc, item, handle, got>>
      BY <2>2 DEF vars, processVars, mainVars, listVars, queueVars, bcastVars
    <3>2. StopsWhenTold'
      BY <3>1 DEF StopsWhenTold, DeliveryInvariant
    <3>3. OrderInvariant'
      BY <3>1, StutterKeepsOrder DEF DeliveryInvariant, OrderInvariant
    <3>4. Undisturbed' <=> Undisturbed
      BY <3>1 DEF Undisturbed
    <3>5. Undisturbed' => RoundIsExact'
      BY <3>1, <3>4, FrameKeepsRound DEF DeliveryInvariant, OrderInvariant, LogGrows
    <3>6. \A c \in Observed : Served(c) => Served(c)'
      BY <3>1 DEF Served, Finished, JoinedBy
    <3>7. ExactDelivery'
      BY <3>4, <3>6 DEF DeliveryInvariant, ExactDelivery, Served
    <3> QED
      BY <3>2, <3>3, <3>5, <3>7 DEF DeliveryInvariant, OrderInvariant
  <2> QED
    BY <2>1, <2>2
<1> QED
  BY <1>1, <1>2, ServerInvariantHolds, SessionInvariantHolds, PTL DEF Spec

\* Every connection sees the broadcasts in the order in which they were queued.
THEOREM DeliveryIsOrdered == Spec => []DeliveryOrder
BY DeliveryInvariantHolds, PTL DEF DeliveryInvariant

\* While nobody leaves and the server is not told to stop, every message reaches
\* everyone who had joined when it was queued, exactly once.
THEOREM DeliveryIsExact == Spec => []ExactDelivery
BY DeliveryInvariantHolds, PTL DEF DeliveryInvariant
=============================================================================
