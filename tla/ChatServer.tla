----------------------------- MODULE ChatServer -----------------------------
(***************************************************************************)
(* The running c2hat server (src/server/server.c): the main thread that    *)
(* accepts connections, one thread per connection, and the broadcast       *)
(* thread, which share the list of clients, its cursor and the queue of    *)
(* messages.  A connection is used once; its thread bears its name.        *)
(*                                                                         *)
(* A thread keeps a plain pointer to a Client structure that other threads *)
(* may free.  addr and View say what such a pointer leads to: the          *)
(* structure, zeroed memory, or the structure of a later connection that   *)
(* was given the same block.  A use of freed memory takes one of these     *)
(* outcomes or crashes the process; as nothing happens after a crash, and  *)
(* the steps before it are steps here, only the crashes that are certain   *)
(* (through a null list or queue) are steps of their own.                  *)
(*                                                                         *)
(* Every access made without clientsLock is a step of its own; a critical  *)
(* section is one step.                                                    *)
(***************************************************************************)
EXTENDS LinkedList

CONSTANTS
  Clients,         \* the connections that peers may open
  Nicks,           \* the valid nicknames peers ask for
  MaxConnections,  \* server->maxConnections
  Reads,           \* the messages one Server_receive() may put in the buffer
  MaxReads,        \* bound: successful reads per connection once in the chat
  Flaky,           \* the connections whose SSL_write() may fail
  Observed         \* the connections whose deliveries the history records

MessageKinds == {"msg", "blank", "quit", "other", "unparsable"}

ASSUME LimitAssumption == MaxConnections \in Nat
ASSUME NullAssumption == Null \notin Clients /\ Null \notin Nicks
ASSUME ReadsAssumption == Reads \subseteq Seq(MessageKinds)
ASSUME FlakyAssumption == Flaky \subseteq Clients
ASSUME ObservedAssumption == Observed \subseteq Clients

VARIABLES
  process,      \* "running", "stopped" (Server_start returned) or "crashed"
  terminate,    \* the flag set by the signal handler
  heap,         \* which of the globals clients and messages are allocated
  mainPc,       \* where the main thread is in Server_start
  conn,         \* its local variable client (or the node it has just read)
  clientsLock,  \* the main thread holds clientsLock (all others in one step)
  clients,      \* the nodes of the list of clients, in order
  current,      \* the cursor of that list
  mem,          \* per connection, the state of its Client structure
  addr,         \* per connection, the block that holds that structure
  threadID,     \* per connection, whether Client.threadID has been stored
  pc,           \* where its thread is in Server_handleClient
  nickname,     \* Client.nickname, Null while it is the empty string
  want,         \* the nickname found unused in Server_authenticate
  buffer,       \* the messages left in Client.buffer
  reads,        \* the number of reads so far, for MaxReads
  messages,     \* the broadcast queue: positions in log
  log,          \* history: every message pushed to the queue
  bpc,          \* where the broadcast thread is in Server_handleBroadcast
  item,         \* its local variable item (0: none)
  handle,       \* its local variable client (or the node it has just read)
  got           \* history: the queue messages sent to each of Observed

processVars == <<process, terminate, heap>>
mainVars    == <<mainPc, conn, clientsLock>>
listVars    == <<clients, current, mem>>
sessionVars == <<nickname, want, buffer, reads>>
queueVars   == <<messages, log>>
bcastVars   == <<bpc, item, handle, got>>
vars == <<processVars, mainVars, listVars, addr, threadID, pc, sessionVars,
          queueVars, bcastVars>>

\* The states of a thread in the chat loop of Server_handleClient.
InChat == {"chat", "wait", "parse", "leave"}

\* The calls of Server_dropClient in Server_handleClient, and where each one
\* returns to if it finds no thread id in the structure.
After == [mismatch |-> "welcome", dropWelcome |-> "auth", dropAuth |-> "hello",
          dropHello |-> "announce", dropEnd |-> "exited"]

\* The states of a thread before it has announced itself.
Unannounced == {"spawned", "mismatch", "welcome", "dropWelcome", "auth",
                "claim", "name", "dropAuth", "hello", "dropHello", "announce"}

\* The states of a thread that has been created and has not ended.
Alive == Unannounced \cup InChat \cup {"dropEnd"}

\* A message in the queue: its kind, the thread that pushed it, and the
\* nickname that thread found in its Client structure.
Entry == [type : {"joined", "msg", "left"}, from : Clients,
          nick : Nicks \cup {Null}]

Labels == Alive \cup {"none", "exited"}

ProcessTypeOK ==
  /\ process \in {"running", "stopped", "crashed"}
  /\ terminate \in BOOLEAN
  /\ heap \in SUBSET {"clients", "messages"}

MainTypeOK ==
  /\ mainPc \in {"newlist", "newqueue", "test", "enter", "select",
                 "handshake", "limit", "append", "setid",
                 "join", "joinnext", "freelist", "joinbcast", "done"}
  /\ conn \in Clients \cup {Null}
  /\ clientsLock \in BOOLEAN

ListTypeOK ==
  /\ clients \in Seq(Clients)
  /\ current \in Clients \cup {Null}
  /\ mem \in [Clients -> {"none", "live", "closed", "freed", "lost"}]

SessionTypeOK ==
  /\ nickname \in [Clients -> Nicks \cup {Null}]
  /\ want \in [Clients -> Nicks \cup {Null}]
  /\ buffer \in [Clients -> Seq(MessageKinds)]
  /\ reads \in [Clients -> Nat]

QueueTypeOK == messages \in Seq(Nat) /\ log \in Seq(Entry)

BcastTypeOK ==
  /\ bpc \in {"pop", "rewind", "first", "rewound", "iter", "next", "name",
              "send", "drop", "sleep", "exited"}
  /\ item \in Nat
  /\ handle \in Clients \cup {Null}
  /\ got \in [Observed -> Seq(Nat)]

\* The types of the variables of server.c and of the histories.
TypeOK ==
  /\ ProcessTypeOK
  /\ MainTypeOK
  /\ ListTypeOK
  /\ addr \in [Clients -> Clients]
  /\ threadID \in [Clients -> BOOLEAN]
  /\ pc \in [Clients -> Labels]
  /\ SessionTypeOK
  /\ QueueTypeOK
  /\ BcastTypeOK

Init ==
  /\ process = "running"
  /\ terminate = FALSE
  /\ heap = {}
  /\ mainPc = "newlist"
  /\ conn = Null
  /\ clientsLock = FALSE
  /\ clients = <<>>
  /\ current = Null
  /\ mem = [c \in Clients |-> "none"]
  /\ addr = [c \in Clients |-> c]
  /\ threadID = [c \in Clients |-> FALSE]
  /\ pc = [c \in Clients |-> "none"]
  /\ nickname = [c \in Clients |-> Null]
  /\ want = [c \in Clients |-> Null]
  /\ buffer = [c \in Clients |-> <<>>]
  /\ reads = [c \in Clients |-> 0]
  /\ messages = <<>>
  /\ log = <<>>
  /\ bpc = "pop"
  /\ item = 0
  /\ handle = Null
  /\ got = [c \in Observed |-> <<>>]

-----------------------------------------------------------------------------
(* The memory behind the pointers. *)

\* The structure of a connection is allocated; SSL_free() may have taken its
\* SSL handle ("closed").  Afterwards it has been freed by its own thread
\* ("freed"), or by another thread or with a handle closed twice ("lost").
Held(c) == mem[c] \in {"live", "closed"}

\* What a pointer to the structure of a connection leads to: that structure,
\* or after it has been freed the one that has its block by now, or nothing
\* that belongs to a client (Null: zeroed by ListNode_free(), or scribbled on
\* by the allocator).
View(c) ==
  IF Held(c) THEN c
  ELSE IF \E d \in Clients : Held(d) /\ addr[d] = addr[c]
       THEN CHOOSE d \in Clients : Held(d) /\ addr[d] = addr[c]
       ELSE Null

\* The pointer leads to a structure whose SSL handle and socket are open.
Usable(c) == View(c) # Null /\ mem[View(c)] = "live"

\* A send or a read through the pointer may fail.
MayFail(c) == ~Usable(c) \/ View(c) \in Flaky

\* The nickname found through the pointer, Null if there is none.
NickOf(c) == IF View(c) = Null THEN Null ELSE nickname[View(c)]

\* The blocks that calloc() may return for a connection's structure: a new one
\* (which bears the connection's name) or one that has been freed.
FreeBlocks(c) ==
  {c} \cup {b \in Clients : /\ \E d \in Clients : mem[d] \in {"freed", "lost"} /\ addr[d] = b
                            /\ \A d \in Clients : Held(d) => addr[d] # b}

-----------------------------------------------------------------------------
(* Shared operations. *)

\* The use of a null list or queue ends the process.
Crash ==
  /\ process' = "crashed"
  /\ UNCHANGED <<terminate, heap, mainVars, listVars, addr, threadID, pc,
                 sessionVars, queueVars, bcastVars>>

Goto(c, label) == pc' = [pc EXCEPT ![c] = label]

\* Mutant: the queue is a stack.
Broadcast_Front(type, c) ==
  /\ log' = Append(log, [type |-> type, from |-> c, nick |-> NickOf(c)])
  /\ messages' = <<Len(log) + 1>> \o messages

\* Server_broadcastMessage: CQueue_push() refuses a null queue.
Broadcast(type, c) ==
  IF "messages" \in heap
  THEN /\ log' = Append(log, [type |-> type, from |-> c, nick |-> NickOf(c)])
       /\ messages' = Append(messages, Len(log) + 1)
  ELSE UNCHANGED queueVars

\* Mutant: the connection is closed but its node stays in the list.
Unlink_KeepsNode(c, fate) ==
  /\ mem' = [mem EXCEPT ![c] = fate]
  /\ UNCHANGED <<clients, current>>

\* The node of a client is deleted and freed.
Unlink(c, fate) ==
  /\ clients' = ItemsAfterDelete(clients, c)
  /\ current' = CursorAfterDelete(clients, current, c)
  /\ mem' = [mem EXCEPT ![c] = fate]

\* Server_dropClient on a structure without a thread id, which is what zeroed
\* memory looks like too: the handles are closed and the call returns.
DropThreadless(c) ==
  /\ \/ View(c) = Null /\ UNCHANGED mem
     \/ View(c) # Null /\ ~threadID[View(c)]
        /\ mem' = [mem EXCEPT ![View(c)] = "closed"]
  /\ UNCHANGED <<clients, current>>

\* Server_dropClient on a structure with a thread id: under the lock the
\* connection is closed and its node is deleted, unless the list does not have
\* the id any more (the structure has been freed since the id was read, or the
\* id is what the allocator left there).  The calling thread then ends.
DropThreaded(c, fate) ==
  /\ ~clientsLock
  /\ "clients" \in heap
  /\ \/ /\ View(c) # Null /\ threadID[View(c)]
        /\ Unlink(View(c), fate)
     \/ ~Held(c) /\ UNCHANGED listVars

-----------------------------------------------------------------------------
(* The main thread: Server_start. *)

MainGoto(label) == mainPc' = label

\* The broadcast thread is already running.
Main_NewList ==
  /\ mainPc = "newlist"
  /\ heap' = heap \cup {"clients"}
  /\ MainGoto("newqueue")
  /\ UNCHANGED <<process, terminate, conn, clientsLock, listVars, addr, threadID, pc>>

Main_NewQueue ==
  /\ mainPc = "newqueue"
  /\ heap' = heap \cup {"messages"}
  /\ MainGoto("test")
  /\ UNCHANGED <<process, terminate, conn, clientsLock, listVars, addr, threadID, pc>>

\* while (!terminate)
Main_Test ==
  /\ mainPc = "test"
  /\ MainGoto(IF terminate THEN "join" ELSE "enter")
  /\ UNCHANGED <<processVars, conn, clientsLock, listVars, addr, threadID, pc>>

\* select() without a timeout blocks; only a connection or a signal that
\* arrives from now on ends it.
Main_Select ==
  /\ mainPc = "enter"
  /\ MainGoto("select")
  /\ UNCHANGED <<processVars, conn, clientsLock, listVars, addr, threadID, pc>>

Main_Accept(c) ==
  /\ mainPc = "select"
  /\ pc[c] = "none"
  /\ conn' = c
  /\ MainGoto("handshake")
  /\ UNCHANGED <<processVars, clientsLock, listVars, addr, threadID, pc>>

\* accept() fails after select() reported the connection.
Main_AcceptFails ==
  /\ mainPc = "select"
  /\ \E c \in Clients : pc[c] = "none"
  /\ MainGoto("test")
  /\ UNCHANGED <<processVars, conn, clientsLock, listVars, addr, threadID, pc>>

\* SSL_accept() waits for the peer and succeeds.
Main_HandshakeSucceeds ==
  /\ mainPc = "handshake"
  /\ MainGoto("limit")
  /\ UNCHANGED <<processVars, conn, clientsLock, listVars, addr, threadID, pc>>

\* The connection is closed without a thread.
Refuse ==
  /\ Goto(conn, "exited")
  /\ conn' = Null
  /\ MainGoto("test")
  /\ UNCHANGED <<processVars, clientsLock, listVars, addr, threadID>>

Main_HandshakeFails == mainPc = "handshake" /\ Refuse

\* Mutant: off by one.
HasRoom_OffByOne == Len(clients) <= MaxConnections

\* clients->length is read without holding clientsLock.
HasRoom == Len(clients) < MaxConnections

Main_LimitReached ==
  /\ mainPc = "limit"
  /\ ~HasRoom
  /\ Refuse

Main_LimitNotReached ==
  /\ mainPc = "limit"
  /\ HasRoom
  /\ MainGoto("append")
  /\ UNCHANGED <<processVars, conn, clientsLock, listVars, addr, threadID, pc>>

\* The critical section up to pthread_create(): the new thread runs at once.
Main_Append ==
  /\ mainPc = "append"
  /\ clientsLock' = TRUE
  /\ clients' = Append(clients, conn)
  /\ current' = CursorAfterAppend(clients, current, conn)
  /\ mem' = [mem EXCEPT ![conn] = "live"]
  /\ \E block \in FreeBlocks(conn) : addr' = [addr EXCEPT ![conn] = block]
  /\ Goto(conn, "spawned")
  /\ MainGoto("setid")
  /\ UNCHANGED <<processVars, conn, threadID>>

\* last->threadID = clientThreadID, the end of the critical section.
Main_StoreThreadID ==
  /\ mainPc = "setid"
  /\ threadID' = [threadID EXCEPT ![conn] = TRUE]
  /\ clientsLock' = FALSE
  /\ conn' = Null
  /\ MainGoto("test")
  /\ UNCHANGED <<processVars, listVars, addr, pc>>

\* The loop of pthread_join() calls at the end.  The threads are detached, so
\* pthread_join() fails at once; the cursor is not rewound and List_next is
\* called without the lock: it reads the cursor ...
Main_JoinRead ==
  /\ mainPc = "join"
  /\ conn' = current
  /\ MainGoto("joinnext")
  /\ UNCHANGED <<processVars, clientsLock, listVars, addr, threadID, pc>>

\* ... and then follows the node it has read and moves the cursor on.
Main_JoinNext ==
  /\ mainPc = "joinnext"
  /\ \E node \in NextData(clients, conn) :
       /\ current' = CursorAfterNext(clients, node)
       /\ conn' = Null
       /\ MainGoto(IF node = Null THEN "freelist" ELSE "join")
  /\ UNCHANGED <<processVars, clientsLock, clients, mem, addr, threadID, pc>>

Main_FreeList ==
  /\ mainPc = "freelist"
  /\ clients' = <<>>
  /\ current' = Null
  /\ mem' = [c \in Clients |-> IF c \in ToSet(clients) THEN "lost" ELSE mem[c]]
  /\ heap' = heap \ {"clients"}
  /\ MainGoto("joinbcast")
  /\ UNCHANGED <<process, terminate, conn, clientsLock, addr, threadID, pc>>

\* pthread_join() of the broadcast thread, CQueue_free(), Server_free().
Main_Finish ==
  /\ mainPc = "joinbcast"
  /\ bpc = "exited"
  /\ heap' = heap \ {"messages"}
  /\ process' = "stopped"
  /\ MainGoto("done")
  /\ UNCHANGED <<terminate, conn, clientsLock, listVars, addr, threadID, pc>>

\* What the main thread does by itself, and what it does when a peer acts.
MainStep ==
  /\ \/ Main_NewList \/ Main_NewQueue \/ Main_Test \/ Main_Select
     \/ Main_LimitReached \/ Main_LimitNotReached
     \/ Main_Append \/ Main_StoreThreadID
     \/ Main_JoinRead \/ Main_JoinNext \/ Main_FreeList \/ Main_Finish
  /\ UNCHANGED <<sessionVars, queueVars, bcastVars>>

PeerStep ==
  /\ \/ \E c \in Clients : Main_Accept(c)
     \/ Main_AcceptFails \/ Main_HandshakeSucceeds \/ Main_HandshakeFails
  /\ UNCHANGED <<sessionVars, queueVars, bcastVars>>

\* SIGINT or SIGTERM: Server_stop.  No thread masks them: the handler runs in
\* the main thread, where it interrupts a select() that is blocked, or in
\* another thread.
Signal ==
  /\ ~terminate
  /\ terminate' = TRUE
  /\ \/ mainPc = "select" /\ MainGoto("test")
     \/ UNCHANGED mainPc
  /\ UNCHANGED <<process, heap, conn, clientsLock, listVars, addr, threadID,
                 pc, sessionVars, queueVars, bcastVars>>

-----------------------------------------------------------------------------
(* A connection's thread: Server_handleClient, Server_authenticate. *)

\* me != client->threadID
Client_CheckThread(c) ==
  /\ pc[c] = "spawned"
  /\ Goto(c, IF View(c) = c /\ threadID[c] THEN "welcome" ELSE "mismatch")
  /\ UNCHANGED <<listVars, sessionVars, queueVars>>

\* The welcome message.
Client_Welcome(c) ==
  /\ pc[c] = "welcome"
  /\ \/ Usable(c) /\ Goto(c, "auth")
     \/ MayFail(c) /\ Goto(c, "dropWelcome")
  /\ UNCHANGED <<listVars, sessionVars, queueVars>>

\* Mutant: the connection is said to leave although it never joined.
Client_AuthFails_Announced(c) ==
  /\ pc[c] = "auth"
  /\ Goto(c, "leave")
  /\ UNCHANGED <<listVars, sessionVars, queueVars>>

\* The request for a nickname cannot be sent; or a timeout, a closed
\* connection, an unparsable read or an invalid nickname.  (Any message but a
\* /nick, /quit included, leaves the loop of Server_authenticate where it was.)
Client_AuthFails(c) ==
  /\ pc[c] = "auth"
  /\ Goto(c, "dropAuth")
  /\ UNCHANGED <<listVars, sessionVars, queueVars>>

\* Server_getClientInfoForNickname, under the lock.
NickTaken(nick) == \E d \in ToSet(clients) : nickname[d] = nick

\* A valid /nick: the nickname is looked up and the lock is released.
Client_AuthNick(c, nick) ==
  /\ pc[c] = "auth"
  /\ Usable(c)
  /\ ~clientsLock
  /\ \/ /\ NickTaken(nick)
        /\ Goto(c, "dropAuth")
        /\ UNCHANGED want
     \/ /\ ~NickTaken(nick)
        /\ Goto(c, "claim")
        /\ want' = [want EXCEPT ![c] = nick]
  /\ UNCHANGED <<listVars, nickname, buffer, reads, queueVars>>

\* The thread looks for its own entry under the lock.
Client_Claim(c) ==
  /\ pc[c] = "claim"
  /\ ~clientsLock
  /\ "clients" \in heap
  /\ Goto(c, IF c \in ToSet(clients) /\ threadID[c] THEN "name" ELSE "dropAuth")
  /\ UNCHANGED <<listVars, sessionVars, queueVars>>

\* It writes the nickname after it has released the lock.
Client_Name(c) ==
  /\ pc[c] = "name"
  /\ nickname' = IF View(c) = Null THEN nickname
                                   ELSE [nickname EXCEPT ![View(c)] = want[c]]
  /\ want' = [want EXCEPT ![c] = Null]
  /\ Goto(c, "hello")
  /\ UNCHANGED <<listVars, buffer, reads, queueVars>>

\* The hello message.
Client_Hello(c) ==
  /\ pc[c] = "hello"
  /\ \/ Usable(c) /\ Goto(c, "announce")
     \/ MayFail(c) /\ Goto(c, "dropHello")
  /\ UNCHANGED <<listVars, sessionVars, queueVars>>

\* The announcement that a client has joined.
Client_Announce(c) ==
  /\ pc[c] = "announce"
  /\ Broadcast("joined", c)
  /\ Goto(c, "chat")
  /\ UNCHANGED <<listVars, sessionVars>>

\* while(!terminate)
Client_Test(c) ==
  /\ pc[c] = "chat"
  /\ Goto(c, IF terminate THEN "leave" ELSE "wait")
  /\ UNCHANGED <<listVars, sessionVars, queueVars>>

\* select() times out, or Server_receive() reports a closed connection.
Client_WaitEnds(c) ==
  /\ pc[c] = "wait"
  /\ Goto(c, "leave")
  /\ UNCHANGED <<listVars, sessionVars, queueVars>>

\* select() is interrupted or reports a socket error: back to the test.
Client_WaitInterrupted(c) ==
  /\ pc[c] = "wait"
  /\ Goto(c, "chat")
  /\ UNCHANGED <<listVars, sessionVars, queueVars>>

\* Server_receive() clears the buffer, whatever is left in it, and reads.
Client_Receive(c) ==
  /\ pc[c] = "wait"
  /\ Usable(c)
  /\ reads[c] < MaxReads
  /\ reads' = [reads EXCEPT ![c] = reads[c] + 1]
  /\ \E data \in Reads : buffer' = [buffer EXCEPT ![View(c)] = data]
  /\ Goto(c, "parse")
  /\ UNCHANGED <<listVars, nickname, want, queueVars>>

\* The buffer found through the pointer; there is nothing in zeroed memory.
BufferOf(c) == IF View(c) = Null THEN <<>> ELSE buffer[View(c)]

\* C2HMessage_get() finds nothing more in the buffer.
Client_NoMessage(c) ==
  /\ pc[c] = "parse"
  /\ BufferOf(c) # <<>> => Head(BufferOf(c)) = "unparsable"
  /\ Goto(c, "chat")
  /\ UNCHANGED <<listVars, sessionVars, queueVars>>

\* C2HMessage_get() returns the next message of the buffer.
Take(c, kind) ==
  /\ pc[c] = "parse"
  /\ BufferOf(c) # <<>> /\ Head(BufferOf(c)) = kind
  /\ buffer' = [buffer EXCEPT ![View(c)] = Tail(BufferOf(c))]

Client_Quit(c) ==
  /\ Take(c, "quit")
  /\ Goto(c, "leave")
  /\ UNCHANGED <<listVars, nickname, want, reads, queueVars>>

\* The message is acknowledged, queued and freed, which sets message to NULL:
\* that is also the end of the loop over the buffer.  If the acknowledgement
\* cannot be sent the message is not queued and the loop goes on.
Client_Message(c) ==
  /\ Take(c, "msg")
  /\ \/ Usable(c) /\ Goto(c, "chat") /\ Broadcast("msg", c)
     \/ MayFail(c) /\ UNCHANGED <<pc, queueVars>>
  /\ UNCHANGED <<listVars, nickname, want, reads>>

\* An empty /msg, or a type that the server does not handle.
Client_Ignore(c) ==
  /\ Take(c, "blank") \/ Take(c, "other")
  /\ UNCHANGED <<pc, listVars, nickname, want, reads, queueVars>>

\* Mutant: the announcement has the wrong type.
Client_Leave_WrongType(c) ==
  /\ pc[c] = "leave"
  /\ Broadcast("quit", c)
  /\ Goto(c, "dropEnd")
  /\ UNCHANGED <<listVars, sessionVars>>

\* After the loop: the announcement that the client has left.
Client_Leave(c) ==
  /\ pc[c] = "leave"
  /\ Broadcast("left", c)
  /\ Goto(c, "dropEnd")
  /\ UNCHANGED <<listVars, sessionVars>>

\* Server_dropClient returns, and the thread goes on where it was called.
Client_DropReturns(c) ==
  /\ pc[c] \in DOMAIN After
  /\ DropThreadless(c)
  /\ Goto(c, After[pc[c]])
  /\ UNCHANGED <<sessionVars, queueVars>>

\* Server_dropClient ends the thread.
Client_Drop(c) ==
  /\ pc[c] \in DOMAIN After
  /\ DropThreaded(c, IF mem[c] = "live" THEN "freed" ELSE "lost")
  /\ Goto(c, "exited")
  /\ UNCHANGED <<sessionVars, queueVars>>

ClientStep(c) ==
  /\ \/ Client_CheckThread(c) \/ Client_Welcome(c)
     \/ Client_AuthFails(c)
     \/ \E nick \in Nicks : Client_AuthNick(c, nick)
     \/ Client_Claim(c) \/ Client_Name(c) \/ Client_Hello(c)
     \/ Client_Announce(c)
     \/ Client_Test(c) \/ Client_WaitEnds(c) \/ Client_WaitInterrupted(c)
     \/ Client_Receive(c) \/ Client_NoMessage(c) \/ Client_Quit(c)
     \/ Client_Message(c) \/ Client_Ignore(c)
     \/ Client_Leave(c) \/ Client_DropReturns(c) \/ Client_Drop(c)
  /\ UNCHANGED <<processVars, mainVars, addr, threadID, bcastVars>>

\* The thread looks for itself in a list that Server_start has freed.
Client_Crash(c) ==
  /\ pc[c] = "claim"
  /\ "clients" \notin heap
  /\ Crash

-----------------------------------------------------------------------------
(* The broadcast thread: Server_handleBroadcast. *)

BcastGoto(label) == bpc' = label

\* The next turn of the inner loop; client is declared inside it.
Continue == BcastGoto("iter") /\ handle' = Null

\* CQueue_tryPop
Bcast_Pop ==
  /\ bpc = "pop"
  /\ "messages" \in heap
  /\ IF messages = <<>>
     THEN BcastGoto("sleep") /\ UNCHANGED <<messages, item>>
     ELSE /\ item' = Head(messages)
          /\ messages' = Tail(messages)
          /\ BcastGoto("rewind")
  /\ UNCHANGED <<listVars, log, handle, got>>

\* List_rewind, without the lock: nothing happens if the list is empty ...
Bcast_Rewind ==
  /\ bpc = "rewind"
  /\ "clients" \in heap
  /\ BcastGoto(IF clients = <<>> THEN "iter" ELSE "first")
  /\ UNCHANGED <<listVars, queueVars, item, handle, got>>

\* ... else the first node is read (none if the list has become empty) ...
Bcast_First ==
  /\ bpc = "first"
  /\ handle' = FirstNode(clients)
  /\ BcastGoto("rewound")
  /\ UNCHANGED <<listVars, queueVars, item, got>>

\* Mutant: the cursor is not moved back.
Bcast_Rewound_Unmoved ==
  /\ bpc = "rewound"
  /\ Continue
  /\ UNCHANGED <<listVars, queueVars, item, got>>

\* ... and the cursor is moved to it, even if it has been deleted since.
Bcast_Rewound ==
  /\ bpc = "rewound"
  /\ current' = IF "clients" \in heap THEN handle ELSE current
  /\ Continue
  /\ UNCHANGED <<clients, mem, queueVars, item, got>>

\* The message has been sent around and is freed.
ItemDone == BcastGoto("sleep") /\ item' = 0 /\ UNCHANGED handle

\* The inner while (!terminate)
Bcast_Test ==
  /\ bpc = "iter"
  /\ IF terminate THEN ItemDone ELSE BcastGoto("next") /\ UNCHANGED <<item, handle>>
  /\ UNCHANGED <<listVars, queueVars, got>>

\* List_next under the lock, which is then released.
Bcast_Next ==
  /\ bpc = "next"
  /\ "clients" \in heap
  /\ ~clientsLock
  /\ \E node \in NextData(clients, current) :
       /\ current' = CursorAfterNext(clients, node)
       /\ IF node = Null THEN ItemDone
                         ELSE BcastGoto("name") /\ handle' = node /\ UNCHANGED item
  /\ UNCHANGED <<clients, mem, queueVars, got>>

\* Mutant: everybody counts as authenticated.
Authenticated_Always(c) == TRUE

\* The structure behind the pointer has a nickname.
Authenticated(c) == NickOf(c) # Null

\* Mutant: passing over a client starts the round again.
Bcast_Skip_Restarts ==
  /\ bpc = "name"
  /\ ~Authenticated(handle)
  /\ BcastGoto("rewind")
  /\ UNCHANGED <<listVars, queueVars, item, handle, got>>

\* Clients without a nickname are passed over.
Bcast_Skip ==
  /\ bpc = "name"
  /\ ~Authenticated(handle)
  /\ Continue
  /\ UNCHANGED <<listVars, queueVars, item, got>>

\* There is a nickname, or what the allocator left in freed memory.
Bcast_Named ==
  /\ bpc = "name"
  /\ Authenticated(handle) \/ View(handle) = Null
  /\ BcastGoto("send")
  /\ UNCHANGED <<listVars, queueVars, item, handle, got>>

\* Server_send, to whatever the pointer leads to by now.
Bcast_Send ==
  /\ bpc = "send"
  /\ Usable(handle)
  /\ got' = [got EXCEPT ![View(handle)] = Append(got[View(handle)], item)]
  /\ Continue
  /\ UNCHANGED <<listVars, queueVars, item>>

Bcast_SendFails ==
  /\ bpc = "send"
  /\ MayFail(handle)
  /\ BcastGoto("drop")
  /\ UNCHANGED <<listVars, queueVars, item, handle, got>>

Bcast_DropReturns ==
  /\ bpc = "drop"
  /\ DropThreadless(handle)
  /\ Continue
  /\ UNCHANGED <<queueVars, item, got>>

\* Server_dropClient by the broadcast thread: it is this thread that ends.
Bcast_Drop ==
  /\ bpc = "drop"
  /\ DropThreaded(handle, "lost")
  /\ BcastGoto("exited")
  /\ handle' = Null
  /\ UNCHANGED <<queueVars, item, got>>

\* Mutant: the outer loop does not look at terminate.
Bcast_Sleep_Forever ==
  /\ bpc = "sleep"
  /\ BcastGoto("pop")
  /\ UNCHANGED <<listVars, queueVars, item, handle, got>>

\* nanosleep(), then the outer while (!terminate)
Bcast_Sleep ==
  /\ bpc = "sleep"
  /\ BcastGoto(IF terminate THEN "exited" ELSE "pop")
  /\ UNCHANGED <<listVars, queueVars, item, handle, got>>

BcastStep ==
  /\ \/ Bcast_Pop \/ Bcast_Rewind \/ Bcast_First \/ Bcast_Rewound
     \/ Bcast_Test \/ Bcast_Next \/ Bcast_Skip \/ Bcast_Named
     \/ Bcast_Send \/ Bcast_SendFails
     \/ Bcast_Drop \/ Bcast_DropReturns \/ Bcast_Sleep
  /\ UNCHANGED <<processVars, mainVars, addr, threadID, pc, sessionVars>>

\* The queue is not there yet, or the list is not there any more.
Bcast_Crash ==
  /\ \/ bpc = "pop" /\ "messages" \notin heap
     \/ bpc \in {"rewind", "next"} /\ "clients" \notin heap
  /\ Crash

-----------------------------------------------------------------------------
Next ==
  /\ process = "running"
  /\ \/ MainStep \/ PeerStep \/ Signal
     \/ \E c \in Clients : ClientStep(c) \/ Client_Crash(c)
     \/ BcastStep \/ Bcast_Crash

Spec == Init /\ [][Next]_vars

\* The scheduler runs the main thread and the broadcast thread; peers, signals
\* and connection threads owe nothing.
Fairness ==
  /\ WF_vars(process = "running" /\ MainStep)
  /\ WF_vars(process = "running" /\ (BcastStep \/ Bcast_Crash))

FairSpec == Spec /\ Fairness

-----------------------------------------------------------------------------
(* Correctness. *)

\* Server_start counts the list outside the lock and appends later, yet the
\* list never grows beyond server->maxConnections: only the main thread
\* appends, and what the others do in between can only make room.
ConnectionLimit == Len(clients) <= MaxConnections

\* Server_dropClient and List_delete release the slot of a connection exactly
\* when its structure is freed: no connection holds two slots, none whose
\* structure is gone keeps one (not even if another thread freed it), and one
\* whose thread has ended keeps its slot only if it was dropped as threadless
\* before its thread id had been stored.
SlotsBelongToThreads ==
  /\ IsInjective(clients)
  /\ \A c \in Clients :
       c \in ToSet(clients) <=>
         mem[c] = "closed" \/ (mem[c] = "live" /\ pc[c] \in Alive)

\* List_rewind does nothing on an empty list, so a broadcast to nobody is safe
\* only because List_delete leaves the cursor at the end when the list empties,
\* even if it was dangling before.  The rewind itself takes no lock and may put
\* the cursor on a node deleted meanwhile; that lasts no longer than its own
\* round, until the server is told to stop.
EmptyListHasNoCursor ==
  clients = <<>> /\ current # Null => terminate \/ bpc \in {"iter", "next"}

\* The structure of the connection is in a block that another one had before.
Recycled(c) == addr[c] # c

\* Server_handleBroadcast tests the nickname and sends without a lock: what it
\* sends through one structure may come out at a later connection that was
\* given the same block and has no nickname yet, but never at an
\* unauthenticated connection whose structure is in a block of its own.
OnlyAuthenticatedReceive ==
  \A c \in Observed : got[c] # <<>> => nickname[c] # Null \/ Recycled(c)

\* Every connection sees the broadcasts in the order in which they were
\* queued, whatever happens to the list while the cursor walks it.
DeliveryOrder ==
  \A c \in Observed : \A i, j \in DOMAIN got[c] :
    i < j => got[c][i] <= got[c][j]

\* No structure has been freed under a running thread, nor one with a handle
\* that was closed before.
Sound == \A c \in Clients : mem[c] # "lost"

\* The queue sees each thread announce its client, then talk, then say that it
\* has left, even a thread whose structure has been freed or given to another
\* connection, and one that goes on after a threadless drop.  Until a
\* structure is freed under a running thread, every message names the client
\* by the nickname it was authenticated with, and the only ones without a
\* nickname come from a connection closed as threadless.
SessionBracketing ==
  \A i \in DOMAIN log :
    LET earlier == {j \in 1 .. (i - 1) : log[j].from = log[i].from}
    IN  /\ (log[i].type = "joined") <=> (earlier = {})
        /\ \A j \in earlier : log[j].type # "left"
        /\ Sound => /\ log[i].nick = nickname[log[i].from]
                    /\ log[i].nick = Null => mem[log[i].from] = "closed"

\* The broadcast thread has finished with the k-th message.
Finished(k) == k \in DOMAIN log /\ k \notin ToSet(messages) /\ k # item

\* The client had joined, with a nickname, when the k-th message was queued.
JoinedBy(c, k) ==
  \E j \in 1 .. k : log[j].type = "joined" /\ log[j].from = c /\ log[j].nick # Null

\* Nobody has left, and the server has not been told to stop.
Undisturbed == ~terminate /\ \A c \in Clients : mem[c] \notin {"freed", "lost"}

\* While nobody leaves, connections that come and go through authentication
\* do not disturb the walk of the cursor: every message has been sent once,
\* and only once, to every client that had joined when it was queued.
ExactDelivery ==
  Undisturbed =>
    \A c \in Observed :
      /\ IsInjective(got[c])
      /\ \A k \in DOMAIN log :
           Finished(k) /\ JoinedBy(c, k) => k \in ToSet(got[c])

\* The broadcast thread comes back to the queue again and again, so that every
\* queued message is taken and sent around: no list, and no change of the list
\* under the cursor, makes a round endless, as long as nobody leaves, the
\* server runs and is not told to stop.
RoundsEnd == []<>(bpc = "pop" \/ ~Undisturbed \/ process # "running")

\* A signal that the main loop notices ends the process: neither the loop of
\* joins nor the broadcast thread can hold the main thread for ever.
NoticedSignalStops ==
  terminate /\ mainPc = "test" ~> process # "running"

-----------------------------------------------------------------------------
(* The inductive invariant behind the connection limit and the slots. *)

\* The room that Server_start saw is still there when it appends.
RoomIsKept == mainPc = "append" => HasRoom

\* The connection being accepted has no thread before Server_start makes one.
AcceptedIsNew ==
  /\ mainPc \in {"handshake", "limit", "append", "setid"} => conn \in Clients
  /\ mainPc \in {"handshake", "limit", "append"} => pc[conn] = "none"

\* A structure is not there before its thread, and one that has not been closed
\* does not outlive it.
MemoryBelongsToThread ==
  \A c \in Clients :
    /\ pc[c] = "none" => mem[c] = "none"
    /\ mem[c] = "live" => pc[c] \in Alive

\* The broadcast thread works on a client only after List_next returned one.
HandleIsClient ==
  bpc \in {"name", "send", "drop"} => handle \in Clients /\ mem[handle] # "none"

\* A structure gets a block of another one only after that one has been freed.
BlocksAreReused ==
  /\ \A c \in Clients : Recycled(c) => mem[c] # "none" /\ mem[addr[c]] \in {"freed", "lost"}
  /\ \A c, d \in Clients : Held(c) /\ Held(d) /\ addr[c] = addr[d] => c = d

\* What every step of every thread preserves, and from which the connection
\* limit, the slots and the cursor of the empty list follow.
ServerInvariant ==
  /\ TypeOK
  /\ SlotsBelongToThreads
  /\ ConnectionLimit
  /\ EmptyListHasNoCursor
  /\ RoomIsKept
  /\ AcceptedIsNew
  /\ MemoryBelongsToThread
  /\ HandleIsClient
  /\ BlocksAreReused

-----------------------------------------------------------------------------
(* The inductive invariant behind the announcements and nicknames. *)

\* The states of a thread before it has written its nickname.
Unnamed == {"none", "spawned", "mismatch", "welcome", "dropWelcome", "auth",
            "claim", "name"}

\* The states that a thread reaches with a nickname, unless it was closed.
Named == {"hello", "dropHello", "announce", "dropEnd"} \cup InChat

\* Threads are made after the queue and the queue goes after the last step, so
\* no announcement is lost to a null queue; the list goes before.
QueueOutlivesThreads ==
  /\ mainPc \in {"newlist", "newqueue"} => \A c \in Clients : pc[c] = "none"
  /\ mainPc = "done" => process # "running"
  /\ mainPc \in {"newlist", "newqueue", "done"} \/ "messages" \in heap
  /\ mainPc \in {"newlist", "joinbcast", "done"} \/ "clients" \in heap

\* Every thread id has been stored, but for the critical section that does it,
\* and a thread that claims a nickname knows it.
ThreadsHaveData ==
  /\ clientsLock <=> mainPc = "setid"
  /\ \A c \in Clients :
       /\ mem[c] # "none" /\ ~threadID[c] => mainPc = "setid" /\ conn = c
       /\ pc[c] \in {"claim", "name"} => want[c] \in Nicks

\* A thread writes the nickname of its own structure, when it says so; after
\* that the structure has a thread id and is neither closed nor shared.
NamesAreClaimed ==
  \A c \in Clients :
    /\ pc[c] \in Unnamed => nickname[c] = Null
    /\ pc[c] \in Named => nickname[c] # Null \/ mem[c] = "closed"
    /\ nickname[c] # Null => threadID[c] /\ mem[c] \in {"live", "freed"}
    /\ pc[c] \in {"claim", "name"} => mem[c] = "live" /\ threadID[c]
    /\ pc[c] \in Alive => Held(c)

\* What the log says of a connection agrees with where its thread is.
LogMatchesThreads ==
  \A c \in Clients :
    LET said == {i \in DOMAIN log : log[i].from = c}
    IN  /\ pc[c] \in Unannounced \cup {"none"} => said = {}
        /\ pc[c] \in InChat => said # {} /\ \A i \in said : log[i].type # "left"

\* The broadcast thread has seen a nickname in the structure it sends to, or
\* that structure came to its block later.
HandleIsNamed ==
  bpc \in {"send", "drop"} =>
    \A c \in Clients :
      Held(c) /\ addr[c] = addr[handle] => nickname[c] # Null \/ Recycled(c)

SessionInvariant ==
  /\ QueueOutlivesThreads
  /\ ThreadsHaveData
  /\ Sound => NamesAreClaimed
  /\ LogMatchesThreads
  /\ SessionBracketing
  /\ HandleIsNamed
  /\ OnlyAuthenticatedReceive

-----------------------------------------------------------------------------
(* The inductive invariant behind the delivery of the broadcasts. *)

\* The loop of Server_start ends only on a signal.
StopsWhenTold ==
  mainPc \in {"join", "joinnext", "freelist", "joinbcast", "done"} => terminate

\* The queue holds the latest messages of the log in order, after the one the
\* broadcast thread is sending around.
QueueIsOrdered ==
  /\ \A i \in DOMAIN messages : item < messages[i] /\ messages[i] <= Len(log)
  /\ \A i, j \in DOMAIN messages : i < j => messages[i] < messages[j]
  /\ item <= Len(log)
  /\ bpc \in {"pop", "sleep"} => item = 0
  /\ bpc \notin {"pop", "sleep", "exited"} => item # 0

\* Nothing sent so far comes after what is still to be sent.
SentBeforeQueue ==
  \A c \in Observed : \A k \in ToSet(got[c]) :
    /\ k <= Len(log)
    /\ item # 0 => k <= item
    /\ \A i \in DOMAIN messages : k < messages[i]

\* The walk of the cursor has not come past a connection.
Ahead(c) ==
  \E i, j \in DOMAIN clients : clients[i] = current /\ clients[j] = c /\ i <= j

\* List_next has returned a connection, which is neither sent to nor skipped.
InHand(c) == bpc \in {"name", "send"} /\ handle = c

\* In a round of the broadcast thread that nobody disturbs, whoever is owed
\* the message either has it, once, or has its turn still to come.
RoundIsExact ==
  /\ current = Null \/ current \in ToSet(clients)
  /\ bpc \in {"name", "send"} => handle \in ToSet(clients)
  /\ bpc = "first" => clients # <<>>
  /\ bpc = "rewound" => clients # <<>> /\ handle = FirstNode(clients)
  /\ bpc \in {"rewind", "first", "rewound"} =>
       \A c \in Observed : item \notin ToSet(got[c])
  /\ bpc \in {"iter", "next", "name", "send"} =>
       \A c \in Observed :
         /\ JoinedBy(c, item) => item \in ToSet(got[c]) \/ Ahead(c) \/ InHand(c)
         /\ InHand(c) => item \notin ToSet(got[c])
         /\ InHand(c) \/ item \in ToSet(got[c]) => ~Ahead(c)

DeliveryInvariant ==
  /\ StopsWhenTold
  /\ QueueIsOrdered
  /\ SentBeforeQueue
  /\ DeliveryOrder
  /\ Undisturbed => RoundIsExact
  /\ ExactDelivery

-----------------------------------------------------------------------------
(* What comments and documents say and the code does not do. *)

\* Server_authenticate: no two connected clients have the same nickname.
UniqueNicknames ==
  \A c, d \in ToSet(clients) :
    c # d /\ nickname[c] # Null => nickname[c] # nickname[d]

\* Server_handleBroadcast: the broadcast thread comes back to the queue again
\* and again until the server is told to stop, even if a message cannot be sent
\* to a client (whose own thread goes on).
BroadcastGoesOn ==
  []<>(\/ bpc = "pop"
       \/ terminate
       \/ process # "running"
       \/ \E c \in Clients : pc[c] = "exited")
=============================================================================
