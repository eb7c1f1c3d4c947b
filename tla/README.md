# Formal models of c2hat

c2hat is a small chat system in C: a multi-threaded server, a terminal client
with two threads, and a handful of data structures the two share. This
directory holds TLA+ models of its concurrent core, of the protocol between the
two programs and of the client's windows, TLC configurations that check them on
small instances, and TLAPS proofs about them.

Paths of source files below are relative to the root of the repository
(`src/server/server.c` and so on).

## 1. Inventory

### Components, state, operations

| Component | Source | State | Operations |
|---|---|---|---|
| chat server | `src/server/server.c` | `clients` (list with cursor), `messages` (queue), `terminate`, `clientsLock`; per connection a `Client` (socket, SSL handle, thread id, nickname, buffer) | `Server_start`, `Server_stop`, `Server_handleClient`, `Server_authenticate`, `Server_receive`, `Server_broadcastMessage`, `Server_handleBroadcast`, `Server_dropClient` |
| linked list | `src/lib/list/list.c` | doubly linked nodes, length, one cursor | append, prepend, insert, update, delete, search, next, prev, rewind, sort, free |
| queue, concurrent queue | `src/lib/queue/queue.c`, `src/lib/cqueue/cqueue.c` | singly linked nodes, first, last, length; lock and condition | push, tryPop, waitAndPop, free |
| message framing | `src/lib/message/message.c` | a byte buffer with a start offset | create, format, parse, get the next message |
| server control | `src/server/commands.c`, `pid.c`, `main.c`, `src/lib/config/config.c` | PID file, shared memory with the configuration | start, stop, status |
| client application | `src/client/app.c`, `ui.c`, `client.c` | two `terminate` flags, `update`, `resize`, queue of messages, `mainThreadID` | `App_start`, `App_run`, `App_listen`, `App_updateHandler`, `App_handleSignal`, `UIInputLoop`, connect and authenticate |
| chat log window | `src/client/uichat.c`, `uilog.c` | bounded list of entries, mode (live, browse), first entry of the page, dictionary of colours | `UIChatWin_logMessage`, `setMode`, `previousPage`, `nextPage`, `render`, `destroy` |
| input window | `src/client/uiinput.c` | cells of an ncurses window, `cursor`, `eom`, `eob` | `UIInputWin_addChar`, `delete`, `moveCursor`, `commit`, `reset`, `init`, `render` |
| hash table | `src/lib/hash/hash.c` | chained buckets, length | set, get, delete, purge |
| sockets, settings, logger, files, encryption, strings, INI parser, drawing | `src/lib/...` | little or none | wrappers of system and library calls |

### How they interact

* **Server.** The main thread accepts a connection, appends a `Client` to the
  list and creates a detached thread for it. Each such thread authenticates its
  peer, then reads messages, acknowledges them and pushes them on the queue. The
  broadcast thread polls the queue and, for every message, walks the list with
  the list's only cursor. The list is protected by `clientsLock`, but not
  everywhere: its length is read, its cursor is rewound and it is walked and
  freed at the end without the lock, and a `Client` that was found under the
  lock is used after it has been released.
* **Client.** The listening thread reads from the server, pushes on a queue and
  sends `SIGUSR2` to the main thread, whose `wget_wch()` it interrupts. Signal
  handlers set flags, and flags are looked at when `wget_wch()` returns.
* **Between the two.** A TLS stream of zero-terminated messages. A read may
  bring several of them or a part of one. A session begins with a dialogue:
  welcome, prompt for a nickname, nickname, greeting or error. The server sends
  broadcasts to a client as soon as it has a nickname, which is before the
  greeting.
* **Within the client's screen.** The chat log window caches entries in a list
  and colours in a hash table that redrawing fills and departures shrink; keys
  go to the input window or page through the log, and a new terminal size
  redraws both.

### What is hard here

Races between the lookup and the claim of a nickname, between the walk of the
cursor and the deletion of nodes, between a thread and the `Client` that another
thread frees; a new thread that runs before its id is stored; a broadcast thread
that starts before the list and the queue exist; threads that outlive what they
use at shutdown; signals that come just before a blocking call; failing sends
and allocations; several messages in one read, or a part of one; text that looks
like a user name to one of two parsers; servers and commands that find, or
remove, the PID file and the shared memory of another; broadcasts, interruptions
and time-outs in the middle of a login; pages that are positions in a list that
moves; two counters that must follow a cursor through the rows of a window.
`PROJECT.json` lists them line by
line under `hazards`, with the properties that are about each.

### What makes each component correct

* server: connections stay within the limit; a slot is held exactly as long as
  the structure of its client; nobody unauthenticated is sent anything; messages
  arrive in order, once, at everybody who joined; sessions appear as joined,
  messages, left;
  rounds of broadcast end; a signal that is noticed stops the server;
* queue: it is a first-in first-out queue, owns its nodes, forgets no waiter;
* client: a login ends, and a client that chats is one that the server has
  accepted and greeted; messages reach the screen unchanged in number and order;
  nothing is freed under the listening thread; leaving ends the process;
* message framing: the messages of what was read are returned once and in order,
  as far as the reader goes, nothing of an earlier read comes back, the scan stays
  in the buffer;
  the author that is shown is the sender, and the text is the one that was typed;
* server control: starts exclude each other; a running server can be found by
  stop and status; nothing is left behind by servers that end in order;
* chat log window: the log is the tail of what came; in live mode the window
  shows its end; pages exist and follow each other; a user keeps a colour;
* input window: the index follows the cursor, the cursor stays in the text, what
  is typed is what is there;
* hash table: it is a finite map with a right count, whatever keys collide.

## 2. Modules

| Module | Models | Kind |
|---|---|---|
| `LinkedList` | what the operations of `list.c` that the server uses do to the nodes and to the cursor | operators |
| `ChatServer` | `server.c`: all threads of a running server | specification, properties |
| `MCChatServer` | reads and symmetry for TLC | instance |
| `ChatServerProofs` | theorems about `ChatServer` | proofs |
| `FIFO` | what `queue.h` and `cqueue.h` promise | abstract specification |
| `ConcurrentQueue` | `queue.c` and `cqueue.c`, with nodes and pointers | specification, refinement of `FIFO` |
| `ConcurrentQueueProofs` | theorems about `ConcurrentQueue`, the refinement among them | proofs |
| `ClientApp` | `app.c`, `ui.c`, `client.c`: the login with the server's side of it, then the two threads of the client | specification, properties |
| `MCClientApp` | reads for TLC | instance |
| `ClientAppProofs` | theorems about `ClientApp` | proofs |
| `HashTable` | `hash.c`: what its operations do to the chains and the count | operators |
| `ChatWindow` | `uichat.c`, `uilog.c` and the keys that page | specification, properties |
| `MCChatWindow` | users whose keys collide | instance |
| `ChatWindowProofs` | theorems about `ChatWindow` | proofs |
| `InputWindow` | `uiinput.c` and the keys that edit | specification, properties |
| `MCInputWindow` | sizes for TLC | instance |
| `InputWindowProofs` | theorems about `InputWindow` | proofs |
| `MessageBuffer` | `Server_receive`, `Client_receive` and `Message_get` on the buffer they share | specification, properties |
| `MCMessageBuffer` | records for TLC | instance |
| `MessageBufferProofs` | theorems about `MessageBuffer` | proofs |
| `MessageText` | `message.c` and its callers: what happens to a text from one keyboard to the other screens | operators, specification, properties |
| `MCMessageText` | lines for TLC | instance |
| `MessageTextProofs` | theorems about `MessageText` | proofs |
| `ServerControl` | `commands.c`, `pid.c`, `config.c`: start, stop and status | specification, properties |
| `ServerControlProofs` | theorems about `ServerControl` | proofs |

`map` in `PROJECT.json` gives the lines of the source for every definition.
Definitions whose comment begins with "Mutant" are deliberately wrong versions of
the definition that follows them; none is used by a specification. Each serves to
show that a property notices that mistake.

### ChatServer

The granularity is that of the shared state: one step per critical section and
per access outside one. `clientsLock` is a variable only because the main thread
holds it over two steps (it creates the thread inside the critical section, and
the thread runs at once); every other critical section is one step that needs
the lock to be free.

* **Connections.** A connection (`Clients`) is used once and its thread is
  named after it. `pc` is where the thread is; the `Client` structure is `none`,
  `live`, `closed` (SSL handle freed, structure in the list), `freed` (by its own
  thread) or `lost` (freed under a running thread, or with a handle that had been
  closed before).
* **Pointers.** A thread, and the broadcast thread after it has released the lock,
  holds a plain pointer to a structure. `addr` is the block of memory that holds
  the structure of a connection, and a new structure may get a block that has been
  freed (`FreeBlocks`). `View` is what the pointer leads to now: the structure, the
  structure of a later connection in the same block, or nothing that belongs to a
  client. Nicknames, buffers, sockets and thread ids are read and written through
  `View`, in every thread. Through freed memory a read finds zeroes, as
  `ListNode_free` leaves them, or whatever the allocator put there.
* **The race at the start of a thread** (`Client_CheckThread`, `Main_StoreThreadID`).
  A thread that starts before its id is stored takes itself for an impostor.
  `Server_dropClient` reads the id once more: it either ends the thread
  (`DropThreaded`), or closes the connection as that of a client without a thread,
  and returns (`DropThreadless`). The thread then goes on behind the call (`After`)
  with the next message, down to the announcement that somebody has joined.
* **The broadcast thread.** `List_rewind` is called without the lock and is three
  steps: the test for an empty list, the read of `first` and the write of `current`
  (`Bcast_Rewind`, `Bcast_First`, `Bcast_Rewound`). `List_next` is a critical section.
  The test of the nickname (`Bcast_Skip`, `Bcast_Named`) and the send (`Bcast_Send`)
  are separate steps through the pointer; the test of the socket between them is
  always true, since nothing sets a socket to an invalid value.
* **Reads** are abstracted to the kinds of the messages in the buffer:
  `msg`, `blank` (an empty `/msg`), `quit`, `other` (a type the server does not
  handle), `unparsable`. In authentication every message other than `/nick`
  leaves the loop where it was, which is a stuttering step.
* **Crashes.** A use of freed memory may also crash the process. Nothing happens
  after that, and everything before it is a behaviour here anyway, so only the
  crashes that are certain are steps (`Crash`): the null queue that the broadcast
  thread meets if it is fast, and the null list behind `List_free` in `Server_start`.
* **Joins.** Client threads are detached, so `pthread_join()` on them returns at
  once and the loop at the end only moves the cursor, without the lock and in two
  steps (`Main_JoinRead`, `Main_JoinNext`).
* **Signals.** No thread masks signals. The handler sets `terminate`; if it runs
  in the main thread while `select()` blocks, `select()` is interrupted. A
  signal between the test of `terminate` and `select()`, or one handled by
  another thread, leaves the main thread in `select()` until a peer connects,
  which is why the liveness property speaks of a signal that is noticed.
* **Histories.** `log` is every message ever queued, with the nickname that was put
  into it (the queue holds positions in it), and `got` is what each connection of
  `Observed` has been sent.

### LinkedList

The list is a sequence of nodes, the cursor a node or `Null`. A cursor that is
not in the list *dangles*. Deleting the first node moves the cursor to the new
first node, wherever it was; deleting another node leaves it, even on the
deleted node. Rewinding has no operator here: it is steps of `ChatServer`.

### ConcurrentQueue and FIFO

`first`, `last`, `length`, and `next` and `data` of each node; a bounded heap of
nodes; `calloc()` may fail in `QueueNode_new()` (whose result is not checked) and
in the copy that `Queue_dequeue` makes. What happens under the lock is one step;
waiting on the condition, being signalled after the unlock and waking for no
reason are separate. The refinement maps the queue to the data of the nodes from
`first` on. `FIFO` may lose objects at the front when memory runs out: a failed
allocation in `Queue_enqueue` makes `last` null, and the next `Queue_enqueue`
takes the queue for empty and drops what it had. `CQueue_push` reports success
all the same.

### ClientApp

The main thread begins in `App_init`: `Client_create`, `Client_connect`,
`Client_authenticate` and the start of `App_start` are one step per message of the
dialogue or per call that may fail, and a failure is `exit()` with `App_cleanup`.
`spc` is where the server's thread for this connection is in the same dialogue
(`Server_start` when it refuses, `Server_handleClient`, `Server_authenticate`);
`net` is what is on its way to the client, one element per read. Each message of
the dialogue is a read of its own, as it is a TLS record of its own. Between
storing the nickname (`server.c:732`, `Server_Accept`) and the greeting
(`server.c:808`, `Server_Hello`) the broadcast thread may send (`ServerSends`). The
client reads whatever comes as the answer and gives up if it is not `/ok`.

Then the main thread runs `App_run` with `UIInputLoop` inside it, and the
listening thread `App_listen`. `mainPc` separates the test of the flag (`loop`),
the way into `wget_wch()` (`enter`) and the blocking call (`wget_wch`), so that
signals may fall between them. Messages are told apart by their type only; a
`/quit` of the server makes the main thread signal itself. Here a key matters for
whether the loop goes on, a message is sent or the client leaves. If the listening
thread signals before `App_run` has stored `mainThreadID`, it signals thread 0,
which is undefined. Either `pthread_kill()` fails and nobody is told
(`Listen_Untold`), or it faults (`Listen_Crash`): the handler of `SIGSEGV` calls
`exit()`, and `App_cleanup` destroys the client and frees the queue in the listening
thread (`Listen_Destroy`, `Listen_Free`, `Listen_Dies`) while the main thread goes on
and may use the client (`Main_Faults`). The main thread dies if it writes to a
connection that the server has closed, as `SIGPIPE` is not handled (`Main_Killed`).

### ChatWindow and HashTable

The log is a sequence of entries, each with a serial number (a history, for the
properties), and `window` is what was written last since the window was cleared.
`lines` and `cols` are its size: an entry takes as many rows as its characters need,
one row stays free, and what is above the last rows has scrolled off. `Seen` is the
entries that are left as a whole, and `Fits` says that these are all. Every drawing asks for
the colours of the users it shows, in order; `GetUserColor`, and with it the hash
table, is a function of the dictionary and of what `rand()` returns at each entry, so
that one step draws a page. The loops over the entries of a page and over the
characters of a key are recursive functions of the number of rounds. A departure
takes the user out of the dictionary, and a redraw of older entries puts the name
in again. The table is an array of chains of nodes with a count, and a key is the
sequence of its characters' codes. `UIChatWin_destroy` frees the table by its
count.

### InputWindow

The cells of the window, the ncurses cursor `y`, `x`, and the counters `cursor`,
`eom` and `eob` of `uiinput.c`. What ncurses does is external and modelled by what
the code relies on: a move outside the window fails; inserting and deleting shift
the rest of the row and not of the text; writing the last cell succeeds and is
reported as an error. Enter is `UIInputWin_commit` and, if a message was returned,
the next call of `UIInputWin_init`. `text`, `plain` and `down` are histories: what a
message that is only typed and corrected must be, whether it is one, and whether
KEY_DOWN has been used.

### MessageBuffer

Bytes are the slash that starts a message, a byte that makes its type a known one
(`m` for a `/msg` with a text, `q` for `/quit`, `t` for the others), other bytes and
the terminator. `start` counts from 1 and is 0 for the null
pointer. A receive is one step: what is left over, if the last byte of the buffer
is not a terminator, is moved to the front, or everything is cleared, and one
`SSL_read()` puts bytes of one TLS record at `start`; a record longer than the
room comes back with the next `SSL_read()`. The terminators behind what is left over
begin one byte too far; that byte is the first of the field `start`, which is set
next. After a receive the owner of the buffer calls `C2HMessage_get`: once in the
login of either side (`login`, `client.c:329`, 518 and 564, `server.c:710`), until it
returns `NULL` in `App_listen`, and in `Server_handleClient` until it returns `NULL`, a
`/quit` or a message that is broadcast, whose freeing ends the loop
(`server.c:901`); only if that message could not be acknowledged does the loop go on.
`MayStop`, `AfterStop` and `MayGoOn` are these cases. `Message_get` computes the end of its scan before it has
moved `start` to the slash: if there is no terminator behind the slash, the scan
leaves the buffer, and the behaviour ends in `undefined`. `stream` and `got` are
histories: the records, and for each of them the messages taken out after it was read.
`FramingIsExact` compares the two for records that are made of messages, each from its
slash to its terminator, and have room in the buffer; a batch that is not complete
ends where the owner stops (`StopsEarly`).

### MessageText

A line goes through `App_run` (trim, parse, format), `Server_handleClient` (parse,
format with the nickname, create), `Server_handleBroadcast` (format) and
`App_listen` (parse). Strings are sequences of characters and are cut where
`snprintf()` cuts them; a type such as `/msg` is one character. The characters are
the constant `Char`. The parsers and formats are operators, the stations are the
actions. A nickname has no brackets and no spaces (`kRegexNicknamePattern`), and a
buffer is taken to have room for a type, the longest user and some text, which
`kBufferSize`, 1536, leaves no doubt about. `Message_getUser` accepts a word in
brackets of exactly `kMaxNicknameSize` bytes for a field of that size, and writes its
terminator into the field behind it (`Overrun`); a nickname that the server has stored
is shorter.

### ServerControl

The state is what outlives a process: the PID file, the shared memory (absent,
empty, zeroes or the settings of a server) and the port. `fd` says whether the
memory object that a starting server has opened is still the one the path names,
as somebody may have unlinked it. Every system call on these is a step of a
server (`pc`) or of a command (`cpc`). A server cleans up when it has made its PID
file; before that, and if it dies, it does not. `overlap` and `crashed` are
histories that say for which servers and behaviours the properties speak.

## 3. Runs

### Runs that pass

| Run | Instance | Shows |
|---|---|---|
| `sessions` | 2 connections, 1 slot, 1 nickname, one read of any kind each, sends may fail | the limit; each thread is queued as joined, messages, left, under its nickname |
| `delivery` | 2 connections, 2 slots, 2 nicknames, sends may fail | slots; the cursor of the empty list; nothing to the unauthenticated but through a recycled block; order; exactly-once delivery while nobody leaves |
| `liveness` | 2 connections, 2 slots, 1 nickname | rounds of broadcast end; a noticed signal stops the server |
| `queue` | 3 nodes, 2 objects, 2 producers, 2 waiters and a poller, 4 pushes, failing allocations, spurious wake-ups | the linked queue implements `FIFO`, owns its nodes, its length and pointers fit, no waiter is forgotten |
| `client` | the login, then reads of one and two messages, 3 reads, signals, keys, resizing | a login ends and means the same to both sides; messages are kept; the main thread cleans up alone; leaving and noticed requests to terminate end the process |
| `chatlog` | a log of 3 entries, 5 messages, windows of 2 and 3 rows and 2 and 4 columns or none, entries of 1 and 3 characters, 2 users in one chain, 2 colours | the log is the tail; live mode shows its end; pages exist and, if they fit, follow each other; the dictionary is exact and is freed |
| `input` | windows of 2x2 and 3x2 cells or none, messages of up to 5 characters out of 2 | the index follows the cursor; only KEY_DOWN leaves the text; plain typing is exact |
| `text` | all lines of up to 5 characters out of a letter, a space and brackets, behind one of 4 types or none; buffers of 10 characters, nicknames of up to 2 | strings fit their buffers but for one terminator; the author is the sender; text without brackets arrives, whole or cut at its end |
| `framing` | a buffer of 9 bytes, 3 reads, records of 1 to 3 messages of 3 or 5 bytes, `/msg`, `/quit`, another and one of an unknown type, a server or a client | messages of records that fit come out once and in order, as far as the owner goes; `start` stays in place; a null `start` goes with an empty buffer; the loop ends |
| `control` | 3 servers, 1 command that is stop or status again and again | starts exclude each other; a running server can be found; nothing is left |

Why the bounds are enough for the cases meant: two connections for one slot make
the limit bite and let a slot be reused; two connections with two slots give a
first and a second node, so that both branches of `List_delete` occur while the
cursor is on either of them, dangles or is at the end; a read of up to two
messages has one that ends the loop and one after it; three nodes and four
pushes wrap the heap of nodes, so that a freed node is used again while `last`
still points at it; three reads of up to two messages let the queue hold
messages of several reads, one of them behind a `/quit`; lines of five characters
hold a user in brackets with text before and behind, two users, and, with the
nickname, more than a buffer of ten has room for; records of 3 to 15 bytes fit
into a buffer of 9, fill it exactly or are longer, so that a read ends within a
message; three servers are one that dies or stops, one that starts while the
first cleans up and one that starts later; three reads may come between the
nickname and the greeting, after it, or both; five messages in a log of three
evict entries while a page of one or two is browsed, and a window may grow or
shrink in between, and an entry takes one or two rows, more than a page or as many;
a window of four cells has less room than a message and one of
six has more, with three rows so that KEY_DOWN is used from the second on. `MaxReads`, `MaxPushes`, `MaxBatches`, `MaxLogged` and `MaxEom` bound how long a behaviour goes on, and
nothing else.

`Observed` is the connections whose deliveries are recorded: all of them in `delivery`,
none in the other runs of the server, whose properties do not speak of deliveries.

Connections and nicknames are symmetric in the runs that check invariants only;
liveness runs use no symmetry. Deadlock is not checked: a server that has
stopped or crashed, a queue whose pushes are used up, a client that has ended, a
message that is shown, a connection that is closed, a window that is destroyed or
that was never made, and servers that have all run have nothing left to do.

### Runs that end in a violation

Each states what a comment or a document says, and TLC shows a behaviour of the
code that contradicts it.

| Run | Said | What happens |
|---|---|---|
| `nicknames` | `server.c:662`: authentication ensures that nobody else uses the nickname | two threads find the same nickname free, since the lock is released before it is written |
| `bcastdies` | `server.c:939`: a message is sent to every client | a failed send ends the broadcast thread, because `Server_dropClient` ends the thread that calls it |

The property of `bcastdies` excludes rounds in which a client has ended, a signal
or a crash, so that the counterexample is about the failed send alone. It is found
under the fairness below.

### Known without a run

The models contain these behaviours; no run is spent on them.

* `list.c:183`: deleting the first client moves the cursor in the middle of a
  round, and clients that are still connected are passed over, where
  `server.c:939` says that a message is sent to every client. `ExactDelivery`
  speaks of the time before anybody leaves.
* `message.c:61`: a word in brackets anywhere in a line is taken for a user, and as
  many characters at the front are dropped, where `docs/c2hat-protocol.md:39` shows
  the text behind the user. `PlainTextArrives` speaks of text without brackets.
* `server.c:808`: a broadcast that comes between the nickname and the greeting is
  read as the answer and ends the login, where the comment at `client.c:510` says
  that nothing is sent to unauthenticated clients: the server takes a client with
  a nickname for authenticated. `LoginIsAgreed` says that nothing worse happens.
* `client.c:311`: an interrupted `select()` passes for the welcome. No handler but
  that of `SIGSEGV` is installed then, so that it takes a stop and a continuation
  of the process.
* `uiinput.c:260`: from the second row on, KEY_DOWN may leave the text. Typing is
  then refused, Backspace brings `eom` below zero, and Enter clears the window
  without sending and leaves the index behind until ESC.
* `uiinput.c:121`: an insertion compares the cursor with the limit and not the
  message, so that a full message grows and loses characters at the ends of rows;
  insertion and deletion shift one row only.
* `uiinput.c:204`: the limit is not set again when the window is: a client that
  starts in a terminal that is too small takes no input in a larger one until its
  loop begins anew.
* `uichat.c:209`: a user may get the number of colours as a colour, one beyond the
  last; `uichat.c:331`: the first page of browse mode ends before the newest entry.
* `server.c:488`: the difference of two thread ids is truncated to `int`. Ids are
  distinct names in the model.
* `server.c:966`: "Don't broadcast messages to non-authenticated clients". The lock
  is released at line 963, and the structure may be freed and its block given to a
  new connection between the test of the nickname and the send: that connection is
  sent the message before it has a nickname. `OnlyAuthenticatedReceive` exempts
  recycled blocks.
* `server.c:790`: a thread that runs before its id is stored is dropped as threadless
  and goes on behind the call; it may announce, under no name, that somebody has
  joined.
* `list.c:283`: the rewind without the lock may leave the cursor on a node that has
  been deleted meanwhile, even in an empty list. `EmptyListHasNoCursor` says that this
  lasts no longer than the round.
* `message.c:70`: a word in brackets of exactly `kMaxNicknameSize` bytes fills
  `user[kMaxNicknameSize]` and its terminator is written behind it, where the test at
  `message.c:573` says that the buffer must be one longer; the calls at lines 226 and
  346 pass the size of the field. `TypeOK` of `MessageText` exempts it in what is
  parsed from a typed line.
* `app.c:232`: a fault in the listening thread runs `App_cleanup` in it, beside the
  main thread. `CleanupIsAlone` says what holds for it all the same.
* `uichat.c:105`, `uichat.c:116`: pages count entries, so that an entry that wraps
  makes the window scroll and the first entries of the page are not seen.
  `PagingIsContiguous` speaks of pages that fit.
* `server.c:426`: the joins of detached client threads return at once, and the
  list is freed while they run, where line 423 says that they are waited for.
* `server.c:901`: freeing a broadcast message clears the variable that the loop
  over the buffer tests. The loop ends, and the next read clears the messages
  left, where line 879 says that all are retrieved.
* `ui.c:185`: the update flag is cleared although the terminal is too small to
  show anything, and the messages wait for the next signal.
* `server.c:607`, `client.c:406`: a message that comes in two records, the first
  of which does not fill the buffer, is cleared by the second receive, where
  `docs/c2hat-protocol.md:5` says that receiving goes on until a terminator is
  found. Both programs send a message as one record.
* `commands.c:274`: a server that dies between `PID_init` and the end of
  `Config_save` leaves a PID file that neither stop nor status removes, and every
  later start refuses.
* `commands.c:550`, `commands.c:414`: a server that ends, or a command that has
  found a dead server, may remove the records of a server started since. These
  are the servers in `overlap`.

### Fairness

* `ChatServer`: the main thread and the broadcast thread are scheduled (weak
  fairness of what they can do by themselves; waiting for a connection, a
  handshake or a signal is up to peers). Threads of connections owe nothing, not
  even to end, as they wait for peers. Fairness of the broadcast thread includes
  crashing where that is all it can do.
* `ClientApp`: both threads are scheduled; `select()` is not interrupted for ever
  just before it reports something (strong fairness, as signals may keep coming);
  the server closes the connection of a client that has sent `/quit`, as
  `Server_handleClient` does. In a login the client goes on with what it has read,
  and the server's thread refuses, greets or gives up: it has a time-out
  (`server.c:701`), and so has the client for the welcome. The nickname is the
  user's to give, and `LoginEnds` speaks of a login that has one. Users, signals
  and the network owe nothing.
* `MessageBuffer`: the loop around `C2HMessage_get` goes on by itself (weak fairness
  of `Get`); receiving waits for the peer and owes nothing.
* `MessageText`, `ServerControl`, `ChatWindow` and `InputWindow` have safety
  properties only: their steps are up to users and peers.
* `ConcurrentQueue` needs none: its properties are safety properties, with
  `NoLostWakeup` saying that a waiter sleeps beside an object only if a signal is
  on its way.

## 4. Proofs

`ChatServerProofs` proves for every set of connections and nicknames, every
limit, all reads and any sets of failing and of observed connections:

* `ServerInvariantHolds`: `Spec => []ServerInvariant`;
* `TypeCorrect`, `LimitHolds`, `SlotsHold`, `EmptyListHolds`: the type invariant,
  `ConnectionLimit`, `SlotsBelongToThreads`, `EmptyListHasNoCursor`.

Assumptions: the limit is a natural number, `Null` is neither a connection nor a
nickname, reads are sequences of message kinds, failing and observed connections are
connections.

None of the four properties is inductive. The limit needs `RoomIsKept` (room seen
by the main thread at `server.c:389` is still there when it appends), which holds
since everybody else only removes; the slots need `AcceptedIsNew` (the
connection being accepted has no thread yet), `MemoryBelongsToThread` (a
structure that has not been closed does not outlive its thread), `HandleIsClient` (the
broadcast thread drops only what `List_next` returned) and `BlocksAreReused` (two
structures never have one block, and a block is given away only after it was freed),
so that whatever structure a stale pointer leads to is one of the list; the empty list
needs the slots to be distinct, so that deleting the only node is deleting the
first. `ServerInvariant`
is the conjunction. The proof has
one lemma per thread for the types and one for the rest, over lemmas about the
list: appending a new node and deleting a node keep nodes distinct and change
the set of nodes by one.

Two more invariants stand on this one:

* `SessionInvariantHolds`: `[]SessionInvariant`, and from it `SessionsAreBracketed`
  (`SessionBracketing`) and `OnlyNamedReceive` (`OnlyAuthenticatedReceive`);
* `DeliveryInvariantHolds`: `[]DeliveryInvariant`, and from it `DeliveryIsOrdered`
  (`DeliveryOrder`) and `DeliveryIsExact` (`ExactDelivery`).

The order of a session is that of its own thread, so the invariant has to say for
each place of the thread what has been said of its client (`LogMatchesThreads`), and
that the queue is there as long as anybody can push (`QueueOutlivesThreads`).
Its nickname is known only until a structure is freed under a running thread (`Sound`):
`NamesAreClaimed` ties it to the life of the structure. That nobody without a nickname
is sent anything, but through a recycled block, needs the test to say something of
whatever structure is in the block when the message is sent (`HandleIsNamed`). For the order
of delivery, what has been sent lies before the message in hand and that before the
queue (`SentBeforeQueue`, `QueueIsOrdered`). Exactness needs to know where the cursor
is in a round: `Ahead` is what the cursor still has in front of it, and `RoundIsExact`
says that, while nobody leaves, a client that had joined is ahead, in hand, or has
been sent the message, and only one of these. Appending to the list puts a connection
ahead, which is harmless as it has not joined yet. The steps of all threads
are first reduced to a few kinds of moves (a thread claims, says something, unlinks,
closes, or does nothing that matters), and the invariants are shown for these.

`ConcurrentQueueProofs` proves for any finite sets of nodes and threads, any objects
and any failing allocations:

* `QueueInvariantHolds`: `[]QueueInvariant`;
* `NodesAreOwned`, `NothingFreedIsUsed`, `NoWaiterIsForgotten`, `QueueTypesHold`:
  `ChainOwnsNodes`, `ChainIsSound`, `NoLostWakeup`, `TypeOK`;
* `Refinement`: `Spec => ImplementsFIFO`.

The properties speak of what a walk along the pointers finds. The invariant says that
there is a sequence of distinct allocated nodes that is a chain from `first`
(`IsChain`, `ChainFits`), with `last` its end or null after a failed allocation, and
`length` no less than its length. Such a sequence is unique, and the walk finds
exactly it (`WalkAlongChain`, `ChainIsUnique`), so that every operation on the
pointers becomes one on sequences: appending, taking the tail, emptying. The
refinement follows step by step: each operation maps to the one of `FIFO` or to a
stuttering step, and a lost front to the loss that `FIFO` allows. No lost wake-up is an
inequality between the length of the queue and the number of signals and woken
waiters, and needs the threads to be finitely many.

`ClientAppProofs` proves for all reads and any number of them:

* `ClientInvariantHolds`: `Spec => []ClientInvariant`;
* `HandoverIsExact`: `[]MessagesAreKept`, no message is lost, repeated or
  reordered between the socket and the screen;
* `CleanupIsSafe`: `[]CleanupIsAlone`;
* `LoginInvariantHolds`: `Spec => []LoginInvariant`, and from it `LoginIsSound`:
  `[]LoginIsAgreed`;
* `ClientTypesHold`: `[]TypeOK`.

Here the invariant adds that the listening thread holds messages only while it
queues them (`BufferIsDrained`), closes the socket before it tells the main
thread or in its own clean-up (`SocketIsClosed`) and ends before the process does (`ProcessEndsLast`).
The step of the proof that matters is that taking the head of one sequence and
appending it to the one before does not change their concatenation (`MoveHead`).

That both sides of a login mean the same is not inductive: an `/ok` may be the
welcome or the greeting. `LoginInvariant` says that an `/ok` that comes after the
prompt, in the connection or as the next thing to be read, is the greeting, with
nothing but the chat behind it (`OkIsHello`, `AnswerIsHello`), that there is no prompt
before the server has got that far (`PromptComesFirst`) and nothing at all before the
connection exists.

`InputWindowProofs` proves for windows of any size, any limit and any characters:

* `InputInvariantHolds`: `[]InputInvariant`;
* `InputTypesHold`, `IndexIsOfCursor`, `OnlyDownLeavesText`, `TypingIsExact`: `TypeOK`,
  `IndexFollowsCursor`, `CursorStaysInText`, `PlainTypingIsExact`.

They are inductive together, with the fact that there is no room without a window:
that the cursor stays in the window needs the keys that move to be disabled when the
index has been left behind (`KeysHaveIndex`), that Backspace takes the last character
needs the index to be that of the cursor. The proof has one lemma per key, over
lemmas on rows and columns (`PlaceOfCell`), whose products are kept out of the other
steps.

`ChatWindowProofs` proves for every limit of the log, all sizes and any number of
messages:

* `LogInvariantHolds`: `[]LogInvariant`;
* `CacheIsTail`, `PagesExist`: `LogIsTail`, `BrowsedPageExists`;
* `WindowInvariantHolds`: `[]WindowInvariant`, and from it `LiveWindowShowsTail`
  (`LiveShowsTail`) and `PagesAreContiguous` (the action property
  `PagingIsContiguous`);
* `UsersKeepColors`, `WindowTypesHold`: `ColorsAreKept`, `TypeOK`.

The page needs to start in the log in live mode too, since entering browse mode may
keep `currentLine`, and nothing to be logged without a window, since the last page is
found with the rows of the window. What was written on the window is compared with the log from
the end (`LastOfIsTail`, `SuffixFromEnd`): a message in live mode adds one entry at the
end of both and may take some off the front of each. Paging needs to know that the page
on the window starts at the line where it was drawn (`PageIsDrawn`), whatever the log
has evicted since; of a page that fits, all that was written is seen (`FittingIsSeen`).
The colours are inductive with the types: `Stores` says of the
chains what `IsDictionary` says of look-ups, and is kept by a node appended to a row
and by one taken out of it; the loops over a page and over the characters of a key
keep what each round keeps (`LoopInvariant`). Users are finitely many, as the count of
the table is that of a set.

`MessageBufferProofs` proves for every size of the buffer, all records and any
number of reads:

* `BufferInvariantHolds`: `[](TypeOK /\ NullIsEmpty)`;
* `BufferTypeCorrect`, `NullStartIsEmpty`: each by itself.

The two need each other: the type of `start` after a receive depends on data being
left over only behind a `start` that is not null, and a null `start` is set only
where the buffer is cleared, which is where the positions that `memchr()` and the
scan return must lie inside the buffer (`SlashType`, `TerminatorType`).

* `FramingInvariantHolds`: `[]BufferIsFramed`, and from it `MessagesAreFramed`:
  `[]FramingIsExact`.

That the messages taken are those of the record is not inductive: it says nothing of
where the next one is looked for. `IsAt` says that the loop has taken the first `n`
messages of the last record and stands behind them with the record still in the
buffer, or has cleared the buffer with the last; of the records before, `BatchIsTaken`
says that all has been taken or that the owner had a reason to stop. From there `memchr()` finds the slash
of the next message right away and the scan its terminator (`SlashIsNext`,
`TerminatorIsNext`), or there is no slash behind the record (`NoSlashBehind`). The last
byte of the buffer is always a terminator, so that nothing passes for left over and the
next record finds a cleared buffer. What the recursive `Taken` computes is found by
showing that a function with its equation exists (`LoopExists`, `TakenIsLoop`); that
it only grows and stays as it is at the end is induction over its rounds (`TakenGrows`,
`TakenEnds`).

`MessageTextProofs` proves for all lines and nicknames, any characters and any sizes of
the buffers:

* `TextInvariantHolds`: `[]TextInvariant`;
* `TextTypesHold`, `AuthorsAreTrue`, `PlainTextIsShown`: `TypeOK`, `AuthorIsSender`,
  `PlainTextArrives`.

The properties speak of the end of the way, the invariant of every station: what is sent
is what the message made last formats to, a message of the server carries the
nickname (`MessageIsSent`), and of a plain line only the end is missing (`TextIsKept`).
The proof rests on lemmas about the operators: trimming returns a part of the string
that neither begins nor ends with a space, truncating a prefix that has room, and
`Message_getUser` finds the tag of the server because it is in front and a nickname
holds no bracket. A text that is cut may end in spaces, which the next trim takes off:
it is a prefix still.

`ServerControlProofs` proves for any number of servers and commands:

* `ControlInvariantHolds`: `[]ControlInvariant`;
* `StartsAreExclusive`: `[]StartIsExclusive`;
* `RunningServersAreRecorded`: `[]RunningIsRecorded`;
* `NothingIsLeftBehind`: `[]NothingIsLeft`;
* `ControlTypesHold`: `[]TypeOK`.

That a server holds the port from `Server_init` on (`PortIsHeld`) gives the first.
The records need two more facts about a server that was left alone while it
started: nobody else is cleaning up, and a command in flight has found this
server's PID (`NobodyInterferes`), so that it does not take it for dead; and its
records are its own from the call that makes them (`RecordsAreKept`). That nothing is
left needs every record to have a maker that is still on its way to remove it
(`RecordsHaveOwners`).

The inductive invariants, and the type invariants of `ClientApp`, `ServerControl` and
`InputWindow` that they contain, are not among the properties of a run: they are proved
here, and what they serve to prove is what the runs check. TLC finds no violation of
any of them when they are added to the configuration of the component's run.

Only model-checked: the liveness properties, which are out of the prover's reach. Every
invariant that a run checks is stated by a theorem. Induction over data is done with sets:
a set that holds 0 and, with a number, the next one, holds all of them
(`SetInduction`, from the least element of its complement); the library's induction
theorems take an operator, which the provers cannot instantiate.

## 5. What is left out

* `ChatServer` takes a read as the kinds of the messages in it and `ClientApp` as
  messages; bytes are in `MessageBuffer` and characters in `MessageText`.
* A critical section is one step also for what is read without the lock meanwhile: a
  list that `List_delete` is in the middle of changing is not seen. `CQueue_free` comes
  when no call is under way: `Server_start` calls it after the broadcast thread has
  ended, but threads of connections may still be pushing. `ChatServer` ends the process
  in that step, as `Server_start` returns right after it.
* Texts have no `printf()` conversions, although `Server_broadcastMessage` passes
  the text as the format to `C2HMessage_create`. Characters are one byte long.
* Servers and commands run as the same user, with the same settings and host; a
  PID is not used twice; the machine is not rebooted.
* `pthread_create()` always succeeds, and a send either succeeds or fails: it
  does not block for ever.
* The set-up of TLS in `Server_init`, `Client_create` and `Client_connect`, which
  succeeds or fails in `ServerControl` and `ClientApp`.
* Characters that are two columns wide or none, and extended colours. `UIInputWin_commit` is modelled by its effect on the window; the
  text it reads is that of the cells.
* What the programs do not call: insert, prepend, update, prev, sort of the list,
  `Hash_first` and `Hash_last`. Allocation does not fail in the chat log window.
* A `/quit` before authentication is ignored by `Server_authenticate`, where
  `docs/c2hat-protocol.md:46` says that it closes the session. It leaves the
  state of the model as it is.
* `CQueue_waitAndPop` waits once and may return nothing after a spurious wake-up
  or if another thread was faster, where `cqueue.h` says that it waits. The model
  has these outcomes; the server and the client use `CQueue_tryPop` only.
* Calls that block for ever on a silent peer (`SSL_accept()` at `server.c:350` in the
  main thread, `SSL_write()` at `server.c:463` in the broadcast thread), and what
  two threads do inside OpenSSL with one handle, or with a handle that has been freed
  and allocated again: peers owe nothing in the model, and each call is one step. The time-out of a session may expire at any time,
  which covers that Linux counts it down over the whole session.
* Sockets, settings, logger, encryption, files, regular expressions, the INI parser and drawing:
  wrappers, output or third-party code without a protocol of their own.

## 6. Plan

In the order of importance:

1. done: `LinkedList`, `ChatServer`, `FIFO`, `ConcurrentQueue`, `ClientApp` and
   their first theorems;
2. done: `MessageBuffer` and `MessageText`;
3. done: `ServerControl`;
4. done: `ChatWindow` with `HashTable`, `InputWindow`, and their first theorems;
5. done: connecting and authenticating in `client.c` with the server's side of the
   dialogue, in `ClientApp`;
6. done: the proofs of the queue and its refinement, of sessions and delivery in the
   server, of the records of server control, of pages and colours in the chat log
   window, of framing and of texts.

Runs are kept few: a new question joins an existing run where the instance fits.
