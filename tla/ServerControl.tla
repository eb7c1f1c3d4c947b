--------------------------- MODULE ServerControl ---------------------------
(***************************************************************************)
(* Starting and stopping servers: CMD_runStart, CMD_runStop, CMD_runStatus *)
(* and the clean-up of src/server/commands.c over what outlives a process, *)
(* the PID file (src/server/pid.c) and the shared memory that holds the    *)
(* configuration and the PID of a server (src/lib/config/config.c).        *)
(*                                                                         *)
(* Every process runs as the same user and with the same settings, so that *)
(* all of them mean the same port, PID file and shared memory.  A server   *)
(* stands for its PID; PIDs are not used twice.  Each system call on these *)
(* three is a step.                                                        *)
(***************************************************************************)
EXTENDS Naturals

CONSTANTS
  Servers,    \* the processes of c2hat-server start
  Commands,   \* those of c2hat-server stop and c2hat-server status
  None

ASSUME NoneAssumption == None \notin Servers

VARIABLES
  pc,          \* where a server is
  port,        \* the server that listens on the port
  pidFile,     \* the server that has written the PID file
  shm,         \* the shared memory: the server whose settings it holds
  fd,          \* the server whose open memory object is that named by the path
  signalled,   \* the servers whose terminate flag is set
  cpc,         \* where a command is
  kind,        \* which command it is
  target,      \* the PID that it has found in the shared memory
  crashed,     \* history: some process has died without its clean-up
  overlap      \* history: the servers that started while others cleaned up or
               \* looked at the shared memory

shared == <<port, pidFile, shm, fd>>
vars == <<pc, shared, signalled, cpc, kind, target, crashed, overlap>>

\* A new memory object is empty, then filled with zeros, then with settings.
Empty == "empty"
Zeros == "zeros"

Starting == {"listening", "creating", "created", "opened", "sized", "saved"}
Cleaning == {"clean_pid", "clean_shm"}
Dead     == {"exited", "crashed"}

TypeOK ==
  /\ pc \in [Servers -> {"idle", "init", "running"} \cup Starting \cup Cleaning \cup Dead]
  /\ port \in Servers \cup {None}
  /\ pidFile \in Servers \cup {None}
  /\ shm \in Servers \cup {None, Empty, Zeros}
  /\ fd \in Servers \cup {None}
  /\ signalled \subseteq Servers
  /\ cpc \in [Commands -> {"idle", "size", "data", "check", "kill"} \cup Cleaning]
  /\ kind \in [Commands -> {"stop", "status"}]
  /\ target \in [Commands -> Servers \cup {None}]
  /\ \A c \in Commands : cpc[c] \in {"check", "kill"} => target[c] \in Servers
  /\ crashed \in BOOLEAN
  /\ overlap \subseteq Servers

Init ==
  /\ pc = [p \in Servers |-> "idle"]
  /\ port = None /\ pidFile = None /\ shm = None /\ fd = None
  /\ signalled = {}
  /\ cpc = [c \in Commands |-> "idle"]
  /\ kind \in [Commands -> {"stop", "status"}]
  /\ target = [c \in Commands |-> None]
  /\ crashed = FALSE
  /\ overlap = {}
-----------------------------------------------------------------------------
(* A server, from CMD_runStart to the end of its process. *)

Goto(p, label) == pc' = [pc EXCEPT ![p] = label]

\* A process that ends gives the port back
Release(p) == port' = IF port = p THEN None ELSE port

Start(p) ==
  /\ pc[p] = "idle"
  /\ Goto(p, "init")
  /\ UNCHANGED <<shared, signalled, crashed>>

\* Mutant: clean() runs although nothing was made.
Server_InitFails_Cleans(p) ==
  /\ pc[p] = "init"
  /\ Goto(p, "clean_pid")
  /\ UNCHANGED <<shared, signalled, crashed>>

\* Locale, paths or certificates are wrong or the port is taken: there is
\* nothing to clean up yet
Server_InitFails(p) ==
  /\ pc[p] = "init"
  /\ Goto(p, "exited")
  /\ UNCHANGED <<shared, signalled, crashed>>

\* Mutant: the address may be bound twice.
Server_Listen_Shared(p) ==
  /\ pc[p] = "init"
  /\ port' = p
  /\ Goto(p, "listening")
  /\ UNCHANGED <<pidFile, shm, fd, signalled, crashed>>

\* Server_init binds the port and listens on it; only one process may
Server_Listen(p) ==
  /\ pc[p] = "init"
  /\ port = None
  /\ port' = p
  /\ Goto(p, "listening")
  /\ UNCHANGED <<pidFile, shm, fd, signalled, crashed>>

\* PID_init: there is no PID file yet
PID_Access(p) ==
  /\ pc[p] = "listening"
  /\ pidFile = None
  /\ Goto(p, "creating")
  /\ UNCHANGED <<shared, signalled, crashed>>

\* PID_init: there is one, or no directory for it, or it cannot be opened.
\* serverStartedSuccessfully is still false and clean() removes nothing.
PID_Fails(p) ==
  /\ pc[p] \in {"listening", "creating"}
  /\ Goto(p, "exited")
  /\ Release(p)
  /\ UNCHANGED <<pidFile, shm, fd, signalled, crashed>>

PID_Create(p) ==
  /\ pc[p] = "creating"
  /\ pidFile' = p
  /\ Goto(p, "created")
  /\ UNCHANGED <<port, shm, fd, signalled, crashed>>

\* Config_save: shm_open(), which creates or truncates
Config_Open(p) ==
  /\ pc[p] = "created"
  /\ shm' = Empty /\ fd' = p
  /\ Goto(p, "opened")
  /\ UNCHANGED <<port, pidFile, signalled, crashed>>

\* Config_save: ftruncate()
Config_Size(p) ==
  /\ pc[p] = "opened"
  /\ shm' = IF fd = p THEN Zeros ELSE shm
  /\ Goto(p, "sized")
  /\ UNCHANGED <<port, pidFile, fd, signalled, crashed>>

\* Config_save: the settings are copied
Config_Copy(p) ==
  /\ pc[p] = "sized"
  /\ shm' = IF fd = p THEN p ELSE shm
  /\ Goto(p, "saved")
  /\ UNCHANGED <<port, pidFile, fd, signalled, crashed>>

\* Encrypting or saving the settings fails: CMD_runStart returns and clean()
\* removes the PID file and the shared memory.
Config_Fails(p) ==
  /\ pc[p] \in {"created", "opened", "sized"}
  /\ Goto(p, "clean_pid")
  /\ UNCHANGED <<shared, signalled, crashed>>

\* Server_start has set the handlers of signals
Server_Run(p) ==
  /\ pc[p] = "saved"
  /\ Goto(p, "running")
  /\ UNCHANGED <<shared, signalled, crashed>>

\* Server_start sees the flag, closes the socket and returns
Server_Close(p) ==
  /\ pc[p] = "running"
  /\ p \in signalled
  /\ Release(p)
  /\ Goto(p, "clean_pid")
  /\ UNCHANGED <<pidFile, shm, fd, signalled, crashed>>

\* Server_start meets a fatal error: exit() runs clean() all the same
Server_Fatal(p) ==
  /\ pc[p] = "running"
  /\ Goto(p, "clean_pid")
  /\ UNCHANGED <<shared, signalled, crashed>>

\* clean(): whoever has written the PID file
Clean_PID(p) ==
  /\ pc[p] = "clean_pid"
  /\ pidFile' = None
  /\ Goto(p, "clean_shm")
  /\ UNCHANGED <<port, shm, fd, signalled, crashed>>

\* Mutant: the shared memory stays.
Clean_Shm_Skipped(p) ==
  /\ pc[p] = "clean_shm"
  /\ Release(p)
  /\ Goto(p, "exited")
  /\ UNCHANGED <<pidFile, shm, fd, signalled, crashed>>

\* clean(): shm_unlink(), and the process ends
Clean_Shm(p) ==
  /\ pc[p] = "clean_shm"
  /\ shm' = None /\ fd' = None
  /\ Release(p)
  /\ Goto(p, "exited")
  /\ UNCHANGED <<pidFile, signalled, crashed>>

\* The process dies without clean(), as it does on a signal that comes before
\* the handlers are set
Die(p) ==
  /\ Goto(p, "crashed")
  /\ Release(p)
  /\ crashed' = TRUE
  /\ UNCHANGED <<pidFile, shm, fd, signalled>>

Crash(p) == pc[p] \notin {"idle"} \cup Dead /\ Die(p)

\* SIGTERM or SIGINT.  What it does to a server that is cleaning up depends on
\* whether Server_start had set the handlers.
Signal(p) ==
  \/ /\ pc[p] \in {"init"} \cup Starting \cup Cleaning
     /\ Die(p)
  \/ /\ pc[p] \in {"running"} \cup Cleaning
     /\ signalled' = signalled \cup {p}
     /\ UNCHANGED <<pc, shared, crashed>>

ServerStep(p) ==
  /\ \/ Start(p) \/ Server_InitFails(p) \/ Server_Listen(p)
     \/ PID_Access(p) \/ PID_Fails(p) \/ PID_Create(p)
     \/ Config_Open(p) \/ Config_Size(p) \/ Config_Copy(p) \/ Config_Fails(p)
     \/ Server_Run(p) \/ Server_Close(p) \/ Server_Fatal(p)
     \/ Clean_PID(p) \/ Clean_Shm(p) \/ Crash(p) \/ Signal(p)
  /\ UNCHANGED <<cpc, kind, target>>
-----------------------------------------------------------------------------
(* A command: stop or status. *)

CommandGoto(c, label) == cpc' = [cpc EXCEPT ![c] = label]

\* What a command leaves alone while it looks
Looks == UNCHANGED <<pc, shared, signalled, crashed>>

Command_Start(c) ==
  /\ cpc[c] = "idle"
  /\ \E k \in {"stop", "status"} : kind' = [kind EXCEPT ![c] = k]
  /\ CommandGoto(c, "size")
  /\ Looks /\ UNCHANGED target

\* Config_load of the size.  Without shared memory the command says that the
\* server may not be running; on an empty one it dies; a size of zero leads
\* to settings that cannot be decrypted.
Load_Size(c) ==
  /\ cpc[c] = "size"
  /\ CommandGoto(c, IF shm \in Servers THEN "data" ELSE "idle")
  /\ Looks /\ UNCHANGED <<kind, target>>

\* Config_load of the settings
Load_Data(c) ==
  /\ cpc[c] = "data"
  /\ IF shm \in Servers
     THEN target' = [target EXCEPT ![c] = shm] /\ CommandGoto(c, "check")
     ELSE CommandGoto(c, "idle") /\ UNCHANGED target
  /\ Looks /\ UNCHANGED kind

\* What follows PID_exists()
AfterCheck(c) ==
  CASE pc[target[c]] \in Dead -> "clean_pid"
    [] kind[c] = "stop"       -> "kill"
    [] OTHER                  -> "idle"

Check(c) ==
  /\ cpc[c] = "check"
  /\ CommandGoto(c, AfterCheck(c))
  /\ Looks /\ UNCHANGED <<kind, target>>

\* kill(), which fails if the server has ended in between
Kill(c) ==
  /\ cpc[c] = "kill"
  /\ CommandGoto(c, "idle")
  /\ \/ Signal(target[c])
     \/ pc[target[c]] \in Dead /\ Looks
  /\ UNCHANGED <<kind, target>>

\* cleanup(): the PID file
Command_Clean_PID(c) ==
  /\ cpc[c] = "clean_pid"
  /\ pidFile' = None
  /\ CommandGoto(c, "clean_shm")
  /\ UNCHANGED <<pc, port, shm, fd, signalled, kind, target, crashed>>

\* cleanup(): the shared memory
Command_Clean_Shm(c) ==
  /\ cpc[c] = "clean_shm"
  /\ shm' = None /\ fd' = None
  /\ CommandGoto(c, "idle")
  /\ UNCHANGED <<pc, port, pidFile, signalled, kind, target, crashed>>

CommandStep(c) ==
  \/ Command_Start(c) \/ Load_Size(c) \/ Load_Data(c) \/ Check(c) \/ Kill(c)
  \/ Command_Clean_PID(c) \/ Command_Clean_Shm(c)
-----------------------------------------------------------------------------
\* The servers that are starting while somebody else is at the records
Disturbed ==
  {p \in Servers : /\ pc[p] \in Starting
                   /\ \/ \E q \in Servers \ {p} : pc[q] \in Cleaning
                      \/ \E c \in Commands : cpc[c] # "idle"}

Next ==
  /\ \/ \E p \in Servers : ServerStep(p)
     \/ \E c \in Commands : CommandStep(c)
  /\ overlap' = overlap \cup Disturbed'

Spec == Init /\ [][Next]_vars
-----------------------------------------------------------------------------
(* Properties. *)

\* Between access() and fopen() of PID_init, and through the three steps of
\* Config_save, no other server does the same, although nothing but the port
\* keeps them apart; a running server is the only one.
StartIsExclusive ==
  \A p, q \in Servers :
    pc[p] \in Starting \cup {"running"} /\ pc[q] \in Starting \cup {"running"}
      => p = q

\* A running server can be found: the PID file and the shared memory are its
\* own, unless it was started while others were cleaning up or a command was
\* in the middle of its work.  Servers that fail to start, commands that come
\* later and the crashes of others do not take them away.
RunningIsRecorded ==
  \A p \in Servers :
    pc[p] = "running" /\ p \notin overlap => pidFile = p /\ shm = p

\* What RunningIsRecorded rests on.  A server that is starting or running holds
\* the port.
PortIsHeld ==
  \A p \in Servers : pc[p] \in Starting \cup {"running"} => port = p

\* If it has not been disturbed, nobody else is cleaning up, and commands come
\* only once it runs and find nothing but its own PID.
NobodyInterferes ==
  \A p \in Servers \ overlap : pc[p] \in Starting \cup {"running"} =>
    /\ \A q \in Servers : pc[q] \notin Cleaning
    /\ \A c \in Commands :
         /\ pc[p] \in Starting => cpc[c] = "idle"
         /\ cpc[c] \notin Cleaning
         /\ cpc[c] \in {"check", "kill"} => target[c] = p

\* Its records are its own as soon as they are made.
RecordsAreKept ==
  \A p \in Servers \ overlap :
    /\ pc[p] \in {"created", "opened", "sized", "saved", "running"} => pidFile = p
    /\ pc[p] \in {"opened", "sized"} => fd = p
    /\ pc[p] \in {"saved", "running"} => shm = p

\* The inductive invariant of starting and stopping.
ControlInvariant == TypeOK /\ PortIsHeld /\ NobodyInterferes /\ RecordsAreKept

\* As long as no process has died without its clean-up, nothing is left when
\* the last server has ended, and the next start finds its way free.
NothingIsLeft ==
  ~crashed /\ (\A p \in Servers : pc[p] \in {"idle", "exited"})
    => pidFile = None /\ shm = None

\* What NothingIsLeft rests on: while no process has died without its clean-up,
\* whoever made a record is still on the way to remove it.
RecordsHaveOwners ==
  /\ shm # None => fd # None
  /\ ~crashed =>
       \A p \in Servers :
         /\ pidFile = p =>
              pc[p] \in {"created", "opened", "sized", "saved", "running", "clean_pid"}
         /\ fd = p => pc[p] \in {"opened", "sized", "saved", "running"} \cup Cleaning
=============================================================================
