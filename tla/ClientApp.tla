------------------------------ MODULE ClientApp ------------------------------
(***************************************************************************)
(* The c2hat client (src/client/app.c, client.c, ui.c): the main thread,   *)
(* which logs in, then reads keys and owns the screen, and the listening   *)
(* thread, which reads from the server.  They share a queue of messages,   *)
(* termination flags and signals that the listening thread and the user    *)
(* send to the main thread.  Of the server there is what it does with this *)
(* connection: the login, and the messages that it sends.                  *)
(*                                                                         *)
(* A signal handler only sets flags; a signal is noticed when it           *)
(* interrupts wget_wch(), and a signal that comes earlier does not keep    *)
(* wget_wch() from blocking.                                               *)
(***************************************************************************)
EXTENDS Naturals, Sequences

CONSTANTS
  Batches,    \* the messages that one read from the server may yield
  MaxBatches  \* bound: the number of reads

MessageKinds == {"log", "quit", "ok", "nick", "err"}

ASSUME BatchesAssumption == Batches \subseteq Seq(MessageKinds)
ASSUME BoundAssumption == MaxBatches \in Nat

VARIABLES
  crashed,       \* the process has ended because of a fault or a signal
  mainPc,        \* where the main thread is
  mainThreadID,  \* whether App_run has stored it
  terminate,     \* the flag of app.c
  uiTerminate,   \* the flag of ui.c
  update,        \* the flag of ui.c for messages to show
  resize,        \* the flag of ui.c for a new terminal size
  big,           \* UIScreen_isBigEnough at the last rendering
  shown,         \* history: the messages written to the chat log
  lpc,           \* where the listening thread is in App_listen
  buffer,        \* the messages it has read and not queued yet
  messages,      \* the queue between the threads
  received,      \* history: the messages read from the server
  net,           \* reads on their way from the server
  batches,       \* the number of reads sent so far, for MaxBatches
  open,          \* neither side has closed the connection
  nickSent,      \* the server has been sent a /nick
  quitSent,      \* the server has been sent a /quit
  spc            \* where the server's thread for this connection is

flags == <<terminate, uiTerminate, update, resize>>
screenVars == <<big, shown>>
serverVars == <<nickSent, spc>>
netVars == <<net, batches, open, quitSent, serverVars>>
vars == <<crashed, mainPc, mainThreadID, flags, screenVars, lpc, buffer,
          messages, received, netVars>>

\* Before App_start has set the signal handlers.
LoginPcs == {"create", "connect", "welcome", "nickname", "prompt", "answer",
             "handlers"}

\* The listening thread has faulted and runs App_cleanup: it destroys the client,
\* frees the queue and ends the process.
CleaningPcs == {"destroy", "free", "dying"}

ThreadTypeOK ==
  /\ crashed \in BOOLEAN /\ mainThreadID \in BOOLEAN
  /\ mainPc \in LoginPcs \cup
       {"init", "start", "run", "loop", "enter", "wget_wch", "error",
        "update", "ended", "send", "quit", "join", "exit"}
  /\ lpc \in CleaningPcs \cup
       {"none", "test", "select", "push", "alert", "sleep", "close", "tell", "exited"}
  /\ terminate \in BOOLEAN /\ uiTerminate \in BOOLEAN
  /\ update \in BOOLEAN /\ resize \in BOOLEAN /\ big \in BOOLEAN

MessageTypeOK ==
  /\ shown \in Seq(MessageKinds) /\ messages \in Seq(MessageKinds)
  /\ buffer \in Seq(MessageKinds) /\ received \in Seq(MessageKinds)

NetTypeOK ==
  /\ net \in Seq(Seq(MessageKinds))
  /\ batches \in 0 .. MaxBatches
  /\ open \in BOOLEAN /\ quitSent \in BOOLEAN /\ nickSent \in BOOLEAN
  /\ spc \in {"none", "accepted", "welcomed", "auth", "hello", "chat"}

\* The types of the variables of app.c and ui.c and of the histories.
TypeOK == ThreadTypeOK /\ MessageTypeOK /\ NetTypeOK

\* App_init has just been called.
Init ==
  /\ crashed = FALSE
  /\ mainPc = "create"
  /\ mainThreadID = FALSE
  /\ terminate = FALSE /\ uiTerminate = FALSE
  /\ update = FALSE /\ resize = FALSE
  /\ big \in BOOLEAN
  /\ shown = <<>>
  /\ lpc = "none"
  /\ buffer = <<>>
  /\ messages = <<>>
  /\ received = <<>>
  /\ net = <<>>
  /\ batches = 0
  /\ open = FALSE
  /\ nickSent = FALSE
  /\ quitSent = FALSE
  /\ spc = "none"

-----------------------------------------------------------------------------
(* Signals to the main thread: App_handleSignal. *)

\* A signal ends wget_wch() if the main thread is in it.
Interrupt == mainPc' = IF mainPc = "wget_wch" THEN "error" ELSE mainPc

HandleTerm == terminate' = TRUE /\ uiTerminate' = TRUE /\ UNCHANGED <<update, resize>>

HandleUsr2 == update' = TRUE /\ UNCHANGED <<terminate, uiTerminate, resize>>

HandleWinch == resize' = TRUE /\ UNCHANGED <<terminate, uiTerminate, update>>

-----------------------------------------------------------------------------
(* The main thread logs in: App_init, App_authenticate, App_start.  The steps *)
(* take the first message of a read; each message of the login is its own read. *)

MainGoto(label) == mainPc' = label

LoginFrame ==
  UNCHANGED <<crashed, mainThreadID, flags, screenVars, buffer, messages,
              received, batches, quitSent>>

\* exit(), which runs App_cleanup: Client_destroy closes the connection.
Exit == MainGoto("exit") /\ open' = FALSE /\ net' = <<>>

GoOn(label) == MainGoto(label) /\ UNCHANGED <<net, open>>

\* C2HMessage_get of what has been read.
IsKind(read, kind) == read # <<>> /\ read[1] = kind

\* Client_receive brings a message of that kind ...
Gets(kind) == net # <<>> /\ IsKind(net[1], kind)

\* ... or another one, or none, or the end of the connection.
GetsNo(kind) == (net # <<>> \/ ~open) /\ ~Gets(kind)

Proceed(label) == MainGoto(label) /\ net' = Tail(net) /\ UNCHANGED open

\* Client_create
Login_Create ==
  /\ mainPc = "create"
  /\ GoOn("connect") \/ Exit
  /\ UNCHANGED <<lpc, serverVars>>

\* Client_connect, up to the TLS handshake and the server's certificate.
Login_Connect ==
  /\ mainPc = "connect"
  /\ \/ MainGoto("welcome") /\ open' = TRUE /\ spc' = "accepted" /\ UNCHANGED net
     \/ Exit /\ UNCHANGED spc
  /\ UNCHANGED <<lpc, nickSent>>

\* Client_connect: the first message of the server.  The logger may fail then.
Login_Welcome ==
  /\ mainPc = "welcome"
  /\ net # <<>>
  /\ \/ Gets("ok") /\ Proceed("nickname")
     \/ Exit
  /\ UNCHANGED <<lpc, serverVars>>

\* Client_connect: no message in five seconds, or the end of the connection.
Login_WelcomeTimeout ==
  /\ mainPc = "welcome"
  /\ net = <<>>
  /\ Exit
  /\ UNCHANGED <<lpc, serverVars>>

\* Client_connect: a signal that interrupts select() passes for the welcome.
Login_Interrupted ==
  /\ mainPc = "welcome"
  /\ GoOn("nickname")
  /\ UNCHANGED <<lpc, serverVars>>

\* App_authenticate has a nickname of at least two characters, or has not.
Login_Nickname ==
  /\ mainPc = "nickname"
  /\ GoOn("prompt") \/ Exit
  /\ UNCHANGED <<lpc, serverVars>>

\* Client_authenticate waits for the prompt and sends the nickname.
Login_Prompt ==
  /\ mainPc = "prompt"
  /\ \/ Gets("nick") /\ Proceed("answer") /\ nickSent' = open
     \/ GetsNo("nick") /\ Exit /\ UNCHANGED nickSent
  /\ UNCHANGED <<lpc, spc>>

\* Mutant: whatever is not an /err is an answer.
Login_Answer_AnyMessage ==
  /\ mainPc = "answer"
  /\ \/ net # <<>> /\ ~Gets("err") /\ Proceed("handlers")
     \/ (Gets("err") \/ (net = <<>> /\ ~open)) /\ Exit
  /\ UNCHANGED <<lpc, serverVars>>

\* Mutant: the end of the connection is taken for an interruption.
Login_Answer_Retries ==
  /\ mainPc = "answer"
  /\ \/ Gets("ok") /\ Proceed("handlers")
     \/ net # <<>> /\ ~Gets("ok") /\ Exit
  /\ UNCHANGED <<lpc, serverVars>>

\* Client_authenticate waits for the answer.
Login_Answer ==
  /\ mainPc = "answer"
  /\ \/ Gets("ok") /\ Proceed("handlers")
     \/ GetsNo("ok") /\ Exit
  /\ UNCHANGED <<lpc, serverVars>>

\* App_start: the queue, then the signal handlers.
App_Handlers ==
  /\ mainPc = "handlers"
  /\ GoOn("init") \/ Exit
  /\ UNCHANGED <<lpc, serverVars>>

\* App_start: UIInit and pthread_create().
App_Init ==
  /\ mainPc = "init"
  /\ \/ GoOn("start") /\ lpc' = "test"
     \/ Exit /\ UNCHANGED lpc
  /\ UNCHANGED serverVars

\* What ends a login besides: a read or a write that fails, SIGINT or SIGTERM
\* before App_start has set the handlers, SIGPIPE.
Login_Fails ==
  /\ mainPc \in LoginPcs
  /\ Exit
  /\ UNCHANGED <<lpc, serverVars>>

LoginStep ==
  /\ \/ Login_Create \/ Login_Connect \/ Login_Welcome \/ Login_WelcomeTimeout
     \/ Login_Prompt \/ Login_Answer \/ App_Handlers \/ App_Init
  /\ LoginFrame

LoginChance ==
  /\ Login_Interrupted \/ Login_Nickname \/ Login_Fails
  /\ LoginFrame

-----------------------------------------------------------------------------
(* The main thread: App_run, UIInputLoop, App_updateHandler. *)

\* What the steps below leave alone unless they say otherwise.
MainFrame ==
  UNCHANGED <<crashed, lpc, buffer, received, net, batches, open, serverVars>>

\* mainThreadID = pthread_self()
Main_Start ==
  /\ mainPc = "start"
  /\ mainThreadID' = TRUE
  /\ MainGoto("run")
  /\ UNCHANGED <<flags, screenVars, messages, quitSent>>

\* while (!terminate) in App_run
Main_Run ==
  /\ mainPc = "run"
  /\ MainGoto(IF terminate THEN "quit" ELSE "loop")
  /\ UNCHANGED <<mainThreadID, flags, screenVars, messages, quitSent>>

\* Mutant: the flag is looked at only after an error.
Main_Loop_NoTest ==
  /\ mainPc = "loop"
  /\ MainGoto("enter")
  /\ UNCHANGED <<mainThreadID, flags, screenVars, messages, quitSent>>

\* while (!terminate) in UIInputLoop
Main_Loop ==
  /\ mainPc = "loop"
  /\ MainGoto(IF uiTerminate THEN "ended" ELSE "enter")
  /\ UNCHANGED <<mainThreadID, flags, screenVars, messages, quitSent>>

Main_Enter ==
  /\ mainPc = "enter"
  /\ MainGoto("wget_wch")
  /\ UNCHANGED <<mainThreadID, flags, screenVars, messages, quitSent>>

\* wget_wch() has returned ERR: terminate is looked at first, ...
Main_ErrorTerminate ==
  /\ mainPc = "error"
  /\ uiTerminate
  /\ MainGoto("ended")
  /\ UNCHANGED <<mainThreadID, flags, screenVars, messages, quitSent>>

\* ... then update, which is dropped if the screen is too small, ...
Main_ErrorUpdate ==
  /\ mainPc = "error"
  /\ ~uiTerminate /\ update
  /\ update' = FALSE
  /\ MainGoto(IF big THEN "update" ELSE "loop")
  /\ UNCHANGED <<mainThreadID, terminate, uiTerminate, resize, screenVars,
                 messages, quitSent>>

\* ... then resize: UIRender reads the new size, ...
Main_ErrorResize ==
  /\ mainPc = "error"
  /\ ~uiTerminate /\ ~update /\ resize
  /\ resize' = FALSE
  /\ big' \in BOOLEAN
  /\ MainGoto("loop")
  /\ UNCHANGED <<mainThreadID, terminate, uiTerminate, update, shown, messages,
                 quitSent>>

\* ... and any other interruption is ignored.
Main_ErrorOther ==
  /\ mainPc = "error"
  /\ ~uiTerminate /\ ~update /\ ~resize
  /\ MainGoto("loop")
  /\ UNCHANGED <<mainThreadID, flags, screenVars, messages, quitSent>>

\* App_updateHandler: one turn of its loop.  UILogMessage answers a /quit of
\* the server with a SIGTERM to its own thread.
Main_Update ==
  /\ mainPc = "update"
  /\ IF messages = <<>>
     THEN MainGoto("loop") /\ UNCHANGED <<flags, shown, messages>>
     ELSE /\ messages' = Tail(messages)
          /\ shown' = Append(shown, Head(messages))
          /\ IF Head(messages) = "quit" THEN HandleTerm ELSE UNCHANGED flags
          /\ UNCHANGED mainPc
  /\ UNCHANGED <<mainThreadID, big, quitSent>>

\* UIInputLoop has returned kUITerminate.
Main_Ended ==
  /\ mainPc = "ended"
  /\ terminate' = TRUE
  /\ MainGoto("quit")
  /\ UNCHANGED <<mainThreadID, uiTerminate, update, resize, screenVars,
                 messages, quitSent>>

\* Client_send of what the user typed; a failure ends the loop, and so does a
\* client that has been destroyed.
Main_Send ==
  /\ mainPc = "send"
  /\ \/ lpc \notin {"free", "dying"} /\ MainGoto("run")
     \/ ~open /\ MainGoto("quit")
  /\ UNCHANGED <<mainThreadID, flags, screenVars, messages, quitSent>>

\* SIGPIPE, which the client does not handle: Client_send writes to a connection
\* that the server has closed and the listening thread has not.
Main_Killed ==
  /\ mainPc \in {"send", "quit"}
  /\ ~open /\ lpc \notin {"tell", "exited", "free", "dying"}
  /\ crashed' = TRUE
  /\ UNCHANGED <<mainPc, mainThreadID, flags, screenVars, lpc, buffer, messages,
                 received, netVars>>

\* SIGSEGV: the main thread uses the client while the listening thread destroys it,
\* and calls exit(), too.  It has no reason to look at the queue: the listening
\* thread has not been able to signal an update.
Main_Faults ==
  /\ mainPc \in {"send", "quit"} /\ lpc = "destroy"
  /\ crashed' = TRUE
  /\ UNCHANGED <<mainPc, mainThreadID, flags, screenVars, lpc, buffer, messages,
                 received, netVars>>

\* The /quit at the end of App_run, then UIClean.
Main_Quit ==
  /\ mainPc = "quit"
  /\ quitSent' = open
  /\ MainGoto("join")
  /\ UNCHANGED <<mainThreadID, flags, screenVars, messages>>

\* Mutant: the listening thread is not waited for.
Main_Join_Detached ==
  /\ mainPc = "join"
  /\ MainGoto("exit")
  /\ UNCHANGED <<mainThreadID, flags, screenVars, messages, quitSent>>

\* pthread_join() of the listening thread; the process ends, and App_cleanup
\* frees the client and the queue.
Main_Join ==
  /\ mainPc = "join"
  /\ lpc = "exited"
  /\ MainGoto("exit")
  /\ UNCHANGED <<mainThreadID, flags, screenVars, messages, quitSent>>

MainStep ==
  /\ \/ Main_Start \/ Main_Run \/ Main_Loop \/ Main_Enter
     \/ Main_ErrorTerminate \/ Main_ErrorUpdate \/ Main_ErrorResize
     \/ Main_ErrorOther \/ Main_Update \/ Main_Ended \/ Main_Send
     \/ Main_Quit \/ Main_Join
  /\ MainFrame

\* A key while wget_wch() waits: F1, Enter on a message, Enter on /quit or an
\* input error, Enter on an unusable line, or a key that edits or browses.
Key ==
  /\ mainPc = "wget_wch"
  /\ MainGoto("ended") \/ MainGoto("send") \/ MainGoto("quit")
     \/ MainGoto("run") \/ MainGoto("loop")
  /\ MainFrame
  /\ UNCHANGED <<mainThreadID, flags, screenVars, messages, quitSent>>

\* ncurses itself reports a new terminal size, as a key.
KeyResize ==
  /\ mainPc = "wget_wch"
  /\ big' \in BOOLEAN
  /\ MainGoto("loop")
  /\ MainFrame
  /\ UNCHANGED <<mainThreadID, flags, shown, messages, quitSent>>

-----------------------------------------------------------------------------
(* The listening thread: App_listen. *)

ListenGoto(label) == lpc' = label

ListenFrame ==
  UNCHANGED <<mainThreadID, screenVars, batches, quitSent, serverVars>>

\* while (!terminate)
Listen_Test ==
  /\ lpc = "test"
  /\ ListenGoto(IF terminate THEN "close" ELSE "select")
  /\ UNCHANGED <<crashed, mainPc, flags, buffer, messages, received, net, open>>

\* select() reports data, and Client_receive reads it.
Listen_Receive ==
  /\ lpc = "select"
  /\ net # <<>>
  /\ buffer' = Head(net)
  /\ received' = received \o Head(net)
  /\ net' = Tail(net)
  /\ ListenGoto("push")
  /\ UNCHANGED <<crashed, mainPc, flags, messages, open>>

\* Mutant: the end of the connection is taken for an interruption.
Listen_Closed_Retries ==
  /\ lpc = "select"
  /\ net = <<>> /\ ~open
  /\ ListenGoto("sleep")
  /\ UNCHANGED <<crashed, mainPc, flags, buffer, messages, received, net, open>>

\* The connection has been closed.
Listen_Closed ==
  /\ lpc = "select"
  /\ net = <<>> /\ ~open
  /\ terminate' = TRUE
  /\ ListenGoto("close")
  /\ UNCHANGED <<crashed, mainPc, uiTerminate, update, resize, buffer,
                 messages, received, net, open>>

\* select() or the read fails.
Listen_Fails ==
  /\ lpc = "select"
  /\ terminate' = TRUE
  /\ ListenGoto("close")
  /\ ListenFrame
  /\ UNCHANGED <<crashed, mainPc, uiTerminate, update, resize, buffer,
                 messages, received, net, open>>

\* Mutant: the newest message goes first.
Listen_Push_Front ==
  /\ lpc = "push"
  /\ IF buffer = <<>>
     THEN ListenGoto("alert") /\ UNCHANGED <<buffer, messages>>
     ELSE /\ messages' = <<Head(buffer)>> \o messages
          /\ buffer' = Tail(buffer)
          /\ UNCHANGED lpc
  /\ UNCHANGED <<crashed, mainPc, flags, received, net, open>>

\* One turn of the loop over the messages of the buffer.
Listen_Push ==
  /\ lpc = "push"
  /\ IF buffer = <<>>
     THEN ListenGoto("alert") /\ UNCHANGED <<buffer, messages>>
     ELSE /\ messages' = Append(messages, Head(buffer))
          /\ buffer' = Tail(buffer)
          /\ UNCHANGED lpc
  /\ UNCHANGED <<crashed, mainPc, flags, received, net, open>>

\* pthread_kill(mainThreadID, SIGUSR2)
Listen_Alert ==
  /\ lpc = "alert"
  /\ mainThreadID
  /\ HandleUsr2
  /\ Interrupt
  /\ ListenGoto("sleep")
  /\ UNCHANGED <<crashed, buffer, messages, received, net, open>>

\* nanosleep()
Listen_Sleep ==
  /\ lpc = "sleep"
  /\ ListenGoto("test")
  /\ UNCHANGED <<crashed, mainPc, flags, buffer, messages, received, net, open>>

\* SOCKET_close()
Listen_Close ==
  /\ lpc = "close"
  /\ open' = FALSE
  /\ net' = <<>>
  /\ ListenGoto("tell")
  /\ UNCHANGED <<crashed, mainPc, flags, buffer, messages, received>>

\* pthread_kill(mainThreadID, SIGTERM), the last thing the thread does.
Listen_Tell ==
  /\ lpc = "tell"
  /\ mainThreadID
  /\ HandleTerm
  /\ Interrupt
  /\ ListenGoto("exited")
  /\ UNCHANGED <<crashed, buffer, messages, received, net, open>>

\* The signal is sent before App_run has stored the thread it is for: pthread_kill()
\* of no thread is undefined.  It faults, App_handleSignal calls exit(), and so the
\* listening thread runs App_cleanup while the main thread goes on ...
Listen_Crash ==
  /\ lpc \in {"alert", "tell"}
  /\ ~mainThreadID
  /\ ListenGoto("destroy")
  /\ UNCHANGED <<crashed, mainPc, flags, buffer, messages, received, net, open>>

\* ... or it fails, and nobody is told.
Listen_Untold ==
  /\ lpc \in {"alert", "tell"}
  /\ ~mainThreadID
  /\ ListenGoto(IF lpc = "alert" THEN "sleep" ELSE "exited")
  /\ UNCHANGED <<crashed, mainPc, flags, buffer, messages, received, net, open>>

\* Client_destroy
Listen_Destroy ==
  /\ lpc = "destroy"
  /\ open' = FALSE
  /\ net' = <<>>
  /\ ListenGoto("free")
  /\ UNCHANGED <<crashed, mainPc, flags, buffer, messages, received>>

\* CQueue_free
Listen_Free ==
  /\ lpc = "free"
  /\ ListenGoto("dying")
  /\ UNCHANGED <<crashed, mainPc, flags, buffer, messages, received, net, open>>

\* exit() ends the process.
Listen_Dies ==
  /\ lpc = "dying"
  /\ crashed' = TRUE
  /\ UNCHANGED <<mainPc, flags, lpc, buffer, messages, received, net, open>>

ListenStep ==
  /\ \/ Listen_Test \/ Listen_Receive \/ Listen_Closed \/ Listen_Push
     \/ Listen_Alert \/ Listen_Sleep \/ Listen_Close \/ Listen_Tell
     \/ Listen_Crash \/ Listen_Untold \/ Listen_Destroy \/ Listen_Free \/ Listen_Dies
  /\ ListenFrame

-----------------------------------------------------------------------------
(* The user's signals and the server. *)

Environment ==
  UNCHANGED <<crashed, mainThreadID, screenVars, buffer, messages, received>>

\* Signals are handled as of App_start.
SignalTerm ==
  /\ mainPc \notin LoginPcs
  /\ HandleTerm /\ Interrupt
  /\ Environment /\ UNCHANGED <<lpc, netVars>>

SignalWinch ==
  /\ mainPc \notin LoginPcs
  /\ HandleWinch /\ Interrupt
  /\ Environment /\ UNCHANGED <<lpc, netVars>>

\* No thread masks these signals: the handler may as well run in the listening
\* thread, where it interrupts select() and not wget_wch().
SignalElsewhere ==
  /\ lpc \notin {"none", "exited"}
  /\ HandleTerm \/ HandleWinch
  /\ lpc' = IF lpc = "select" THEN "test" ELSE lpc
  /\ Environment
  /\ UNCHANGED <<mainPc, netVars>>

ServerFrame ==
  Environment /\ UNCHANGED <<mainPc, flags, lpc, batches, quitSent, nickSent>>

\* One message of the login, as a read of its own.
Tell(kind) == net' = Append(net, <<kind>>)

\* Server_start: there are no connections left.
Server_Refuse ==
  /\ spc = "accepted" /\ open
  /\ Tell("err")
  /\ open' = FALSE
  /\ UNCHANGED spc

\* Server_handleClient
Server_Welcome ==
  /\ spc = "accepted" /\ open
  /\ Tell("ok")
  /\ spc' = "welcomed"
  /\ UNCHANGED open

\* Server_authenticate
Server_Prompt ==
  /\ spc = "welcomed" /\ open
  /\ Tell("nick")
  /\ spc' = "auth"
  /\ UNCHANGED open

\* Server_authenticate fails: the timeout and an invalid nickname have an /err
\* of their own, a nickname that is taken has not; then Server_handleClient.
Server_AuthFails ==
  /\ spc = "auth" /\ open
  /\ \E errs \in {<< <<"err">> >>, << <<"err">>, <<"err">> >>} : net' = net \o errs
  /\ open' = FALSE
  /\ UNCHANGED spc

\* Server_authenticate stores the nickname: from now on there are broadcasts.
Server_Accept ==
  /\ spc = "auth" /\ nickSent /\ open
  /\ spc' = "hello"
  /\ UNCHANGED <<net, open>>

\* Server_handleClient says Hello.
Server_Hello ==
  /\ spc = "hello" /\ open
  /\ Tell("ok")
  /\ spc' = "chat"
  /\ UNCHANGED open

ServerLogin ==
  /\ \/ Server_Refuse \/ Server_Welcome \/ Server_Prompt \/ Server_AuthFails
     \/ Server_Accept \/ Server_Hello
  /\ ServerFrame

\* A broadcast or, once the client chats, an answer to what it has sent.
ServerSends ==
  /\ open /\ spc \in {"hello", "chat"}
  /\ batches < MaxBatches
  /\ batches' = batches + 1
  /\ \E batch \in Batches :
       /\ spc = "hello" => \A i \in DOMAIN batch : batch[i] \in {"log", "quit"}
       /\ net' = Append(net, batch)
  /\ Environment
  /\ UNCHANGED <<mainPc, flags, lpc, open, quitSent, serverVars>>

\* The server closes the connection, at will or because it was sent a /quit.
ServerCloses ==
  /\ open
  /\ open' = FALSE
  /\ Environment
  /\ UNCHANGED <<mainPc, flags, lpc, net, batches, quitSent, serverVars>>

Next ==
  /\ ~crashed /\ mainPc # "exit"
  /\ \/ LoginStep \/ LoginChance \/ ServerLogin
     \/ MainStep \/ Main_Killed \/ Main_Faults \/ Key \/ KeyResize
     \/ ListenStep \/ Listen_Fails
     \/ SignalTerm \/ SignalWinch \/ SignalElsewhere
     \/ ServerSends \/ ServerCloses

Spec == Init /\ [][Next]_vars

Running == ~crashed /\ mainPc # "exit"

Listen_Report == (Listen_Receive \/ Listen_Closed) /\ ListenFrame

\* Both threads are scheduled, and so is the server's thread, which answers or
\* whose select() times out in a login; signals do not for ever come just before
\* select() reports something; and the server closes the connection of a
\* client that has sent /quit.  The user and the network owe nothing else.
Fairness ==
  /\ WF_vars(Running /\ LoginStep)
  /\ WF_vars(Running /\ ServerLogin)
  /\ WF_vars(Running /\ MainStep)
  /\ WF_vars(Running /\ ListenStep)
  /\ SF_vars(Running /\ Listen_Report)
  /\ WF_vars(Running /\ quitSent /\ ServerCloses)

FairSpec == Spec /\ Fairness

-----------------------------------------------------------------------------
(* Correctness. *)

\* App_listen, the queue and App_updateHandler lose, repeat and reorder
\* nothing: what is on the screen, then what is queued, then what has been
\* read and is not queued yet, is what came from the server.
MessagesAreKept == shown \o messages \o buffer = received

\* App_cleanup frees the client and the queue.  The main thread does so when the
\* listening thread, if there ever was one, has ended and is not in a cleanup of
\* its own; and whichever thread does it, the socket is closed and all that has
\* been read has been queued.  A cleanup in a listening thread that has faulted is
\* not alone: the main thread may use the client (Main_Faults).
CleanupIsAlone ==
  /\ mainPc = "exit" => lpc \in {"none", "exited"}
  /\ mainPc = "exit" \/ lpc \in {"free", "dying"} => ~open
  /\ mainPc = "exit" \/ lpc \in CleaningPcs => buffer = <<>>

\* Client_authenticate: a client that goes on to the chat has been accepted and
\* has been said Hello to, and nothing of the login is left in the connection
\* for App_listen to show: neither a signal that replaces the welcome nor a
\* broadcast that comes before the Hello is taken for the answer.
LoginIsAgreed ==
  lpc # "none" => spc = "chat" /\ \A i \in DOMAIN net : net[i] \in Batches

\* Client_authenticate reads without a timeout, and is right to: the server
\* prompts and answers, or it gives up and closes the connection, and the
\* client notices.
LoginEnds == mainPc \in {"prompt", "answer"} ~> mainPc \notin {"prompt", "answer"}

\* App_start: once App_run is left, for whatever reason and wherever the
\* listening thread is, the process ends.  The listening thread may be blocked
\* in select(), from where only the server's answer to /quit brings it back.
LeavingEnds == mainPc = "quit" ~> ~Running

\* UIInputLoop and App_run: a request to terminate, by whichever thread, that
\* does not find the main thread between its test of the flag and the end of
\* wget_wch() ends the process, whatever else is pending.
TerminationIsNoticed ==
  uiTerminate /\ mainPc \notin {"enter", "wget_wch"} ~> ~Running

-----------------------------------------------------------------------------
(* The inductive invariant behind the handover of messages and the cleanup. *)

\* The listening thread holds messages only while it queues them.
BufferIsDrained == lpc # "push" => buffer = <<>>

\* The listening thread closes the socket before it tells the main thread, and before
\* it frees the queue.
SocketIsClosed == lpc \in {"tell", "exited", "free", "dying"} => ~open

\* There is no listening thread as long as the main thread starts the program.
ThreadComesLate == mainPc \in LoginPcs \cup {"init"} => lpc = "none"

\* The process ends after the listening thread, with the connection closed.
ProcessEndsLast == mainPc = "exit" => lpc \in {"none", "exited"} /\ ~open

\* What every step of both threads preserves, and from which the handover of
\* the messages and the cleanup follow.
ClientInvariant ==
  /\ TypeOK
  /\ MessagesAreKept
  /\ BufferIsDrained
  /\ SocketIsClosed
  /\ ThreadComesLate
  /\ ProcessEndsLast

-----------------------------------------------------------------------------
(* The inductive invariant behind LoginIsAgreed. *)

\* The /ok at j is the Hello: nothing but the chat follows it.
HelloAt(j) == spc = "chat" /\ \A k \in DOMAIN net : k > j => net[k] \in Batches

\* Nothing has been sent before the connection exists.
NothingIsEarly == mainPc \in {"create", "connect"} => spc = "none" /\ net = <<>>

NoPrompt == \A i \in DOMAIN net : ~IsKind(net[i], "nick")

\* The client does not wait for an answer before it has been prompted.
PromptComesFirst ==
  spc \in {"none", "accepted", "welcomed"} => mainPc # "answer" /\ NoPrompt

\* What is /ok after the prompt is the Hello, ...
OkIsHello ==
  \A i, j \in DOMAIN net :
    i < j /\ IsKind(net[i], "nick") /\ IsKind(net[j], "ok") => HelloAt(j)

EveryOkIsHello == \A j \in DOMAIN net : IsKind(net[j], "ok") => HelloAt(j)

\* ... also when the prompt has been read.
AnswerIsHello == mainPc = "answer" => EveryOkIsHello

\* What every step of the client and of the server preserves in a login, and
\* from which it follows that both mean the same answer.
LoginInvariant ==
  /\ NetTypeOK
  /\ NothingIsEarly
  /\ PromptComesFirst
  /\ OkIsHello
  /\ AnswerIsHello
  /\ mainPc \in {"handlers", "init"} \/ lpc # "none" => HelloAt(0)
=============================================================================
