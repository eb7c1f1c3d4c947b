--------------------------- MODULE ClientAppProofs ---------------------------
(* Theorems about ClientApp for every value of its constants. *)
EXTENDS ClientApp, SequenceTheorems, TLAPS

-----------------------------------------------------------------------------
(* Concatenation: a message that moves from one sequence to the next. *)

\* A sequence that is not empty is its head followed by its tail.
LEMMA HeadThenTail ==
  ASSUME NEW S, NEW s \in Seq(S), s # <<>>
  PROVE  /\ Head(s) \in S
         /\ Tail(s) \in Seq(S)
         /\ <<Head(s)>> \in Seq(S)
         /\ s = <<Head(s)>> \o Tail(s)
<1>1. Head(s) \in S /\ Tail(s) \in Seq(S) /\ Len(Tail(s)) = Len(s) - 1
      /\ \A i \in 1 .. Len(Tail(s)) : Tail(s)[i] = s[i + 1]
  BY HeadTailProperties
<1>2. <<Head(s)>> \in Seq(S) /\ Len(<<Head(s)>>) = 1 /\ <<Head(s)>>[1] = s[1]
  BY <1>1
<1> DEFINE t == <<Head(s)>> \o Tail(s)
<1>3. /\ t \in Seq(S)
      /\ Len(t) = Len(s)
      /\ \A i \in 1 .. Len(s) :
           t[i] = IF i <= 1 THEN <<Head(s)>>[i] ELSE Tail(s)[i - 1]
  BY <1>1, <1>2, ConcatProperties
<1>4. \A i \in 1 .. Len(s) : s[i] = t[i]
  BY <1>1, <1>2, <1>3
<1>5. s = t
  BY <1>3, <1>4, SeqEqual
<1> QED
  BY <1>1, <1>2, <1>5

\* Taking the head of the second of two sequences and appending it to the first
\* does not change their concatenation.
LEMMA MoveHead ==
  ASSUME NEW S, NEW s \in Seq(S), NEW t \in Seq(S), t # <<>>
  PROVE  /\ Append(s, Head(t)) \in Seq(S)
         /\ Append(s, Head(t)) \o Tail(t) = s \o t
<1>1. /\ Head(t) \in S
      /\ Tail(t) \in Seq(S)
      /\ <<Head(t)>> \in Seq(S)
      /\ t = <<Head(t)>> \o Tail(t)
  BY HeadThenTail
<1>2. Append(s, Head(t)) = s \o <<Head(t)>>
  BY <1>1, AppendIsConcat
<1>3. (s \o <<Head(t)>>) \o Tail(t) = s \o (<<Head(t)>> \o Tail(t))
  BY <1>1, ConcatAssociative
<1>4. Append(s, Head(t)) \in Seq(S)
  BY <1>1
<1> QED
  BY <1>1, <1>2, <1>3, <1>4

-----------------------------------------------------------------------------
(* The inductive invariant. *)

\* Every step keeps the types of the program counters and flags.
LEMMA ThreadsKeepTypes ==
  ASSUME ThreadTypeOK, Next
  PROVE  ThreadTypeOK'
<1> USE DEF ThreadTypeOK, MainGoto, ListenGoto, flags, screenVars, Interrupt,
            HandleTerm, HandleUsr2, HandleWinch, LoginPcs, CleaningPcs
<1>0. CASE LoginStep \/ LoginChance
  <2> USE DEF LoginFrame, GoOn, Proceed, Exit
  <2>1. CASE LoginStep
    BY <2>1 DEF LoginStep, Login_Create, Login_Connect, Login_Welcome,
       Login_WelcomeTimeout, Login_Prompt, Login_Answer, App_Handlers, App_Init
  <2>2. CASE LoginChance
    BY <2>2 DEF LoginChance, Login_Interrupted, Login_Nickname, Login_Fails
  <2> QED
    BY <1>0, <2>1, <2>2
<1>1. CASE MainStep
  <2> USE DEF MainFrame
  <2>1. CASE Main_Start
    BY <1>1, <2>1 DEF MainStep, Main_Start
  <2>2. CASE Main_Run \/ Main_Loop \/ Main_Enter
    BY <1>1, <2>2 DEF MainStep, Main_Run, Main_Loop, Main_Enter
  <2>3. CASE Main_ErrorTerminate \/ Main_ErrorUpdate
    BY <1>1, <2>3 DEF MainStep, Main_ErrorTerminate, Main_ErrorUpdate
  <2>4. CASE Main_ErrorResize \/ Main_ErrorOther
    BY <1>1, <2>4 DEF MainStep, Main_ErrorResize, Main_ErrorOther
  <2>5. CASE Main_Update
    <3>1. /\ crashed' = crashed /\ mainThreadID' = mainThreadID /\ lpc' = lpc /\ big' = big
          /\ mainPc' = mainPc \/ mainPc' = "loop"
      BY <1>1, <2>5 DEF MainStep, Main_Update
    <3>2. UNCHANGED flags \/ HandleTerm
      BY <2>5 DEF Main_Update
    <3>3. /\ terminate' \in BOOLEAN /\ uiTerminate' \in BOOLEAN
          /\ update' \in BOOLEAN /\ resize' \in BOOLEAN
      BY <3>2
    <3> QED
      BY <3>1, <3>3
  <2>6. CASE Main_Ended \/ Main_Send
    <3>1. CASE Main_Ended
      BY <1>1, <3>1 DEF MainStep, Main_Ended
    <3>2. CASE Main_Send
      <4>1. mainPc' = "run" \/ mainPc' = "quit"
        BY <3>2 DEF Main_Send
      <4> QED
        BY <1>1, <3>2, <4>1 DEF MainStep, Main_Send
    <3> QED
      BY <2>6, <3>1, <3>2
  <2>7. CASE Main_Quit \/ Main_Join
    BY <1>1, <2>7 DEF MainStep, Main_Quit, Main_Join
  <2> QED
    BY <1>1, <2>1, <2>2, <2>3, <2>4, <2>5, <2>6, <2>7 DEF MainStep
<1>2. CASE Main_Killed \/ Main_Faults \/ Key \/ KeyResize
  <2>1. CASE Main_Killed \/ Main_Faults
    BY <2>1 DEF Main_Killed, Main_Faults
  <2>2. CASE Key \/ KeyResize
    BY <2>2 DEF Key, KeyResize, MainFrame
  <2> QED
    BY <1>2, <2>1, <2>2
<1>3. CASE ListenStep
  <2> USE DEF ListenFrame
  <2>1. CASE Listen_Test \/ Listen_Receive \/ Listen_Closed
    BY <1>3, <2>1 DEF ListenStep, Listen_Test, Listen_Receive, Listen_Closed
  <2>2. CASE Listen_Push \/ Listen_Sleep \/ Listen_Close
    BY <1>3, <2>2 DEF ListenStep, Listen_Push, Listen_Sleep, Listen_Close
  <2>3. CASE Listen_Alert
    BY <1>3, <2>3 DEF ListenStep, Listen_Alert
  <2>4. CASE Listen_Tell
    BY <1>3, <2>4 DEF ListenStep, Listen_Tell
  <2>5. CASE Listen_Crash \/ Listen_Untold \/ Listen_Destroy \/ Listen_Free \/ Listen_Dies
    BY <1>3, <2>5 DEF ListenStep, Listen_Crash, Listen_Untold, Listen_Destroy, Listen_Free,
       Listen_Dies
  <2> QED
    BY <1>3, <2>1, <2>2, <2>3, <2>4, <2>5 DEF ListenStep
<1>4. CASE Listen_Fails
  BY <1>4 DEF Listen_Fails, ListenFrame
<1>5. CASE SignalTerm \/ SignalWinch
  <2>1. CASE SignalTerm
    BY <2>1 DEF SignalTerm, Environment
  <2>2. CASE SignalWinch
    BY <2>2 DEF SignalWinch, Environment
  <2> QED
    BY <1>5, <2>1, <2>2
<1>6. CASE SignalElsewhere
  BY <1>6 DEF SignalElsewhere, Environment
<1>7. CASE ServerLogin \/ ServerSends \/ ServerCloses
  BY <1>7 DEF ServerLogin, ServerFrame, ServerSends, ServerCloses, Environment
<1> QED
  BY <1>0, <1>1, <1>2, <1>3, <1>4, <1>5, <1>6, <1>7 DEF Next

\* Every step keeps the types of what is on the network.
LEMMA NetKeepsType ==
  ASSUME NetTypeOK, Next
  PROVE  NetTypeOK'
<1> DEFINE Reads == Seq(Seq(MessageKinds))
<1> USE DEF NetTypeOK, netVars, serverVars
<1>a. <<>> \in Reads /\ (net # <<>> => Tail(net) \in Reads)
  BY EmptySeq, HeadTailProperties
<1>b. \A kind \in MessageKinds : <<kind>> \in Seq(MessageKinds)
  OBVIOUS
<1>c. \A batch \in Seq(MessageKinds) : Append(net, batch) \in Reads
  BY AppendProperties
<1>0. CASE LoginStep \/ LoginChance
  <2> USE DEF LoginFrame, GoOn, Proceed, Exit, Gets
  <2>1. CASE LoginStep
    <3>1. net' \in Reads
      BY <1>a, <2>1 DEF LoginStep, Login_Create, Login_Connect, Login_Welcome,
         Login_WelcomeTimeout, Login_Prompt, Login_Answer, App_Handlers, App_Init
    <3>2. open' \in BOOLEAN /\ nickSent' \in BOOLEAN
      BY <2>1 DEF LoginStep, Login_Create, Login_Connect, Login_Welcome,
         Login_WelcomeTimeout, Login_Prompt, Login_Answer, App_Handlers, App_Init
    <3>3. spc' = spc \/ spc' = "accepted"
      BY <2>1 DEF LoginStep, Login_Create, Login_Connect, Login_Welcome,
         Login_WelcomeTimeout, Login_Prompt, Login_Answer, App_Handlers, App_Init
    <3> QED
      BY <2>1, <3>1, <3>2, <3>3 DEF LoginStep
  <2>2. CASE LoginChance
    BY <1>a, <2>2 DEF LoginChance, Login_Interrupted, Login_Nickname, Login_Fails
  <2> QED
    BY <1>0, <2>1, <2>2
<1>1. CASE MainStep
  BY <1>1 DEF MainStep, MainFrame, Main_Start, Main_Run, Main_Loop, Main_Enter,
     Main_ErrorTerminate, Main_ErrorUpdate, Main_ErrorResize, Main_ErrorOther,
     Main_Update, Main_Ended, Main_Send, Main_Quit, Main_Join
<1>2. CASE Main_Killed \/ Main_Faults \/ Key \/ KeyResize
  BY <1>2 DEF Main_Killed, Main_Faults, Key, KeyResize, MainFrame
<1>3. CASE ListenStep
  BY <1>3, <1>a DEF ListenStep, ListenFrame, Listen_Test, Listen_Receive,
     Listen_Closed, Listen_Push, Listen_Alert, Listen_Sleep, Listen_Close,
     Listen_Tell, Listen_Crash, Listen_Untold, Listen_Destroy,
     Listen_Free, Listen_Dies
<1>4. CASE Listen_Fails
  BY <1>4 DEF Listen_Fails, ListenFrame
<1>5. CASE SignalTerm \/ SignalWinch \/ SignalElsewhere
  BY <1>5 DEF SignalTerm, SignalWinch, SignalElsewhere, Environment
<1>6. CASE ServerLogin
  <2> USE DEF ServerFrame, Environment
  <2>1. CASE Server_AuthFails
    <3>1. PICK errs \in {<< <<"err">> >>, << <<"err">>, <<"err">> >>} :
            net' = net \o errs
      BY <2>1 DEF Server_AuthFails
    <3>2. errs \in Reads
      <4>1. <<"err">> \in Seq(MessageKinds)
        BY <1>b DEF MessageKinds
      <4>2. \A S : \A a \in S : <<a>> \in Seq(S) /\ <<a, a>> \in Seq(S)
        OBVIOUS
      <4> QED
        BY <4>1, <4>2, Zenon
    <3>3. net' \in Reads
      BY <3>1, <3>2, ConcatProperties
    <3> QED
      BY <1>6, <2>1, <3>3 DEF ServerLogin, Server_AuthFails
  <2>2. CASE Server_Refuse \/ Server_Welcome \/ Server_Prompt \/ Server_Hello
    <3>1. \E kind \in MessageKinds : Tell(kind)
      BY <2>2 DEF Server_Refuse, Server_Welcome, Server_Prompt, Server_Hello,
         MessageKinds
    <3>2. net' \in Reads
      BY <1>b, <1>c, <3>1 DEF Tell
    <3> QED
      BY <1>6, <2>2, <3>2 DEF ServerLogin, Server_Refuse, Server_Welcome,
         Server_Prompt, Server_Hello
  <2>3. CASE Server_Accept
    BY <1>6, <2>3 DEF ServerLogin, Server_Accept
  <2> QED
    BY <1>6, <2>1, <2>2, <2>3 DEF ServerLogin
<1>7. CASE ServerSends
  <2>1. PICK batch \in Batches : net' = Append(net, batch)
    BY <1>7 DEF ServerSends
  <2>2. net' \in Reads
    BY <2>1, <1>c, BatchesAssumption
  <2>3. batches' \in 0 .. MaxBatches
    BY <1>7, BoundAssumption DEF ServerSends
  <2> QED
    BY <1>7, <2>2, <2>3 DEF ServerSends, Environment
<1>8. CASE ServerCloses
  BY <1>8 DEF ServerCloses, Environment
<1> QED
  BY <1>0, <1>1, <1>2, <1>3, <1>4, <1>5, <1>6, <1>7, <1>8 DEF Next

\* Every step passes messages on without losing, repeating or reordering one.
LEMMA StepsKeepMessages ==
  ASSUME ClientInvariant, Next
  PROVE  MessageTypeOK' /\ MessagesAreKept'
<1>0. MessageTypeOK /\ NetTypeOK /\ MessagesAreKept /\ BufferIsDrained
  BY DEF ClientInvariant, TypeOK
<1>01. /\ shown \in Seq(MessageKinds) /\ messages \in Seq(MessageKinds)
       /\ buffer \in Seq(MessageKinds) /\ received \in Seq(MessageKinds)
       /\ (shown \o messages) \o buffer = received
  BY <1>0 DEF MessageTypeOK, MessagesAreKept
<1>1. CASE UNCHANGED <<shown, messages, buffer, received>>
  BY <1>0, <1>1 DEF MessageTypeOK, MessagesAreKept
<1>2. CASE Main_Update /\ MainFrame /\ messages # <<>>
  <2>1. /\ messages' = Tail(messages)
        /\ shown' = Append(shown, Head(messages))
        /\ buffer' = buffer /\ received' = received
    BY <1>2 DEF Main_Update, MainFrame
  <2>2. Tail(messages) \in Seq(MessageKinds)
    BY <1>01, <1>2, HeadTailProperties
  <2>3. /\ Append(shown, Head(messages)) \in Seq(MessageKinds)
        /\ Append(shown, Head(messages)) \o Tail(messages) = shown \o messages
    BY <1>01, <1>2, MoveHead
  <2> QED
    BY <1>01, <2>1, <2>2, <2>3 DEF MessageTypeOK, MessagesAreKept
<1>3. CASE Listen_Receive /\ ListenFrame
  <2>1. /\ buffer' = Head(net) /\ received' = received \o Head(net)
        /\ shown' = shown /\ messages' = messages
    BY <1>3 DEF Listen_Receive, ListenFrame, screenVars
  <2>2. Head(net) \in Seq(MessageKinds)
    BY <1>0, <1>3, HeadTailProperties DEF NetTypeOK, Listen_Receive
  <2>3. buffer = <<>>
    BY <1>0, <1>3 DEF BufferIsDrained, Listen_Receive
  <2>4. shown \o messages \in Seq(MessageKinds)
    BY <1>01, ConcatProperties
  <2>5. received = shown \o messages
    BY <1>01, <2>3, <2>4, ConcatEmptySeq
  <2>6. received \o Head(net) \in Seq(MessageKinds)
    BY <1>01, <2>2, ConcatProperties
  <2> QED
    BY <1>01, <2>1, <2>2, <2>5, <2>6 DEF MessageTypeOK, MessagesAreKept
<1>4. CASE Listen_Push /\ ListenFrame /\ buffer # <<>>
  <2>1. /\ messages' = Append(messages, Head(buffer))
        /\ buffer' = Tail(buffer)
        /\ shown' = shown /\ received' = received
    BY <1>4 DEF Listen_Push, ListenFrame, screenVars
  <2>2. Tail(buffer) \in Seq(MessageKinds)
    BY <1>01, <1>4, HeadTailProperties
  <2>3. /\ Append(messages, Head(buffer)) \in Seq(MessageKinds)
        /\ Append(messages, Head(buffer)) \o Tail(buffer) = messages \o buffer
    BY <1>01, <1>4, MoveHead
  <2>4. /\ messages' \in Seq(MessageKinds)
        /\ buffer' \in Seq(MessageKinds)
        /\ messages' \o buffer' = messages \o buffer
    BY <2>1, <2>2, <2>3
  <2>5. \A a, b, c \in Seq(MessageKinds) : (a \o b) \o c = a \o (b \o c)
    BY ConcatAssociative
  <2>6. (shown \o messages') \o buffer' = shown \o (messages' \o buffer')
    BY <1>01, <2>4, <2>5, Zenon
  <2>7. (shown \o messages) \o buffer = shown \o (messages \o buffer)
    BY <1>01, <2>5, Zenon
  <2> QED
    BY <1>01, <2>1, <2>4, <2>6, <2>7 DEF MessageTypeOK, MessagesAreKept
<1>5. \/ UNCHANGED <<shown, messages, buffer, received>>
      \/ Main_Update /\ MainFrame /\ messages # <<>>
      \/ Listen_Receive /\ ListenFrame
      \/ Listen_Push /\ ListenFrame /\ buffer # <<>>
  <2> USE DEF screenVars, MainFrame, ListenFrame, Environment
  <2>0. CASE LoginStep \/ LoginChance
    BY <2>0 DEF LoginStep, LoginChance, LoginFrame
  <2>1. CASE MainStep
    BY <2>1 DEF MainStep, Main_Start, Main_Run, Main_Loop, Main_Enter,
       Main_ErrorTerminate, Main_ErrorUpdate, Main_ErrorResize,
       Main_ErrorOther, Main_Update, Main_Ended, Main_Send, Main_Quit, Main_Join
  <2>2. CASE Main_Killed \/ Main_Faults \/ Key \/ KeyResize
    BY <2>2 DEF Main_Killed, Main_Faults, Key, KeyResize
  <2>3. CASE ListenStep
    BY <2>3 DEF ListenStep, Listen_Test, Listen_Closed, Listen_Push,
       Listen_Alert, Listen_Sleep, Listen_Close, Listen_Tell, Listen_Crash,
       Listen_Untold, Listen_Destroy, Listen_Free, Listen_Dies
  <2>4. CASE Listen_Fails
    BY <2>4 DEF Listen_Fails
  <2>5. CASE SignalTerm \/ SignalWinch \/ SignalElsewhere
    BY <2>5 DEF SignalTerm, SignalWinch, SignalElsewhere
  <2>6. CASE ServerLogin \/ ServerSends \/ ServerCloses
    BY <2>6 DEF ServerLogin, ServerFrame, ServerSends, ServerCloses
  <2> QED
    BY <2>0, <2>1, <2>2, <2>3, <2>4, <2>5, <2>6 DEF Next
<1> QED
  BY <1>1, <1>2, <1>3, <1>4, <1>5

\* Every step keeps the order in which the two threads begin and end.
LEMMA StepsKeepOrder ==
  ASSUME ClientInvariant, Next
  PROVE  BufferIsDrained' /\ SocketIsClosed' /\ ThreadComesLate' /\ ProcessEndsLast'
<1>0. /\ lpc # "push" => buffer = <<>>
      /\ lpc \in {"tell", "exited", "free", "dying"} => ~open
      /\ mainPc \in LoginPcs \cup {"init"} => lpc = "none"
      /\ mainPc # "exit"
  BY DEF ClientInvariant, BufferIsDrained, SocketIsClosed, ThreadComesLate, Next
<1> USE DEF BufferIsDrained, SocketIsClosed, ThreadComesLate, ProcessEndsLast,
            MainGoto, ListenGoto, netVars, MainFrame, ListenFrame, Environment,
            Interrupt, LoginPcs
<1>1. CASE LoginStep \/ LoginChance
  <2> USE DEF LoginFrame, GoOn, Proceed, Exit
  <2>1. CASE LoginStep
    BY <1>0, <2>1 DEF LoginStep, Login_Create, Login_Connect, Login_Welcome,
       Login_WelcomeTimeout, Login_Prompt, Login_Answer, App_Handlers, App_Init
  <2>2. CASE LoginChance
    BY <1>0, <2>2 DEF LoginChance, Login_Interrupted, Login_Nickname, Login_Fails
  <2> QED
    BY <1>1, <2>1, <2>2
<1>2. CASE MainStep
  <2>1. lpc' = lpc /\ buffer' = buffer /\ open' = open
    BY <1>2 DEF MainStep
  <2>2. mainPc' = "exit" => lpc = "exited"
    BY <1>0, <1>2 DEF MainStep, Main_Start, Main_Run, Main_Loop, Main_Enter,
       Main_ErrorTerminate, Main_ErrorUpdate, Main_ErrorResize,
       Main_ErrorOther, Main_Update, Main_Ended, Main_Send, Main_Quit, Main_Join
  <2>3. mainPc' \notin LoginPcs \cup {"init"}
    BY <1>2 DEF MainStep, Main_Start, Main_Run, Main_Loop, Main_Enter,
       Main_ErrorTerminate, Main_ErrorUpdate, Main_ErrorResize,
       Main_ErrorOther, Main_Update, Main_Ended, Main_Send, Main_Quit, Main_Join
  <2> QED
    BY <1>0, <2>1, <2>2, <2>3
<1>3. CASE Main_Killed \/ Main_Faults \/ Key \/ KeyResize
  BY <1>0, <1>3 DEF Main_Killed, Main_Faults, Key, KeyResize
<1>4. CASE ListenStep
  BY <1>0, <1>4 DEF ListenStep, Listen_Test, Listen_Receive, Listen_Closed,
     Listen_Push, Listen_Alert, Listen_Sleep, Listen_Close, Listen_Tell,
     Listen_Crash, Listen_Untold, Listen_Destroy,
     Listen_Free, Listen_Dies
<1>5. CASE Listen_Fails
  BY <1>0, <1>5 DEF Listen_Fails
<1>6. CASE SignalTerm \/ SignalWinch \/ SignalElsewhere
  BY <1>0, <1>6 DEF SignalTerm, SignalWinch, SignalElsewhere
<1>7. CASE ServerLogin \/ ServerSends \/ ServerCloses
  BY <1>0, <1>7 DEF ServerLogin, ServerFrame, Server_Refuse, Server_Welcome,
     Server_Prompt, Server_AuthFails, Server_Accept, Server_Hello, ServerSends,
     ServerCloses
<1> QED
  BY <1>1, <1>2, <1>3, <1>4, <1>5, <1>6, <1>7 DEF Next

-----------------------------------------------------------------------------
(* The theorems. *)

\* ClientInvariant holds in every state of the client, whatever the server
\* sends and however often, and whichever signals and keys come.
THEOREM ClientInvariantHolds == Spec => []ClientInvariant
<1>1. Init => ClientInvariant
  <2> SUFFICES ASSUME Init PROVE ClientInvariant
    OBVIOUS
  <2>1. \A S : <<>> \in Seq(S)
    BY EmptySeq
  <2>2. ThreadTypeOK
    BY DEF Init, ThreadTypeOK, LoginPcs, CleaningPcs
  <2>3. MessageTypeOK
    BY <2>1 DEF Init, MessageTypeOK
  <2>4. NetTypeOK
    <3>1. 0 \in 0 .. MaxBatches
      BY BoundAssumption
    <3> QED
      BY <2>1, <3>1 DEF Init, NetTypeOK
  <2>5. MessagesAreKept
    BY <2>1, ConcatEmptySeq DEF Init, MessagesAreKept
  <2> QED
    BY <2>2, <2>3, <2>4, <2>5
    DEF Init, ClientInvariant, TypeOK, BufferIsDrained, SocketIsClosed,
        ThreadComesLate, ProcessEndsLast
<1>2. ClientInvariant /\ [Next]_vars => ClientInvariant'
  <2> SUFFICES ASSUME ClientInvariant, [Next]_vars PROVE ClientInvariant'
    OBVIOUS
  <2>1. CASE Next
    <3>1. ThreadTypeOK' /\ NetTypeOK'
      BY <2>1, ThreadsKeepTypes, NetKeepsType DEF ClientInvariant, TypeOK
    <3> QED
      BY <2>1, <3>1, StepsKeepMessages, StepsKeepOrder
      DEF ClientInvariant, TypeOK
  <2>2. CASE UNCHANGED vars
    BY <2>2 DEF vars, flags, screenVars, netVars, serverVars, ClientInvariant,
       TypeOK, ThreadTypeOK, MessageTypeOK, NetTypeOK, MessagesAreKept,
       BufferIsDrained, SocketIsClosed, ThreadComesLate, ProcessEndsLast
  <2> QED
    BY <2>1, <2>2
<1> QED
  BY <1>1, <1>2, PTL DEF Spec

\* The variables of both threads and of the connection keep their types.
THEOREM ClientTypesHold == Spec => []TypeOK
BY ClientInvariantHolds, PTL DEF ClientInvariant

\* What the user has been shown, what is queued and what the listening thread
\* still holds is always exactly what came from the server, in its order.
THEOREM HandoverIsExact == Spec => []MessagesAreKept
BY ClientInvariantHolds, PTL DEF ClientInvariant

\* When the main thread ends the process and frees what the threads share
\* (App_cleanup), the listening thread has ended; whichever thread does it, the
\* socket is closed and nothing that was read is left behind.
THEOREM CleanupIsSafe == Spec => []CleanupIsAlone
<1>1. ClientInvariant => CleanupIsAlone
  BY DEF ClientInvariant, BufferIsDrained, SocketIsClosed, ProcessEndsLast,
     CleanupIsAlone, CleaningPcs
<1> QED
  BY <1>1, ClientInvariantHolds, PTL

-----------------------------------------------------------------------------
(* The login. *)

\* Reading from the front of the connection, or losing all of it, keeps what
\* the invariant says of the rest; and behind the prompt every /ok is the Hello.
LEMMA ReadingKeepsRest ==
  ASSUME NetTypeOK, NetTypeOK', spc' = spc,
         NEW d \in Nat, Len(net') = Len(net) - d,
         \A i \in 1 .. Len(net') : net'[i] = net[i + d]
  PROVE  /\ OkIsHello => OkIsHello'
         /\ HelloAt(0) => HelloAt(0)'
         /\ NoPrompt => NoPrompt'
         /\ EveryOkIsHello => EveryOkIsHello'
         /\ d = 1 /\ IsKind(net[1], "nick") /\ OkIsHello => EveryOkIsHello'
<1>1. /\ DOMAIN net = 1 .. Len(net) /\ Len(net) \in Nat
      /\ DOMAIN net' = 1 .. Len(net') /\ Len(net') \in Nat
  BY DEF NetTypeOK
<1>2. \A i \in DOMAIN net' : i + d \in DOMAIN net /\ net'[i] = net[i + d]
  BY <1>1
<1>3. ASSUME NEW j \in Nat, HelloAt(j + d) \/ HelloAt(j)
      PROVE  HelloAt(j)'
  BY <1>1, <1>2, <1>3 DEF HelloAt
<1>4. OkIsHello => OkIsHello'
  <2> SUFFICES ASSUME OkIsHello, NEW i \in DOMAIN net', NEW j \in DOMAIN net',
                      i < j, IsKind(net'[i], "nick"), IsKind(net'[j], "ok")
               PROVE  HelloAt(j)'
    BY DEF OkIsHello
  <2>1. HelloAt(j + d)
    BY <1>1, <1>2 DEF OkIsHello
  <2> QED
    BY <1>1, <1>3, <2>1
<1>5. EveryOkIsHello => EveryOkIsHello'
  <2> SUFFICES ASSUME EveryOkIsHello, NEW j \in DOMAIN net', IsKind(net'[j], "ok")
               PROVE  HelloAt(j)'
    BY DEF EveryOkIsHello
  <2>1. HelloAt(j + d)
    BY <1>1, <1>2 DEF EveryOkIsHello
  <2> QED
    BY <1>1, <1>3, <2>1
<1>6. d = 1 /\ IsKind(net[1], "nick") /\ OkIsHello => EveryOkIsHello'
  <2> SUFFICES ASSUME d = 1, IsKind(net[1], "nick"), OkIsHello,
                      NEW j \in DOMAIN net', IsKind(net'[j], "ok")
               PROVE  HelloAt(j)'
    BY DEF EveryOkIsHello
  <2>1. HelloAt(j + 1)
    BY <1>1, <1>2 DEF OkIsHello
  <2> QED
    BY <1>1, <1>3, <2>1
<1>7. HelloAt(0) => HelloAt(0)'
  BY <1>3
<1>8. NoPrompt => NoPrompt'
  BY <1>2 DEF NoPrompt
<1> QED
  BY <1>4, <1>5, <1>6, <1>7, <1>8

\* What is sent comes last: before the Hello there is no /ok behind the prompt,
\* the Hello is the first, and behind it there is only the chat.
LEMMA SendingKeepsRest ==
  ASSUME NetTypeOK, NetTypeOK', OkIsHello,
         NEW reads \in Seq(Seq(MessageKinds)), net' = net \o reads
  PROVE  /\ spc # "chat" /\ (\A i \in DOMAIN reads : ~IsKind(reads[i], "ok")) =>
              OkIsHello' /\ (EveryOkIsHello => EveryOkIsHello')
         /\ NoPrompt /\ Len(reads) = 1 => OkIsHello'
         /\ spc # "chat" /\ spc' = "chat" /\ Len(reads) = 1 =>
              OkIsHello' /\ (EveryOkIsHello => EveryOkIsHello')
         /\ spc' = spc /\ (\A i \in DOMAIN reads : reads[i] \in Batches) =>
              /\ spc = "chat" => OkIsHello'
              /\ spc = "chat" => (EveryOkIsHello => EveryOkIsHello')
              /\ HelloAt(0) => HelloAt(0)'
         /\ NoPrompt /\ (\A i \in DOMAIN reads : ~IsKind(reads[i], "nick")) => NoPrompt'
<1>1. /\ DOMAIN net = 1 .. Len(net) /\ Len(net) \in Nat
      /\ DOMAIN reads = 1 .. Len(reads) /\ Len(reads) \in Nat
      /\ DOMAIN net' = 1 .. (Len(net) + Len(reads))
  BY ConcatProperties DEF NetTypeOK
<1>2. \A i \in DOMAIN net' :
        net'[i] = IF i <= Len(net) THEN net[i] ELSE reads[i - Len(net)]
  BY <1>1, ConcatProperties DEF NetTypeOK
<1>3. \A i \in DOMAIN net' : i \in DOMAIN net \/ i - Len(net) \in DOMAIN reads
  BY <1>1
<1>4. ASSUME spc # "chat", \A i \in DOMAIN reads : ~IsKind(reads[i], "ok")
      PROVE  OkIsHello' /\ (EveryOkIsHello => EveryOkIsHello')
  BY <1>1, <1>2, <1>3, <1>4 DEF OkIsHello, EveryOkIsHello, HelloAt
<1>5. ASSUME NoPrompt, Len(reads) = 1
      PROVE  OkIsHello'
  BY <1>1, <1>2, <1>3, <1>5 DEF OkIsHello, NoPrompt
<1>6. ASSUME spc # "chat", spc' = "chat", Len(reads) = 1
      PROVE  OkIsHello' /\ (EveryOkIsHello => EveryOkIsHello')
  <2>1. \A j \in DOMAIN net' : j = Len(net) + 1 => HelloAt(j)'
    BY <1>1, <1>6 DEF HelloAt
  <2>2. \A j \in DOMAIN net' : j = Len(net) + 1 \/ j \in DOMAIN net
    BY <1>1, <1>6
  <2> QED
    BY <1>1, <1>2, <1>6, <2>1, <2>2 DEF OkIsHello, EveryOkIsHello, HelloAt
<1>7. ASSUME spc' = spc, \A i \in DOMAIN reads : reads[i] \in Batches
      PROVE  /\ spc = "chat" => OkIsHello'
             /\ spc = "chat" => (EveryOkIsHello => EveryOkIsHello')
             /\ HelloAt(0) => HelloAt(0)'
  <2>1. \A j \in Nat : HelloAt(j) => HelloAt(j)'
    BY <1>1, <1>2, <1>3, <1>7 DEF HelloAt
  <2>2. ASSUME spc = "chat", NEW j \in DOMAIN net', j \notin DOMAIN net
        PROVE  HelloAt(j)'
    BY <1>1, <1>2, <1>3, <1>7, <2>2 DEF HelloAt
  <2>3. ASSUME spc = "chat" PROVE OkIsHello'
    <3> SUFFICES ASSUME NEW i \in DOMAIN net', NEW j \in DOMAIN net', i < j,
                        IsKind(net'[i], "nick"), IsKind(net'[j], "ok"),
                        j \in DOMAIN net
                 PROVE  HelloAt(j)'
      BY <2>2, <2>3 DEF OkIsHello
    <3>1. i \in DOMAIN net /\ net'[i] = net[i] /\ net'[j] = net[j]
      BY <1>1, <1>2
    <3> QED
      BY <1>1, <2>1, <3>1 DEF OkIsHello
  <2>4. ASSUME spc = "chat", EveryOkIsHello PROVE EveryOkIsHello'
    <3> SUFFICES ASSUME NEW j \in DOMAIN net', IsKind(net'[j], "ok"), j \in DOMAIN net
                 PROVE  HelloAt(j)'
      BY <2>2, <2>4 DEF EveryOkIsHello
    <3>1. net'[j] = net[j]
      BY <1>1, <1>2
    <3> QED
      BY <1>1, <2>1, <2>4, <3>1 DEF EveryOkIsHello
  <2> QED
    BY <2>1, <2>3, <2>4
<1>8. ASSUME NoPrompt, \A i \in DOMAIN reads : ~IsKind(reads[i], "nick")
      PROVE  NoPrompt'
  BY <1>1, <1>2, <1>3, <1>8 DEF NoPrompt
<1> QED
  BY <1>4, <1>5, <1>6, <1>7, <1>8

\* Every step of the client and of the server keeps the login in order.
LEMMA StepsKeepLogin ==
  ASSUME LoginInvariant, Next
  PROVE  LoginInvariant'
<1>0. /\ NetTypeOK /\ NetTypeOK'
      /\ NothingIsEarly /\ PromptComesFirst /\ OkIsHello /\ AnswerIsHello
      /\ mainPc \in {"handlers", "init"} \/ lpc # "none" => HelloAt(0)
  BY NetKeepsType DEF LoginInvariant
<1> DEFINE Suffix(d) == /\ Len(net') = Len(net) - d
                        /\ \A i \in 1 .. Len(net') : net'[i] = net[i + d]
<1>1. Len(net) \in Nat
  BY <1>0 DEF NetTypeOK
<1>2. net' = net => Suffix(0)
  BY <1>1
<1>3. net # <<>> /\ net' = Tail(net) => Suffix(1)
  BY <1>0, <1>1, HeadTailProperties DEF NetTypeOK
<1>4. net' = <<>> => Suffix(Len(net))
  BY <1>1
\* A step that only takes messages, or none, and does not wait for an answer.
<1>5. ASSUME spc' = spc, net' = net \/ net' = <<>> \/ (net # <<>> /\ net' = Tail(net)),
             mainPc' \in {"create", "connect"} =>
               mainPc \in {"create", "connect"} /\ net' = net,
             mainPc' = "answer" => mainPc = "answer",
             mainPc' \in {"handlers", "init"} \/ lpc' # "none" => HelloAt(0)
      PROVE  LoginInvariant'
  <2>1. PICK d \in Nat : Suffix(d)
    BY <1>1, <1>2, <1>3, <1>4, <1>5
  <2>2. /\ OkIsHello'
        /\ HelloAt(0) => HelloAt(0)'
        /\ NoPrompt => NoPrompt'
        /\ EveryOkIsHello => EveryOkIsHello'
    BY <1>0, <1>5, <2>1, ReadingKeepsRest
  <2>3. NothingIsEarly'
    BY <1>0, <1>5 DEF NothingIsEarly
  <2>4. PromptComesFirst' /\ AnswerIsHello'
    BY <1>0, <1>5, <2>2 DEF PromptComesFirst, AnswerIsHello
  <2> QED
    BY <1>0, <1>5, <2>2, <2>3, <2>4 DEF LoginInvariant
<1> HIDE DEF Suffix
<1>6. CASE LoginStep \/ LoginChance
  <2> USE DEF MainGoto, GoOn, Proceed, Exit, Gets, serverVars
  <2>1. CASE LoginStep /\ Login_Connect
    <3>1. spc = "none" /\ net = <<>> /\ lpc = "none" /\ lpc' = lpc
      BY <1>0, <2>1 DEF Login_Connect, NothingIsEarly, HelloAt
    <3>2. net' = <<>> /\ mainPc' \in {"welcome", "exit"}
      BY <2>1, <3>1 DEF Login_Connect
    <3>3. DOMAIN net' = {}
      BY <3>2
    <3> QED
      BY <1>0, <3>1, <3>2, <3>3 DEF LoginInvariant, NothingIsEarly, NoPrompt,
         PromptComesFirst, OkIsHello, AnswerIsHello
  <2>2. CASE LoginStep /\ Login_Prompt /\ mainPc' = "answer"
    <3>1. /\ net # <<>> /\ net' = Tail(net) /\ spc' = spc /\ lpc' = lpc
          /\ IsKind(net[1], "nick")
      BY <2>2 DEF Login_Prompt
    <3>2. 1 \in DOMAIN net
      BY <1>0, <3>1 DEF NetTypeOK
    <3>3. spc \notin {"none", "accepted", "welcomed"}
      BY <1>0, <3>1, <3>2 DEF PromptComesFirst, NoPrompt
    <3>4. /\ OkIsHello'
          /\ HelloAt(0) => HelloAt(0)'
          /\ EveryOkIsHello'
      BY <1>0, <1>3, <3>1, ReadingKeepsRest DEF Suffix
    <3> QED
      BY <1>0, <2>2, <3>1, <3>3, <3>4 DEF LoginInvariant, NothingIsEarly,
         PromptComesFirst, AnswerIsHello
  <2>3. CASE LoginStep /\ Login_Answer /\ mainPc' = "handlers"
    <3>1. /\ net # <<>> /\ net' = Tail(net) /\ spc' = spc /\ lpc' = lpc
          /\ IsKind(net[1], "ok") /\ mainPc = "answer"
      BY <2>3 DEF Login_Answer
    <3>2. 1 \in DOMAIN net
      BY <1>0, <3>1 DEF NetTypeOK
    <3>3. HelloAt(1)
      BY <1>0, <3>1, <3>2 DEF AnswerIsHello, EveryOkIsHello
    <3>4. HelloAt(0)'
      <4>1. Len(net') = Len(net) - 1 /\ \A i \in 1 .. Len(net') : net'[i] = net[i + 1]
        BY <1>3, <3>1 DEF Suffix
      <4>2. DOMAIN net = 1 .. Len(net) /\ DOMAIN net' = 1 .. Len(net')
        BY <1>0 DEF NetTypeOK
      <4> QED
        BY <1>1, <3>1, <3>3, <4>1, <4>2 DEF HelloAt
    <3>5. OkIsHello' /\ (NoPrompt => NoPrompt')
      BY <1>0, <1>3, <3>1, ReadingKeepsRest DEF Suffix
    <3> QED
      BY <1>0, <2>3, <3>1, <3>4, <3>5 DEF LoginInvariant, NothingIsEarly,
         PromptComesFirst, AnswerIsHello
  <2>4. CASE LoginStep /\ ~Login_Connect
             /\ mainPc' # "answer" /\ ~(Login_Answer /\ mainPc' = "handlers")
    <3>1. /\ spc' = spc
          /\ net' = net \/ net' = <<>> \/ (net # <<>> /\ net' = Tail(net))
          /\ mainPc' \in {"create", "connect"} =>
               mainPc \in {"create", "connect"} /\ net' = net
          /\ mainPc' \in {"handlers", "init"} \/ lpc' # "none" =>
               mainPc \in {"handlers", "init"} \/ lpc # "none"
      BY <2>4 DEF LoginStep, Login_Create, Login_Welcome, Login_WelcomeTimeout,
         Login_Prompt, Login_Answer, App_Handlers, App_Init
    <3> QED
      BY <1>0, <1>5, <2>4, <3>1
  <2>5. CASE LoginChance
    <3>1. /\ spc' = spc /\ lpc' = lpc /\ (net' = net \/ net' = <<>>)
          /\ mainPc' \in {"nickname", "prompt", "exit"}
      BY <2>5 DEF LoginChance, Login_Interrupted, Login_Nickname, Login_Fails
    <3> QED
      BY <1>0, <1>5, <3>1
  <2>6. LoginStep /\ mainPc' = "answer" => Login_Prompt
    BY DEF LoginStep, Login_Create, Login_Connect, Login_Welcome,
       Login_WelcomeTimeout, Login_Prompt, Login_Answer, App_Handlers, App_Init
  <2> QED
    BY <1>6, <2>1, <2>2, <2>3, <2>4, <2>5, <2>6
<1>7. CASE MainStep \/ Main_Killed \/ Main_Faults \/ Key \/ KeyResize
  <2>1. net' = net /\ spc' = spc /\ lpc' = lpc
    BY <1>7 DEF MainStep, MainFrame, Main_Killed, Main_Faults, Key, KeyResize, netVars,
       serverVars
  <2>2. \/ mainPc' = mainPc
        \/ mainPc' \notin LoginPcs \cup {"init"}
    BY <1>7 DEF MainStep, MainGoto, Main_Start, Main_Run, Main_Loop, Main_Enter,
       Main_ErrorTerminate, Main_ErrorUpdate, Main_ErrorResize,
       Main_ErrorOther, Main_Update, Main_Ended, Main_Send, Main_Quit,
       Main_Join, Main_Killed, Main_Faults, Key, KeyResize, LoginPcs
  <2> QED
    BY <1>0, <1>5, <2>1, <2>2 DEF LoginPcs
<1>8. CASE ListenStep \/ Listen_Fails
  <2> USE DEF ListenFrame, serverVars, ListenGoto, Interrupt
  <2>1. /\ spc' = spc
        /\ mainPc' = mainPc \/ mainPc' = "error"
        /\ lpc # "none"
    BY <1>8 DEF ListenStep, Listen_Test, Listen_Receive, Listen_Closed,
       Listen_Push, Listen_Alert, Listen_Sleep, Listen_Close, Listen_Tell,
       Listen_Crash, Listen_Untold, Listen_Destroy, Listen_Free, Listen_Dies, Listen_Fails
  <2>2. net' = net \/ net' = <<>> \/ (net # <<>> /\ net' = Tail(net))
    BY <1>8 DEF ListenStep, Listen_Test, Listen_Receive, Listen_Closed,
       Listen_Push, Listen_Alert, Listen_Sleep, Listen_Close, Listen_Tell,
       Listen_Crash, Listen_Untold, Listen_Destroy, Listen_Free, Listen_Dies, Listen_Fails
  <2>3. mainPc \in {"create", "connect"} => FALSE
    BY <1>0, <2>1 DEF NothingIsEarly, HelloAt
  <2> QED
    BY <1>0, <1>5, <2>1, <2>2, <2>3
<1>9. CASE SignalTerm \/ SignalWinch \/ SignalElsewhere
  <2>1. /\ net' = net /\ spc' = spc
        /\ mainPc' = mainPc \/ mainPc' = "error"
        /\ lpc' # "none" => lpc # "none"
    BY <1>9 DEF SignalTerm, SignalWinch, SignalElsewhere, Interrupt, netVars,
       serverVars
  <2> QED
    BY <1>0, <1>5, <2>1
<1>10. CASE ServerCloses
  <2>1. net' = net /\ spc' = spc /\ mainPc' = mainPc /\ lpc' = lpc
    BY <1>10 DEF ServerCloses, serverVars
  <2> QED
    BY <1>0, <1>5, <2>1
\* The server sends.
<1>11. CASE ServerLogin
  <2> USE DEF ServerFrame
  <2>1. mainPc' = mainPc /\ lpc' = lpc
    BY <1>11 DEF ServerLogin
  <2>2. /\ spc \notin {"none", "chat"}
        /\ mainPc \notin {"create", "connect", "handlers", "init"} /\ lpc = "none"
    BY <1>0, <1>11 DEF ServerLogin, Server_Refuse, Server_Welcome, Server_Prompt,
       Server_AuthFails, Server_Accept, Server_Hello, NothingIsEarly, HelloAt
  <2>3. NothingIsEarly'
    BY <2>1, <2>2 DEF NothingIsEarly
  <2>4. \A kind \in MessageKinds :
          /\ << <<kind>> >> \in Seq(Seq(MessageKinds))
          /\ Len(<< <<kind>> >>) = 1 /\ DOMAIN << <<kind>> >> = {1}
          /\ \A other : IsKind(<< <<kind>> >>[1], other) => other = kind
    BY DEF IsKind
  <2>5. \A kind \in MessageKinds : Tell(kind) => net' = net \o << <<kind>> >>
    <3> SUFFICES ASSUME NEW kind \in MessageKinds PROVE Append(net, <<kind>>) = net \o << <<kind>> >>
      BY DEF Tell
    <3>1. <<kind>> \in Seq(MessageKinds)
      OBVIOUS
    <3> QED
      BY <1>0, <3>1, AppendIsConcat DEF NetTypeOK
  <2>6. CASE Server_Refuse
    <3>1. Tell("err") /\ spc' = spc
      BY <2>6 DEF Server_Refuse
    <3>2. OkIsHello' /\ (EveryOkIsHello => EveryOkIsHello') /\ (NoPrompt => NoPrompt')
      BY <1>0, <2>2, <2>4, <2>5, <3>1, SendingKeepsRest DEF MessageKinds
    <3> QED
      BY <1>0, <2>1, <2>2, <2>3, <3>1, <3>2
      DEF LoginInvariant, PromptComesFirst, AnswerIsHello
  <2>7. CASE Server_Welcome
    <3>1. Tell("ok") /\ spc = "accepted" /\ spc' = "welcomed"
      BY <2>7 DEF Server_Welcome
    <3>2. NoPrompt /\ mainPc # "answer"
      BY <1>0, <3>1 DEF PromptComesFirst
    <3>3. OkIsHello' /\ NoPrompt'
      BY <1>0, <2>4, <2>5, <3>1, <3>2, SendingKeepsRest DEF MessageKinds
    <3> QED
      BY <1>0, <2>1, <2>2, <2>3, <3>1, <3>2, <3>3
      DEF LoginInvariant, PromptComesFirst, AnswerIsHello
  <2>8. CASE Server_Prompt
    <3>1. Tell("nick") /\ spc = "welcomed" /\ spc' = "auth"
      BY <2>8 DEF Server_Prompt
    <3>2. NoPrompt /\ mainPc # "answer"
      BY <1>0, <3>1 DEF PromptComesFirst
    <3>3. OkIsHello'
      BY <1>0, <2>4, <2>5, <3>1, <3>2, SendingKeepsRest DEF MessageKinds
    <3> QED
      BY <1>0, <2>1, <2>2, <2>3, <3>1, <3>2, <3>3
      DEF LoginInvariant, PromptComesFirst, AnswerIsHello
  <2>9. CASE Server_AuthFails
    <3>1. PICK errs \in {<< <<"err">> >>, << <<"err">>, <<"err">> >>} :
            net' = net \o errs
      BY <2>9 DEF Server_AuthFails
    <3>2. errs \in Seq(Seq(MessageKinds))
      <4>1. <<"err">> \in Seq(MessageKinds)
        BY DEF MessageKinds
      <4>2. \A S : \A a \in S : <<a>> \in Seq(S) /\ <<a, a>> \in Seq(S)
        OBVIOUS
      <4> QED
        BY <4>1, <4>2, Zenon
    <3>3. \A i \in DOMAIN errs : ~IsKind(errs[i], "ok")
      BY DEF IsKind
    <3>4. spc = "auth" /\ spc' = spc
      BY <2>9 DEF Server_AuthFails
    <3>5. OkIsHello' /\ (EveryOkIsHello => EveryOkIsHello')
      BY <1>0, <3>1, <3>2, <3>3, <3>4, SendingKeepsRest
    <3> QED
      BY <1>0, <2>1, <2>2, <2>3, <3>4, <3>5
      DEF LoginInvariant, PromptComesFirst, AnswerIsHello
  <2>10. CASE Server_Accept
    <3>1. spc = "auth" /\ spc' = "hello" /\ net' = net
      BY <2>10 DEF Server_Accept
    <3> QED
      BY <1>0, <2>1, <2>2, <2>3, <3>1 DEF LoginInvariant, PromptComesFirst,
         AnswerIsHello, OkIsHello, EveryOkIsHello, HelloAt
  <2>11. CASE Server_Hello
    <3>1. Tell("ok") /\ spc = "hello" /\ spc' = "chat"
      BY <2>11 DEF Server_Hello
    <3>2. OkIsHello' /\ (EveryOkIsHello => EveryOkIsHello')
      BY <1>0, <2>4, <2>5, <3>1, SendingKeepsRest DEF MessageKinds
    <3> QED
      BY <1>0, <2>1, <2>2, <2>3, <3>1, <3>2
      DEF LoginInvariant, PromptComesFirst, AnswerIsHello
  <2> QED
    BY <1>11, <2>6, <2>7, <2>8, <2>9, <2>10, <2>11 DEF ServerLogin
<1>12. CASE ServerSends
  <2>1. PICK batch \in Batches :
          /\ spc = "hello" => \A i \in DOMAIN batch : batch[i] \in {"log", "quit"}
          /\ net' = Append(net, batch)
    BY <1>12 DEF ServerSends
  <2>2. /\ spc \in {"hello", "chat"} /\ spc' = spc
        /\ mainPc' = mainPc /\ lpc' = lpc
    BY <1>12 DEF ServerSends, serverVars
  <2>3. /\ batch \in Seq(MessageKinds)
        /\ <<batch>> \in Seq(Seq(MessageKinds))
        /\ DOMAIN <<batch>> = {1} /\ <<batch>>[1] = batch
    BY BatchesAssumption
  <2>4. net' = net \o <<batch>>
    BY <1>0, <2>1, <2>3, AppendIsConcat DEF NetTypeOK
  <2>5. spc = "hello" => ~IsKind(batch, "ok")
    BY <2>1, <2>3 DEF IsKind
  <2>6. OkIsHello' /\ (EveryOkIsHello => EveryOkIsHello')
    BY <1>0, <2>2, <2>3, <2>4, <2>5, SendingKeepsRest
  <2>7. HelloAt(0) => HelloAt(0)'
    BY <1>0, <2>1, <2>2, <2>3, <2>4, SendingKeepsRest
  <2> QED
    BY <1>0, <2>2, <2>6, <2>7
    DEF LoginInvariant, NothingIsEarly, PromptComesFirst, AnswerIsHello
<1> QED
  BY <1>6, <1>7, <1>8, <1>9, <1>10, <1>11, <1>12 DEF Next

\* LoginInvariant holds in every state of the client and the server's thread.
THEOREM LoginInvariantHolds == Spec => []LoginInvariant
<1>1. Init => LoginInvariant
  <2> SUFFICES ASSUME Init PROVE LoginInvariant
    OBVIOUS
  <2>1. net = <<>> /\ DOMAIN net = {} /\ net \in Seq(Seq(MessageKinds))
    BY EmptySeq DEF Init
  <2>2. 0 \in 0 .. MaxBatches
    BY BoundAssumption
  <2> QED
    BY <2>1, <2>2 DEF Init, LoginInvariant, NetTypeOK, NothingIsEarly,
       PromptComesFirst, NoPrompt, OkIsHello, AnswerIsHello
<1>2. LoginInvariant /\ [Next]_vars => LoginInvariant'
  <2> SUFFICES ASSUME LoginInvariant, [Next]_vars PROVE LoginInvariant'
    OBVIOUS
  <2>1. CASE UNCHANGED vars
    BY <2>1 DEF vars, netVars, serverVars, LoginInvariant, NetTypeOK,
       NothingIsEarly, PromptComesFirst, NoPrompt, OkIsHello, EveryOkIsHello,
       AnswerIsHello, HelloAt
  <2> QED
    BY <2>1, StepsKeepLogin
<1> QED
  BY <1>1, <1>2, PTL DEF Spec

\* A client that chats has been accepted and greeted by the server, and nothing
\* of the login is left in the connection, whatever is broadcast before the
\* greeting and whenever the user, a signal or a timeout interrupts the login.
THEOREM LoginIsSound == Spec => []LoginIsAgreed
<1>1. LoginInvariant => LoginIsAgreed
  <2> SUFFICES ASSUME LoginInvariant, lpc # "none"
               PROVE  spc = "chat" /\ \A i \in DOMAIN net : net[i] \in Batches
    BY DEF LoginIsAgreed
  <2>1. HelloAt(0) /\ net \in Seq(Seq(MessageKinds))
    BY DEF LoginInvariant, NetTypeOK
  <2>2. \A i \in DOMAIN net : i > 0
    BY <2>1
  <2> QED
    BY <2>1, <2>2 DEF HelloAt
<1> QED
  BY <1>1, LoginInvariantHolds, PTL
=============================================================================
