--------------------------- MODULE MessageBuffer ---------------------------
(***************************************************************************)
(* The MessageBuffer of src/lib/message/message.c between the two that use *)
(* it: Server_receive and Client_receive, which are the same code, fill it *)
(* with one SSL_read(), and C2HMessage_get takes messages out of it: one   *)
(* per receive while the connection logs in, all of them in App_listen,    *)
(* and in Server_handleClient all up to one that is broadcast or a /quit.  *)
(*                                                                         *)
(* Bytes are abstracted to what the code looks at: the slash that starts a *)
(* message, the byte behind it that makes its type a known one ("m" for a  *)
(* /msg with a text, "q" for /quit, "t" for all others), other bytes and   *)
(* the terminator.  Positions count from 1, and start = 0 is the null      *)
(* pointer.                                                                *)
(***************************************************************************)
EXTENDS Naturals, Sequences, SequencesExt

CONSTANTS
  Size,      \* kMessageBufferSize
  Records,   \* what the peer may send in one TLS record
  MaxReads   \* bound: the number of calls of SSL_read()

Byte == {"/", "t", "m", "q", "x", "0"}
Nul == "0"

ASSUME BufferAssumption ==
  /\ Size \in Nat \ {0}
  /\ Records \subseteq Seq(Byte) \ {<<>>}
  /\ MaxReads \in Nat

VARIABLES
  owner,         \* the program that has the buffer, "server" or "client"
  login,         \* the connection is logging in
  data, start,   \* the fields of MessageBuffer
  pc,            \* what the owner of the buffer is about to do
  incoming,      \* the part of a record that SSL_read() has not returned
  reads,         \* the number of calls of SSL_read(), for MaxReads
  logins,        \* history: the number of records read while logging in
  stream,        \* history: the records so far
  got            \* history: the messages taken out of each record

buffer == <<data, start>>
vars == <<owner, login, buffer, pc, incoming, reads, logins, stream, got>>

Zero == [i \in 1 .. Size |-> Nul]

TypeOK ==
  /\ owner \in {"server", "client"}
  /\ login \in BOOLEAN
  /\ data \in [1 .. Size -> Byte]
  /\ start \in 0 .. Size + 1
  /\ pc \in {"receive", "get", "closed", "undefined"}
  /\ incoming \in Seq(Byte)
  /\ reads \in 0 .. MaxReads
  /\ logins \in Nat
  /\ stream \in Seq(Records)
  /\ got \in Seq(Seq(Seq(Byte)))

Init ==
  /\ owner \in {"server", "client"}
  /\ login = TRUE
  /\ data = Zero
  /\ start = 0
  /\ pc = "receive"
  /\ incoming = <<>>
  /\ reads = 0
  /\ logins = 0
  /\ stream = <<>>
  /\ got = <<>>
-----------------------------------------------------------------------------
(* Receiving. *)

\* The last byte is not a terminator and something in front of it was read
Leftover == start # 1 /\ data[Size] # Nul

\* Mutant: what an earlier read left is still there.
Prepared_NotCleared ==
  [start |-> IF Leftover THEN Size - start + 3 ELSE 1, data |-> data]

\* The buffer when SSL_read() is called.  What is left over is moved to the
\* front and followed by terminators, and the next bytes go behind the first
\* of these; nothing reads the moved bytes again.  The terminators begin one
\* byte behind the data: that byte is the first of the field start, which has
\* been read by then and is set next.
Prepared ==
  IF Leftover
  THEN LET rest == Size - start + 1
           padding == rest + 1 .. Size + 1
       IN  [start |-> rest + 2,
            data  |-> [i \in 1 .. Size |->
                         IF i \in padding THEN Nul ELSE data[start + i - 1]]]
  ELSE [start |-> 1, data |-> Zero]

\* SSL_read() returns bytes of one record, at most as many as there is room
Receive(record) ==
  /\ pc = "receive"
  /\ reads < MaxReads
  /\ LET room == Size - Prepared.start + 1
         n == Min({room, Len(record)})
     IN  /\ room > 0
         /\ data' = [i \in 1 .. Size |->
                       IF i \in Prepared.start .. Prepared.start + n - 1
                       THEN record[i - Prepared.start + 1]
                       ELSE Prepared.data[i]]
         /\ incoming' = SubSeq(record, n + 1, Len(record))
  /\ start' = Prepared.start
  /\ reads' = reads + 1
  /\ pc' = "get"
  /\ UNCHANGED <<owner, login>>

ReceiveNext ==
  /\ incoming = <<>>
  /\ \E record \in Records : Receive(record) /\ stream' = Append(stream, record)
  /\ got' = Append(got, <<>>)
  /\ logins' = IF login THEN logins + 1 ELSE logins

ReceiveRest ==
  /\ incoming # <<>>
  /\ Receive(incoming)
  /\ UNCHANGED <<logins, stream, got>>

\* The peer has closed the connection, or there is no room: SSL_read() then
\* returns no bytes either, and the connection is taken for closed.
ReceiveNothing ==
  /\ pc = "receive"
  /\ start' = Prepared.start /\ data' = Prepared.data
  /\ pc' = "closed"
  /\ UNCHANGED <<owner, login, incoming, reads, logins, stream, got>>
-----------------------------------------------------------------------------
(* Taking messages out. *)

Begin == IF start = 0 THEN 1 ELSE start

\* memchr() for the slash that starts the next message, 0 if there is none
Slash == SelectInSubSeq(data, Begin, Size, LAMBDA b : b = "/")

\* The terminator of that message, 0 if the buffer ends before
Terminator == SelectInSubSeq(data, Slash, Size, LAMBDA b : b = Nul)

\* C2HMessage_get returns NULL: the login has failed, or the owner goes back to
\* receiving
NoMessage ==
  /\ pc' = IF login THEN "closed" ELSE "receive"
  /\ UNCHANGED <<owner, login, incoming, reads, logins, stream, got>>

\* Message_getType finds none of the types
Unknown(m) == Len(m) < 2 \/ m[2] \notin {"t", "m", "q"}

\* Mutant: the pointer is cleared and the data is not.
Get_NoSlash_NotCleared ==
  /\ pc = "get" /\ Slash = 0
  /\ start' = 0
  /\ UNCHANGED data
  /\ NoMessage

Get_NoSlash ==
  /\ pc = "get" /\ Slash = 0
  /\ start' = 0
  /\ data' = Zero
  /\ NoMessage

\* Mutant: a part of a message is tried again.
Get_Partial_Retries ==
  /\ pc = "get" /\ Slash # 0 /\ Terminator = 0
  /\ Slash = Begin
  /\ start' = Slash
  /\ UNCHANGED <<owner, login, data, pc, incoming, reads, logins, stream, got>>

\* The message is not complete
Get_Partial ==
  /\ pc = "get" /\ Slash # 0 /\ Terminator = 0
  /\ Slash = Begin
  /\ start' = Slash
  /\ UNCHANGED data
  /\ NoMessage

\* The end of the scan is computed from the size before start was moved to
\* the slash: it lies behind the buffer, and what is read there is undefined.
Get_PastEnd ==
  /\ pc = "get" /\ Slash # 0 /\ Terminator = 0
  /\ Slash # Begin
  /\ pc' = "undefined"
  /\ UNCHANGED <<owner, login, buffer, incoming, reads, logins, stream, got>>

\* Mutant: the end is counted from the front of the buffer.
AfterMessage_FromFront ==
  start' = Terminator + Begin /\ UNCHANGED data

\* Where the next message is looked for.  A message that is as long as what
\* there was to read clears the buffer.
AfterMessage ==
  IF Terminator - Slash + 1 < Size - Begin + 1
  THEN start' = Terminator + 1 /\ UNCHANGED data
  ELSE start' = 0 /\ data' = Zero

\* The owner may stop after a message although there are more in the buffer: the
\* login reads again (or ends), and Server_handleClient reads again after a
\* broadcast, which sets its loop variable to NULL, and leaves after a /quit.
MayStop(m) == login \/ (owner = "server" /\ m[2] \in {"m", "q"})

\* Then a broadcast is followed by a receive, a /quit by the end
AfterStop(m) ==
  {p \in {"receive", "closed"} : ~login => (p = "closed" <=> m[2] = "q")}

\* It may also go on, after a broadcast only if the /ok could not be sent.
MayGoOn(m) == ~login /\ (owner = "server" => m[2] # "q")

Get_Message ==
  /\ pc = "get" /\ Slash # 0 /\ Terminator # 0
  /\ AfterMessage
  /\ LET m == SubSeq(data, Slash, Terminator - 1)
     IN  IF Unknown(m) THEN NoMessage
         ELSE /\ got' = [got EXCEPT ![Len(got)] = Append(@, m)]
              /\ \/ MayStop(m) /\ pc' \in AfterStop(m) /\ login' \in {login, FALSE}
                 \/ MayGoOn(m) /\ pc' = "get" /\ login' = login
              /\ UNCHANGED <<owner, incoming, reads, logins, stream>>

Get == Get_NoSlash \/ Get_Partial \/ Get_PastEnd \/ Get_Message

Next == ReceiveNext \/ ReceiveRest \/ ReceiveNothing \/ Get

Spec == Init /\ [][Next]_vars

\* The loop around C2HMessage_get runs by itself; receiving waits for the peer
FairSpec == Spec /\ WF_vars(Get)
-----------------------------------------------------------------------------
(* Properties. *)

\* A record that is made of messages, each from its slash to its terminator.
IsFramed(s) ==
  /\ s[1] = "/" /\ s[Len(s)] = Nul
  /\ \A i \in 1 .. Len(s) - 1 : s[i] = Nul => s[i + 1] = "/"

\* One more of the messages of s, unless its type is unknown.
TakeOne(s, taken) ==
  LET end == SelectInSubSeq(s, taken.pos + 1, Len(s), LAMBDA b : b = Nul)
      m == SubSeq(s, taken.pos + 1, end - 1)
  IN  IF end = 0 \/ Unknown(m) THEN taken
      ELSE [pos |-> end, msgs |-> Append(taken.msgs, m)]

Nothing == [pos |-> 0, msgs |-> <<>>]

\* The first n messages of s, and where they end
Taken(s) ==
  LET taken[n \in 0 .. Len(s)] ==
        IF n = 0 THEN Nothing ELSE TakeOne(s, taken[n - 1])
  IN  taken

\* The messages of s, up to the first of an unknown type
MessagesOf(s) == Taken(s)[Len(s)].msgs

RecordsFit == \A i \in DOMAIN stream : Len(stream[i]) <= Size /\ IsFramed(stream[i])

\* The owner of the buffer had a reason to stop at the last message it took out
\* of the i-th record.
StopsEarly(i) ==
  /\ got[i] # <<>>
  /\ \/ i <= logins
     \/ owner = "server" /\ Last(got[i])[2] \in {"m", "q"}

\* As long as every record is made of messages and has room in the buffer, what
\* is taken out of the buffer is what each record holds, in order, once, and up
\* to a message of unknown type: nothing that an earlier read, or a loop that
\* stopped early, has left in the buffer comes back.  Messages are lost only
\* where the owner stops: behind the first one during the login, and behind a
\* broadcast or a /quit in the server; the client's App_listen takes them all.
FramingIsExact ==
  RecordsFit =>
    /\ pc # "undefined"
    /\ DOMAIN got = DOMAIN stream
    /\ \A i \in DOMAIN stream :
         /\ IsPrefix(got[i], MessagesOf(stream[i]))
         /\ i < Len(stream) \/ pc # "get" => got[i] = MessagesOf(stream[i]) \/ StopsEarly(i)

\* A null start goes with an empty buffer, whatever the peer sends: otherwise
\* the next receive would take it for data left over and copy from address 0.
NullIsEmpty == start = 0 => data = Zero

\* The loop that takes messages out comes to an end: every call either finds
\* a message behind the one before or returns NULL.
DrainEnds == pc = "get" ~> pc # "get"
-----------------------------------------------------------------------------
(* The inductive invariant. *)

\* The buffer right after s has been read
Holds(s) == [i \in 1 .. Size |-> IF i <= Len(s) THEN s[i] ELSE Nul]

\* The loop has taken n messages out of s: it goes on behind them, or has cleared the
\* buffer with the last.
IsAt(s, n) ==
  LET taken == Taken(s)[n]
  IN  /\ n <= taken.pos
      /\ got[Len(got)] = taken.msgs
      /\ \/ start = taken.pos + 1 /\ data = Holds(s)
         \/ start = 0 /\ data = Zero /\ taken.pos = Len(s)

\* Each record has its batch of messages, and its phase.
BatchPerRecord ==
  /\ Len(got) = Len(stream)
  /\ pc = "get" => stream # <<>>
  /\ login => logins = Len(stream)

\* The messages of the i-th record have been taken out, as far as the owner goes.
BatchIsTaken(i) ==
  \/ got[i] = MessagesOf(stream[i])
  \/ IsPrefix(got[i], MessagesOf(stream[i])) /\ StopsEarly(i)

\* What is left of a record in the buffer is not taken for a part of a message.
RecordsAreTaken ==
  /\ pc # "undefined" /\ incoming = <<>> /\ data[Size] = Nul
  /\ \A i \in DOMAIN stream : i < Len(stream) \/ pc # "get" => BatchIsTaken(i)
  /\ pc = "get" => \E n \in 0 .. Len(Last(stream)) : IsAt(Last(stream), n)

BufferIsFramed == BatchPerRecord /\ (RecordsFit => RecordsAreTaken)
=============================================================================
