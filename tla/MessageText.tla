---------------------------- MODULE MessageText ----------------------------
(***************************************************************************)
(* What happens to the text of a message on its way from the keyboard of   *)
(* one client to the screen of the others: src/lib/message/message.c, with *)
(* the callers in the client and in the server that trim, format, parse    *)
(* and format again.                                                       *)
(*                                                                         *)
(* A string is a sequence of characters without its terminator.  The type  *)
(* of a message ("/msg" and so on) is one character here, so that lengths  *)
(* count it as one; Size stands for kBufferSize and MaxNick for            *)
(* kMaxNicknameSize.  Texts have no printf() conversions: the server       *)
(* passes them to C2HMessage_create as the format.                         *)
(***************************************************************************)
EXTENDS Naturals, Sequences, SequencesExt

CONSTANTS
  Char,     \* the characters
  Texts,    \* the lines a user may enter
  Nick,     \* the nickname of that user
  Size,     \* kBufferSize, the room for a string and its terminator
  MaxNick   \* kMaxNicknameSize

MessageTypes == {"/msg", "/nick", "/quit", "/log", "/err", "/ok"}
Null == "null"
Space == " "

Chars(s) == {s[i] : i \in DOMAIN s}

ASSUME CharAssumption == MessageTypes \cup {"[", "]", Space} \subseteq Char

ASSUME TextsAssumption == Texts \subseteq Seq(Char)

\* kRegexNicknamePattern keeps brackets and spaces out of nicknames, snprintf()
\* cuts them to kMaxNicknameSize with the terminator, and a buffer has room for a
\* type, the longest user and a character of text: kBufferSize is 1536.
ASSUME NickAssumption ==
  /\ Size \in Nat /\ MaxNick \in Nat /\ Size > MaxNick + 6
  /\ Nick \in Seq(Char) /\ Len(Nick) \in 1 .. MaxNick - 1
  /\ Chars(Nick) \cap {"[", "]", Space} = {}

VARIABLES
  stage,    \* who has the message
  typed,    \* the line the user enters
  wire,     \* the string sent last
  message   \* the C2HMessage made last

vars == <<stage, typed, wire, message>>

Message == [type : MessageTypes, user : Seq(Char), content : Seq(Char)]
NoMessage == [type |-> Null, user |-> <<>>, content |-> <<>>]

\* user[kMaxNicknameSize] is the last field of a C2HMessage.  A name of that many
\* characters leaves no room for the terminator, which Message_getUser() then
\* writes one byte behind the message; calloc() has rounded the block up, and
\* nothing else lies there.
Overrun(m) == Len(m.user) = MaxNick

\* Strings have room in their buffers, terminators included.  The exception is a
\* name in brackets that a user types, in the message the client makes of the line
\* and in the one the server takes it for; what the server broadcasts and what a
\* client shows has room for its user.
TypeOK ==
  /\ stage \in {"typing", "sent", "queued", "broadcast", "shown", "dropped", "left"}
  /\ typed \in Seq(Char)
  /\ wire \in Seq(Char) /\ Len(wire) < Size
  /\ message \in Message \cup {NoMessage}
  /\ Len(message.content) < Size
  /\ Len(message.user) < MaxNick \/ Overrun(message)
  /\ stage \in {"queued", "broadcast", "shown"} => ~Overrun(message)
-----------------------------------------------------------------------------
(* Strings. *)

\* rtrim() and wrtrim()
RTrim(s) ==
  LET text == {i \in DOMAIN s : s[i] # Space}
  IN  IF text = {} THEN <<>> ELSE SubSeq(s, 1, Max(text))

\* ltrim() and wltrim()
LTrim(s) ==
  LET start == SelectInSeq(s, LAMBDA c : c # Space)
  IN  IF start = 0 THEN <<>> ELSE SubSeq(s, start, Len(s))

Trim(s) == LTrim(RTrim(s))

\* Mutant: no room is kept for the terminator.
Truncate_OffByOne(s) == SubSeq(s, 1, Min({Len(s), Size}))

\* snprintf() into Size bytes
Truncate(s) == SubSeq(s, 1, Min({Len(s), Size - 1}))

\* Mutant: the space behind the user is taken for text.
BehindUser_KeepsSpace(s, user) ==
  IF user = <<>> THEN s ELSE SubSeq(s, Len(user) + 3, Len(s))

\* The part of s behind a user in brackets and a space; behind the end of a
\* string there are only terminators.
BehindUser(s, user) ==
  IF user = <<>> THEN s ELSE SubSeq(s, Len(user) + 4, Len(s))
-----------------------------------------------------------------------------
(* Messages. *)

\* Mutant: the last word in brackets.
Message_getUser_Last(s, type) ==
  LET open  == SelectLastInSeq(s, LAMBDA c : c = "[")
      close == SelectInSubSeq(s, open + 1, Len(s), LAMBDA c : c = "]")
  IN  IF /\ type \in {"/msg", "/log"}
         /\ open # 0 /\ close # 0
         /\ close - open - 1 \in 1 .. MaxNick
      THEN SubSeq(s, open + 1, close - 1)
      ELSE <<>>

\* The first word in brackets, wherever it is
Message_getUser(s, type) ==
  LET open  == SelectInSeq(s, LAMBDA c : c = "[")
      close == SelectInSubSeq(s, open + 1, Len(s), LAMBDA c : c = "]")
  IN  IF /\ type \in {"/msg", "/log"}
         /\ open # 0 /\ close # 0
         /\ close - open - 1 \in 1 .. MaxNick
      THEN SubSeq(s, open + 1, close - 1)
      ELSE <<>>

\* The type and what is behind it; a type that needs a content and has none
\* is removed all the same.
Message_getType(s) ==
  LET typeFirst == s # <<>> /\ Head(s) \in MessageTypes
      rest == IF typeFirst THEN Tail(s) ELSE s
  IN  [type |-> IF typeFirst /\ (Head(s) \in {"/ok", "/quit"} \/ rest # <<>>)
                THEN Head(s) ELSE Null,
       rest |-> rest]

C2HMessage_create(type, s) ==
  LET buffer == Truncate(s)
      user   == Message_getUser(buffer, type)
  IN  [type |-> type, user |-> user, content |-> BehindUser(buffer, user)]

C2HMessage_createFromString(s) ==
  LET parsed == Message_getType(s)
  IN  CASE parsed.type = Null -> C2HMessage_create("/msg", parsed.rest)
        [] parsed.type \in {"/msg", "/nick", "/quit"} ->
             C2HMessage_create(parsed.type, Trim(parsed.rest))
        [] OTHER -> NoMessage

\* "[user] " in front of the content, if there is a user
WithUser(user, content) ==
  IF user = <<>> THEN content ELSE <<"[">> \o user \o <<"]", Space>> \o content

C2HMessage_format(m) ==
  LET buffer == Truncate(WithUser(m.user, m.content))
  IN  IF buffer = <<>> THEN <<m.type>> ELSE Truncate(<<m.type, Space>> \o buffer)

\* The content is trimmed in place and there is one space in front of it, so
\* that a position past its end holds a terminator.
C2HMessage_get(s) ==
  LET parsed == Message_getType(s)
      cursor == Trim(parsed.rest)
      user   == Message_getUser(s, parsed.type)
  IN  IF parsed.type = Null THEN NoMessage
      ELSE [type |-> parsed.type, user |-> user,
            content |-> BehindUser(cursor, user)]
-----------------------------------------------------------------------------
(* The stations of a message. *)

Init ==
  /\ stage = "typing"
  /\ typed \in Texts
  /\ wire = <<>>
  /\ message = NoMessage

\* App_run: the line has been entered and is not blank
Client_Enter ==
  /\ stage = "typing"
  /\ Trim(typed) # <<>>
  /\ LET m == C2HMessage_createFromString(Trim(typed))
     IN  /\ message' = m
         /\ CASE m = NoMessage       -> stage' = "dropped" /\ UNCHANGED wire
              [] m.type = "/quit"    -> stage' = "left" /\ UNCHANGED wire
              [] OTHER -> stage' = "sent" /\ wire' = C2HMessage_format(m)
  /\ UNCHANGED typed

\* The message Server_handleClient makes for everybody
Server_broadcastMessage(content) ==
  C2HMessage_create("/msg", Truncate(WithUser(Nick, content)))

\* Server_handleClient takes the message out of its buffer
Server_Handle ==
  /\ stage = "sent"
  /\ LET m == C2HMessage_get(wire)
     IN  IF m.type = "/msg" /\ m.content # <<>>
         THEN stage' = "queued" /\ message' = Server_broadcastMessage(m.content)
         ELSE stage' = "dropped" /\ message' = m
  /\ UNCHANGED <<typed, wire>>

\* Server_handleBroadcast sends it to a client
Server_Send ==
  /\ stage = "queued"
  /\ wire' = C2HMessage_format(message)
  /\ stage' = "broadcast"
  /\ UNCHANGED <<typed, message>>

\* App_listen takes it out of the buffer and the main thread shows it
Client_Show ==
  /\ stage = "broadcast"
  /\ message' = C2HMessage_get(wire)
  /\ stage' = "shown"
  /\ UNCHANGED <<typed, wire>>

Next ==
  \/ Client_Enter
  \/ Server_Handle
  \/ Server_Send
  \/ Client_Show

Spec == Init /\ [][Next]_vars
-----------------------------------------------------------------------------
(* Properties. *)

\* What a user means to say: the line, without a "/msg" in front of it.
Said(text) ==
  LET s == Trim(text)
  IN  IF s # <<>> /\ Head(s) = "/msg" THEN Trim(Tail(s)) ELSE s

\* The line is something to say and not another command.
IsChat(text) ==
  LET s == Trim(text)
  IN  Said(text) # <<>> /\ Head(s) \notin MessageTypes \ {"/msg"}

\* It has room in a buffer, with its type and its author.
Fits(text) == 2 + Len(Nick) + 3 + Len(Said(text)) < Size

Brackets == {"[", "]"}

\* The line is something to say that Message_getUser() finds no user in.
IsPlain(text) == IsChat(text) /\ Chars(text) \cap Brackets = {}

\* What is left of a line: all of it if it fits, otherwise its beginning.
IsCutOf(content, text) ==
  /\ content # <<>>
  /\ IsPrefix(content, Said(text))
  /\ Fits(text) => content = Said(text)

\* What is shown as the author of a message is the nickname of the user who
\* typed it, whatever brackets there are in the text: the server's tag is the
\* first that Message_getUser() meets.
AuthorIsSender ==
  stage = "shown" => message.type = "/msg" /\ message.user = Nick

\* A line without brackets is not dropped on its way and is shown to the others
\* unchanged if it has room in the buffers, otherwise cut at the end: two
\* trims, three formats and two parsers neither lose, repeat nor move a
\* character.
PlainTextArrives ==
  IsPlain(typed) =>
    /\ stage \notin {"dropped", "left"}
    /\ stage = "shown" => IsCutOf(message.content, typed)
-----------------------------------------------------------------------------
(* The inductive invariant. *)

\* Between the server and a client a message is the server's: its type is
\* "/msg" and its user is Nick, and what is sent is what it formats to.
MessageIsSent ==
  /\ stage \in {"sent", "broadcast"} => wire = C2HMessage_format(message)
  /\ stage \in {"queued", "broadcast"} => message.type = "/msg" /\ message.user = Nick

\* At every station a plain line is there, whole or cut at its end.
TextIsKept ==
  IsPlain(typed) =>
    /\ stage \notin {"dropped", "left"}
    /\ stage = "sent" => message.type = "/msg" /\ message.user = <<>>
    /\ stage # "typing" => IsCutOf(message.content, typed)

TextInvariant == TypeOK /\ MessageIsSent /\ AuthorIsSender /\ TextIsKept
=============================================================================
