------------------------- MODULE MessageBufferProofs -------------------------
(***************************************************************************)
(* For every size of the buffer and everything the peer may send: the      *)
(* fields of a MessageBuffer keep their types, a null start goes with an   *)
(* empty buffer, and of records that fit the messages are taken, all of    *)
(* them wherever the owner does not stop early.                            *)
(***************************************************************************)
EXTENDS MessageBuffer, SequenceTheorems, WellFoundedInduction, TLAPS

\* SelectInSubSeq(), which stands for memchr() and for the scan for the
\* terminator, returns a position of the range it looks at, or 0.
LEMMA SmallestIsMember ==
  ASSUME NEW S, S \subseteq Nat, S # {}
  PROVE  Min(S) \in S
<1>1. PICK x \in S : \A y \in S : ~(<<y, x>> \in OpToRel(<, Nat))
  BY NatLessThanWellFounded, WFMin
<1>2. \A y \in S : <<y, x>> \in Nat \X Nat
  OBVIOUS
<1>3. \A y \in S : ~(<<y, x>>[1] < <<y, x>>[2])
  BY <1>1, <1>2, Zenon DEF OpToRel
<1>4. \A y \in S : x <= y
  BY <1>3
<1> QED
  BY <1>4, Zenon DEF Min

\* memchr() of Message_get finds a slash inside the buffer, at or behind the
\* start, or nothing.
LEMMA SlashType ==
  ASSUME TypeOK
  PROVE  Slash = 0 \/ (Slash \in Begin .. Size /\ Slash \in 1 .. Size)
<1> DEFINE I == {i \in Begin .. Size : data[i] = "/"}
<1>1. Begin \in 1 .. Size + 1 /\ Size \in Nat
  BY BufferAssumption DEF TypeOK, Begin
<1>2. I \subseteq Nat /\ I \subseteq Begin .. Size
  BY <1>1
<1>3. Slash = IF I # {} THEN Min(I) ELSE 0
  BY Zenon DEF Slash, SelectInSubSeq
<1>4. I # {} => Min(I) \in I
  BY <1>2, SmallestIsMember, Zenon
<1> QED
  BY <1>1, <1>2, <1>3, <1>4

\* The terminator that Message_get finds is inside the buffer and behind the
\* slash, so that start moves forward.
LEMMA TerminatorType ==
  ASSUME TypeOK, Slash # 0
  PROVE  Terminator = 0 \/ (Terminator \in Slash .. Size /\ Terminator \in 1 .. Size)
<1> DEFINE I == {i \in Slash .. Size : data[i] = Nul}
<1>1. Slash \in 1 .. Size /\ Size \in Nat
  BY SlashType, BufferAssumption
<1>2. I \subseteq Nat /\ I \subseteq Slash .. Size
  BY <1>1
<1>3. Terminator = IF I # {} THEN Min(I) ELSE 0
  BY Zenon DEF Terminator, SelectInSubSeq
<1>4. I # {} => Min(I) \in I
  BY <1>2, SmallestIsMember, Zenon
<1> QED
  BY <1>1, <1>2, <1>3, <1>4

\* Both kinds of receiving call SSL_read() with a start inside the buffer, or
\* just behind it when there is no room: only here the null pointer matters.
LEMMA PreparedType ==
  ASSUME TypeOK, NullIsEmpty
  PROVE  /\ Prepared.start \in 1 .. Size + 1
         /\ Prepared.data \in [1 .. Size -> Byte]
<1>0. Size \in Nat /\ Size > 0
  BY BufferAssumption
<1>1. CASE Leftover
  <2>1. start \in 2 .. Size + 1
    BY <1>0, <1>1 DEF TypeOK, NullIsEmpty, Leftover, Zero
  <2>2. \A i \in 1 .. Size :
          i <= Size - start + 1 => start + i - 1 \in 1 .. Size
    BY <1>0, <2>1
  <2> QED
    BY <1>0, <1>1, <2>1, <2>2 DEF Prepared, TypeOK, Byte, Nul
<1>2. CASE ~Leftover
  BY <1>0, <1>2 DEF Prepared, Zero, Byte, Nul
<1> QED
  BY <1>1, <1>2

\* A receive (Server_receive, Client_receive) leaves bytes in the buffer and a start
\* inside it or right behind it.
LEMMA ReceiveType ==
  ASSUME TypeOK, NullIsEmpty, NEW record \in Seq(Byte), Receive(record)
  PROVE  /\ data' \in [1 .. Size -> Byte]
         /\ start' \in 1 .. Size + 1
         /\ incoming' \in Seq(Byte)
         /\ reads' \in 0 .. MaxReads
<1> DEFINE room == Size - Prepared.start + 1
           n == Min({room, Len(record)})
<1>0. Size \in Nat /\ Size > 0
  BY BufferAssumption
<1>1. /\ Prepared.start \in 1 .. Size + 1
      /\ Prepared.data \in [1 .. Size -> Byte]
  BY PreparedType
<1>2. room \in Nat /\ Len(record) \in Nat
  BY <1>0, <1>1
<1>3. n \in {room, Len(record)}
  <2> HIDE DEF room
  <2> QED
    BY <1>2, SmallestIsMember, {room, Len(record)} \subseteq Nat
<1>4. n \in Nat /\ n <= Len(record)
  <2>1. n <= Len(record)
    <3> HIDE DEF room
    <3>1. \E x \in {room, Len(record)} : \A y \in {room, Len(record)} : x <= y
      BY <1>2
    <3> QED
      BY <3>1, Zenon DEF Min
  <2> QED
    BY <1>2, <1>3, <2>1
<1>5. data' \in [1 .. Size -> Byte]
  <2>1. data' = [i \in 1 .. Size |->
                   IF i \in Prepared.start .. Prepared.start + n - 1
                   THEN record[i - Prepared.start + 1]
                   ELSE Prepared.data[i]]
    BY Zenon DEF Receive
  <2>2. \A i \in 1 .. Size :
          i \in Prepared.start .. Prepared.start + n - 1
            => record[i - Prepared.start + 1] \in Byte
    <3> HIDE DEF n
    <3> QED
      BY <1>1, <1>4
  <2> HIDE DEF n
  <2> QED
    BY <1>1, <2>1, <2>2
<1>6. incoming' \in Seq(Byte)
  <2>1. incoming' = SubSeq(record, n + 1, Len(record))
    BY Zenon DEF Receive
  <2> HIDE DEF n
  <2> QED
    BY <1>4, <2>1
<1>7. start' \in 1 .. Size + 1
  BY <1>1 DEF Receive
<1>8. reads' \in 0 .. MaxReads
  BY BufferAssumption DEF Receive, TypeOK
<1> QED
  BY <1>5, <1>6, <1>7, <1>8

\* A message that is added to the last batch, if there is one.
LEMMA BatchesType ==
  ASSUME NEW S, NEW g \in Seq(Seq(S)), NEW m \in S
  PROVE  [g EXCEPT ![Len(g)] = Append(@, m)] \in Seq(Seq(S))
<1>1. CASE Len(g) \in 1 .. Len(g)
  <2>1. g[Len(g)] \in Seq(S)
    BY <1>1, ElementOfSeq
  <2>2. Append(g[Len(g)], m) \in Seq(S)
    BY <2>1, AppendProperties
  <2> QED
    BY <1>1, <2>2, ExceptSeq
<1>2. CASE Len(g) \notin 1 .. Len(g)
  <2>1. Len(g) \notin DOMAIN g
    BY <1>2
  <2>2. [g EXCEPT ![Len(g)] = Append(@, m)] = g
    BY <2>1
  <2> QED
    BY <2>2
<1> QED
  BY <1>1, <1>2

\* The two invariants need each other: with a null start and data behind it a
\* receive would place its bytes outside the buffer.
THEOREM BufferInvariantHolds == Spec => [](TypeOK /\ NullIsEmpty)
<1> DEFINE Inv == TypeOK /\ NullIsEmpty
<1>1. Init => Inv
  BY BufferAssumption DEF Init, TypeOK, NullIsEmpty, Zero, Byte, Nul
<1>2. Inv /\ [Next]_vars => Inv'
  <2> SUFFICES ASSUME Inv, [Next]_vars PROVE Inv'
    OBVIOUS
  <2>0. Size \in Nat /\ Size > 0 /\ Zero \in [1 .. Size -> Byte]
    BY BufferAssumption DEF Zero, Byte, Nul
  <2>1. CASE ReceiveNext
    <3>1. PICK record \in Records :
            Receive(record) /\ stream' = Append(stream, record)
      BY <2>1 DEF ReceiveNext
    <3>2. record \in Seq(Byte)
      BY BufferAssumption
    <3>3. /\ data' \in [1 .. Size -> Byte]
          /\ start' \in 1 .. Size + 1
          /\ incoming' \in Seq(Byte)
          /\ reads' \in 0 .. MaxReads
      BY <3>1, <3>2, ReceiveType
    <3>4. /\ pc' = "get" /\ stream' \in Seq(Records) /\ owner' = owner /\ login' = login
          /\ logins' \in Nat
      BY <2>1, <3>1 DEF ReceiveNext, Receive, TypeOK
    <3>5. got' \in Seq(Seq(Seq(Byte)))
      <4>1. got \in Seq(Seq(Seq(Byte))) /\ <<>> \in Seq(Seq(Byte))
        BY DEF TypeOK
      <4> QED
        BY <2>1, <4>1, AppendProperties, Zenon DEF ReceiveNext
    <3> QED
      BY <2>0, <3>3, <3>4, <3>5 DEF TypeOK, NullIsEmpty
  <2>2. CASE ReceiveRest
    <3>1. Receive(incoming) /\ incoming \in Seq(Byte)
      BY <2>2 DEF ReceiveRest, TypeOK
    <3>2. /\ data' \in [1 .. Size -> Byte]
          /\ start' \in 1 .. Size + 1
          /\ incoming' \in Seq(Byte)
          /\ reads' \in 0 .. MaxReads
      BY <3>1, ReceiveType
    <3>3. /\ pc' = "get" /\ got' = got /\ stream' = stream
          /\ owner' = owner /\ login' = login /\ logins' = logins
      BY <2>2 DEF ReceiveRest, Receive
    <3> QED
      BY <2>0, <3>2, <3>3 DEF TypeOK, NullIsEmpty
  <2>3. CASE ReceiveNothing
    <3>1. start' \in 1 .. Size + 1 /\ data' \in [1 .. Size -> Byte]
      BY <2>3, PreparedType DEF ReceiveNothing
    <3> QED
      BY <2>0, <2>3, <3>1 DEF ReceiveNothing, TypeOK, NullIsEmpty
  <2>4. CASE Get_NoSlash
    BY <2>0, <2>4 DEF Get_NoSlash, NoMessage, TypeOK, NullIsEmpty
  <2>5. CASE Get_Partial
    <3>1. start' \in 1 .. Size
      BY <2>5, SlashType DEF Get_Partial
    <3> QED
      BY <2>0, <2>5, <3>1 DEF Get_Partial, NoMessage, TypeOK, NullIsEmpty
  <2>6. CASE Get_PastEnd
    BY <2>6 DEF Get_PastEnd, buffer, TypeOK, NullIsEmpty, Zero
  <2>7. CASE Get_Message
    <3> DEFINE m == SubSeq(data, Slash, Terminator - 1)
    <3>1. Slash \in 1 .. Size /\ Terminator \in 1 .. Size
      BY <2>7, SlashType, TerminatorType DEF Get_Message
    <3>2. /\ start' \in 0 .. Size + 1
          /\ data' \in [1 .. Size -> Byte]
          /\ start' = 0 => data' = Zero
      <4>1. AfterMessage
        BY <2>7 DEF Get_Message
      <4>2. CASE start' = Terminator + 1 /\ UNCHANGED data
        BY <2>0, <3>1, <4>2 DEF TypeOK
      <4>3. CASE start' = 0 /\ data' = Zero
        BY <2>0, <4>3
      <4> QED
        BY <4>1, <4>2, <4>3 DEF AfterMessage
    <3>3. m \in Seq(Byte)
      <4>1. data \in Seq(Byte) /\ Len(data) = Size
        BY <2>0 DEF TypeOK
      <4> QED
        BY <2>0, <3>1, <4>1
    <3>4. /\ got' \in Seq(Seq(Seq(Byte)))
          /\ pc' \in {"receive", "get", "closed"} /\ login' \in BOOLEAN /\ owner' = owner
          /\ incoming' = incoming /\ reads' = reads /\ stream' = stream /\ logins' = logins
      <4>1. CASE Unknown(m)
        BY <2>7, <4>1 DEF Get_Message, NoMessage, TypeOK
      <4>2. CASE ~Unknown(m)
        <5>1. /\ got' = [got EXCEPT ![Len(got)] = Append(@, m)]
              /\ pc' \in {"receive", "get", "closed"} /\ login' \in {login, FALSE}
              /\ UNCHANGED <<owner, incoming, reads, logins, stream>>
          BY <2>7, <4>2 DEF Get_Message, AfterStop
        <5>2. pc = "get" /\ got \in Seq(Seq(Seq(Byte)))
          BY <2>7 DEF Get_Message, TypeOK
        <5> HIDE DEF m
        <5>3. got' \in Seq(Seq(Seq(Byte)))
          BY <3>3, <5>1, <5>2, BatchesType, Zenon
        <5> QED
          BY <5>1, <5>2, <5>3 DEF TypeOK
      <4> QED
        BY <4>1, <4>2
    <3> QED
      BY <3>2, <3>4 DEF TypeOK, NullIsEmpty, Zero
  <2>8. CASE UNCHANGED vars
    BY <2>8 DEF vars, buffer, TypeOK, NullIsEmpty, Zero
  <2> QED
    BY <2>1, <2>2, <2>3, <2>4, <2>5, <2>6, <2>7, <2>8 DEF Next, Get
<1> QED
  BY <1>1, <1>2, PTL DEF Spec

\* TypeOK by itself: start never points behind the byte after the buffer,
\* whatever the peer sends and however it is cut.
THEOREM BufferTypeCorrect == Spec => []TypeOK
BY BufferInvariantHolds, PTL

\* A null start goes with an empty buffer.
THEOREM NullStartIsEmpty == Spec => []NullIsEmpty
BY BufferInvariantHolds, PTL
-----------------------------------------------------------------------------
(* Loops. *)

\* A set that has 0 and, with a number, the next one, has them all.
LEMMA SetInduction ==
  ASSUME NEW S, 0 \in S, \A n \in Nat : n \in S => n + 1 \in S
  PROVE  Nat \subseteq S
<1> DEFINE T == Nat \ S
           R == {ss \in Nat \X Nat : ss[1] < ss[2]}
<1>1. \A x, y \in Nat : x < y => <<x, y>> \in R
  OBVIOUS
<1>2. IsWellFoundedOn(R, Nat)
  BY NatLessThanWellFounded, Zenon DEF OpToRel
<1> HIDE DEF R
<1>3. SUFFICES ASSUME T # {} PROVE FALSE
  OBVIOUS
<1>4. PICK x \in T : \A y \in T : ~(<<y, x>> \in R)
  BY <1>2, <1>3, WFMin
<1>5. x - 1 \in Nat /\ x - 1 < x /\ (x - 1) + 1 = x
  BY <1>4
<1>6. x - 1 \in T
  BY <1>4, <1>5
<1> QED
  BY <1>1, <1>4, <1>5, <1>6

\* The values of a variable before a loop and after each of its N rounds, where
\* F[k] is what round k does.
IsLoop(f, T, N, F, first) ==
  /\ f \in [0 .. N -> T] /\ f[0] = first
  /\ \A k \in 1 .. N : f[k] = F[k][f[k - 1]]

\* A loop that never leaves T goes on to its end.
LEMMA LoopExists ==
  ASSUME NEW T, NEW N \in Nat, NEW F \in [1 .. N -> [T -> T]], NEW first \in T
  PROVE  \E f : IsLoop(f, T, N, F, first)
<1> USE DEF IsLoop
<1> DEFINE S == {n \in Nat : n <= N => \E f : IsLoop(f, T, n, F, first)}
<1>1. 0 \in S
  <2>1. IsLoop([k \in 0 .. 0 |-> first], T, 0, F, first)
    OBVIOUS
  <2> QED
    BY <2>1
<1>2. ASSUME NEW n \in Nat, n \in S PROVE n + 1 \in S
  <2>1. SUFFICES ASSUME n + 1 <= N PROVE \E f : IsLoop(f, T, n + 1, F, first)
    OBVIOUS
  <2>2. PICK f : IsLoop(f, T, n, F, first)
    BY <1>2, <2>1
  <2> DEFINE g == [k \in 0 .. (n + 1) |-> IF k <= n THEN f[k] ELSE F[n + 1][f[n]]]
  <2>3. F[n + 1][f[n]] \in T
    <3>1. f[n] \in T /\ n + 1 \in 1 .. N
      BY <2>1, <2>2
    <3> QED
      BY <3>1
  <2>4. g \in [0 .. (n + 1) -> T] /\ g[0] = first
    BY <2>2, <2>3
  <2>5. ASSUME NEW k \in 1 .. (n + 1) PROVE g[k] = F[k][g[k - 1]]
    <3>1. CASE k <= n
      <4>1. g[k] = f[k] /\ g[k - 1] = f[k - 1] /\ k \in 1 .. n
        BY <3>1
      <4> QED
        BY <2>2, <4>1
    <3>2. CASE k = n + 1
      BY <3>2
    <3> QED
      BY <3>1, <3>2
  <2> HIDE DEF g
  <2> QED
    BY <2>4, <2>5
<1> HIDE DEF S
<1>3. Nat \subseteq S
  BY <1>1, <1>2, SetInduction
<1>4. \E f : IsLoop(f, T, N, F, first)
  BY <1>3 DEF S
<1> QED
  BY <1>4

\* What holds before a loop and after each round holds at its end.
LEMMA LoopInvariant ==
  ASSUME NEW T, NEW N \in Nat, NEW f, f[0] \in T,
         \A k \in 1 .. N : f[k - 1] \in T => f[k] \in T
  PROVE  f[N] \in T
<1> DEFINE S == {n \in Nat : n <= N => f[n] \in T}
<1>1. 0 \in S
  OBVIOUS
<1>2. ASSUME NEW n \in Nat, n \in S PROVE n + 1 \in S
  <2>1. SUFFICES ASSUME n + 1 <= N PROVE f[n + 1] \in T
    OBVIOUS
  <2>2. n + 1 \in 1 .. N /\ (n + 1) - 1 = n /\ f[n] \in T
    BY <1>2, <2>1
  <2> QED
    BY <2>2
<1> HIDE DEF S
<1>3. Nat \subseteq S
  BY <1>1, <1>2, SetInduction
<1> QED
  BY <1>3 DEF S

-----------------------------------------------------------------------------
(* The messages of a record. *)

\* Min() of a set of natural numbers is the member that no other is below.
LEMMA SmallestIs ==
  ASSUME NEW S, S \subseteq Nat, NEW a \in S, \A y \in S : a <= y
  PROVE  Min(S) = a
<1>1. \E x \in S : \A y \in S : x <= y
  OBVIOUS
<1>2. PICK m \in S : m = Min(S) /\ \A y \in S : m <= y
  BY <1>1, Zenon DEF Min
<1> QED
  BY <1>2

\* The first terminator of s from a position on, or 0.
NulFrom(s, from) ==
  LET I == {i \in from .. Len(s) : s[i] = Nul}
  IN  IF I # {} THEN Min(I) ELSE 0

\* It is one of the positions looked at, or 0.
LEMMA NulFromType ==
  ASSUME NEW s \in Seq(Byte), NEW from \in Nat
  PROVE  NulFrom(s, from) = 0 \/ (NulFrom(s, from) \in from .. Len(s) /\ s[NulFrom(s, from)] = Nul)
<1> DEFINE I == {i \in from .. Len(s) : s[i] = Nul}
<1>1. NulFrom(s, from) = IF I # {} THEN Min(I) ELSE 0
  BY Zenon DEF NulFrom
<1>2. I \subseteq Nat
  OBVIOUS
<1>3. I # {} => Min(I) \in I
  <2> HIDE DEF I
  <2> QED  BY <1>2, SmallestIsMember, Zenon
<1> QED
  BY <1>1, <1>3, Zenon

\* If there is one, it is found, and it is the first.
LEMMA NulFromFirst ==
  ASSUME NEW s \in Seq(Byte), NEW from \in Nat \ {0}, NEW z \in from .. Len(s), s[z] = Nul
  PROVE  LET e == NulFrom(s, from)
         IN  /\ e \in from .. Len(s) /\ s[e] = Nul
             /\ \A i \in from .. Len(s) : i < e => s[i] # Nul
<1> DEFINE I == {i \in from .. Len(s) : s[i] = Nul}
<1>1. I \subseteq Nat /\ z \in I
  OBVIOUS
<1>2. \E x \in I : \A y \in I : x <= y
  <2> HIDE DEF I
  <2>1. PICK x \in I : \A y \in I : ~(<<y, x>> \in OpToRel(<, Nat))
    BY <1>1, NatLessThanWellFounded, WFMin
  <2>2. \A y \in I : <<y, x>> \in Nat \X Nat
    BY <1>1
  <2>3. \A y \in I : ~(<<y, x>>[1] < <<y, x>>[2])
    BY <2>1, <2>2, Zenon DEF OpToRel
  <2>4. \A y \in I : x <= y
    BY <1>1, <2>3
  <2> QED  BY <2>4, Zenon
<1>3. PICK e \in I : e = Min(I) /\ \A y \in I : e <= y
  <2> HIDE DEF I
  <2> QED  BY <1>2, Zenon DEF Min
<1>4. e = NulFrom(s, from)
  BY <1>1, <1>3, Zenon DEF NulFrom
<1>5. e \in from .. Len(s) /\ s[e] = Nul /\ \A i \in from .. Len(s) : i < e => s[i] # Nul
  <2>1. e \in from .. Len(s) /\ s[e] = Nul
    OBVIOUS
  <2>2. \A i \in from .. Len(s) : s[i] = Nul => e <= i
    BY <1>3
  <2> QED  BY <2>1, <2>2
<1> QED
  BY <1>4, <1>5, Zenon

\* What may have been taken of s: it ends at a terminator.
TakenSet(s) ==
  {t \in [pos : 0 .. Len(s), msgs : Seq(Seq(Byte))] : t.pos = 0 \/ s[t.pos] = Nul}

\* The part of s between two positions is a string of bytes.
LEMMA BytesBetween ==
  ASSUME NEW s \in Seq(Byte), NEW m \in Nat \ {0}, NEW n \in Int, n <= Len(s)
  PROVE  /\ SubSeq(s, m, n) \in Seq(Byte)
         /\ Len(SubSeq(s, m, n)) = IF m <= n THEN (n - m) + 1 ELSE 0
         /\ \A i \in 1 .. Len(SubSeq(s, m, n)) : SubSeq(s, m, n)[i] = s[(m + i) - 1]
<1>1. m \in Int /\ n \in Int /\ \A i \in m .. n : s[i] \in Byte
  OBVIOUS
<1>2. /\ SubSeq(s, m, n) \in Seq(Byte)
      /\ Len(SubSeq(s, m, n)) = IF m <= n THEN n - m + 1 ELSE 0
      /\ \A i \in 1 .. n - m + 1 : SubSeq(s, m, n)[i] = s[m + i - 1]
  BY <1>1, SubSeqProperties
<1> QED
  BY <1>1, <1>2

\* What a message m that ends at end adds to t.
WithMessage(t, end, m) ==
  IF end = 0 \/ Unknown(m) THEN t ELSE [pos |-> end, msgs |-> Append(t.msgs, m)]

\* The next message is the one before the next terminator.
LEMMA TakeOneIs ==
  ASSUME NEW s, NEW t, NEW end, end = NulFrom(s, t.pos + 1)
  PROVE  TakeOne(s, t) = WithMessage(t, end, SubSeq(s, t.pos + 1, end - 1))
  BY Zenon DEF TakeOne, SelectInSubSeq, NulFrom, WithMessage

\* Taking a message leads from what may have been taken to what may have been
\* taken, and adds to what there is.
LEMMA TakeOneType ==
  ASSUME NEW s \in Seq(Byte), NEW t \in TakenSet(s)
  PROVE  /\ TakeOne(s, t) \in TakenSet(s)
         /\ \/ TakeOne(s, t) = t
            \/ \E m \in Seq(Byte) : TakeOne(s, t).msgs = Append(t.msgs, m)
<1>1. PICK from : from = t.pos + 1
  OBVIOUS
<1>2. /\ t \in [pos : 0 .. Len(s), msgs : Seq(Seq(Byte))] /\ Len(s) \in Nat
      /\ t.pos \in 0 .. Len(s) /\ t.msgs \in Seq(Seq(Byte))
  BY DEF TakenSet
<1>3. from \in Nat \ {0}
  BY <1>1, <1>2
<1>4. PICK end : end = NulFrom(s, from)
  OBVIOUS
<1>5. end = 0 \/ (end \in from .. Len(s) /\ s[end] = Nul)
  BY <1>3, <1>4, NulFromType, Zenon
<1>6. PICK m : m = SubSeq(s, from, end - 1)
  OBVIOUS
<1>7. TakeOne(s, t) = IF end = 0 \/ Unknown(m) THEN t
                      ELSE [pos |-> end, msgs |-> Append(t.msgs, m)]
  <2>1. end = NulFrom(s, t.pos + 1) /\ m = SubSeq(s, t.pos + 1, end - 1)
    BY <1>1, <1>4, <1>6
  <2>2. TakeOne(s, t) = WithMessage(t, end, m)
    BY <2>1, TakeOneIs, Zenon
  <2> QED  BY <2>2, Zenon DEF WithMessage
<1>8. CASE end = 0 \/ Unknown(m)
  BY <1>7, <1>8, Zenon
<1>9. CASE ~(end = 0 \/ Unknown(m))
  <2>1. end \in from .. Len(s) /\ s[end] = Nul /\ end \in 0 .. Len(s)
    BY <1>2, <1>3, <1>5, <1>9
  <2>2. PICK z : z = end - 1
    OBVIOUS
  <2>3. z \in Int /\ z <= Len(s)
    BY <1>2, <2>1, <2>2
  <2>4. m \in Seq(Byte)
    BY <1>3, <1>6, <2>2, <2>3, BytesBetween, Zenon
  <2>5. Append(t.msgs, m) \in Seq(Seq(Byte))
    BY <1>2, <2>4, AppendProperties, Zenon
  <2>6. PICK u : u = [pos |-> end, msgs |-> Append(t.msgs, m)]
    OBVIOUS
  <2>7. TakeOne(s, t) = u
    BY <1>7, <1>9, <2>6, Zenon
  <2>8. u \in [pos : 0 .. Len(s), msgs : Seq(Seq(Byte))] /\ u.pos = end /\ u.msgs = Append(t.msgs, m)
    BY <2>1, <2>5, <2>6
  <2>9. u \in TakenSet(s)
    BY <2>1, <2>8, Zenon DEF TakenSet
  <2> QED  BY <2>4, <2>7, <2>8, <2>9, Zenon
<1> QED
  BY <1>8, <1>9, Zenon

\* Taken is what it says: nothing, and then one message after the other.
LEMMA TakenIsLoop ==
  ASSUME NEW s \in Seq(Byte)
  PROVE  /\ Taken(s)[0] = Nothing
         /\ \A n \in 1 .. Len(s) : Taken(s)[n] = TakeOne(s, Taken(s)[n - 1])
         /\ \A n \in 0 .. Len(s) : Taken(s)[n] \in TakenSet(s)
<1>1. PICK N : N = Len(s)
  OBVIOUS
<1>2. PICK T : T = TakenSet(s)
  OBVIOUS
<1> DEFINE Round(f) == [n \in 0 .. N |-> IF n = 0 THEN Nothing ELSE TakeOne(s, f[n - 1])]
           W == CHOOSE f : f = Round(f)
           F == [n \in 1 .. N |-> [t \in T |-> TakeOne(s, t)]]
<1>3. N \in Nat
  BY <1>1
<1>4. Nothing \in T
  <2>1. Nothing = [pos |-> 0, msgs |-> <<>>]
    BY DEF Nothing
  <2>2. 0 \in 0 .. Len(s) /\ <<>> \in Seq(Seq(Byte))
    OBVIOUS
  <2>3. Nothing \in [pos : 0 .. Len(s), msgs : Seq(Seq(Byte))] /\ Nothing.pos = 0
    BY <2>1, <2>2
  <2> QED  BY <1>2, <2>3, Zenon DEF TakenSet
<1>5. /\ F \in [1 .. N -> [T -> T]]
      /\ \A n \in 1 .. N : \A t \in T : F[n][t] = TakeOne(s, t)
  <2>1. \A t \in T : TakeOne(s, t) \in T
    BY <1>2, TakeOneType, Zenon
  <2> QED  BY <2>1
<1> HIDE DEF F
<1>6. PICK f : IsLoop(f, T, N, F, Nothing)
  BY <1>3, <1>4, <1>5, LoopExists, Zenon
<1>7. f \in [0 .. N -> T] /\ f[0] = Nothing /\ \A k \in 1 .. N : f[k] = F[k][f[k - 1]]
  BY <1>6, Zenon DEF IsLoop
<1>8. ASSUME NEW n \in 0 .. N PROVE f[n] = Round(f)[n]
  <2>1. CASE n = 0
    BY <1>7, <2>1
  <2>2. CASE n # 0
    <3>1. n \in 1 .. N /\ n - 1 \in 0 .. N
      BY <1>3, <2>2
    <3>2. f[n - 1] \in T
      BY <1>7, <3>1
    <3>3. f[n] = TakeOne(s, f[n - 1])
      BY <1>5, <1>7, <3>1, <3>2, Zenon
    <3> QED  BY <2>2, <3>1, <3>3
  <2> QED  BY <2>1, <2>2
<1>9. f = Round(f)
  <2>1. Round(f) = [n \in 0 .. N |-> Round(f)[n]]
    OBVIOUS
  <2>2. f = [n \in 0 .. N |-> f[n]]
    BY <1>7
  <2> QED  BY <1>8, <2>1, <2>2, Zenon
<1>10. W = Round(W)
  BY <1>9, Zenon
<1>11. Taken(s) = W
  BY <1>1, Zenon DEF Taken
<1> HIDE DEF W
<1>12. W[0] = Nothing /\ \A n \in 1 .. N : W[n] = TakeOne(s, W[n - 1])
  <2>1. 0 \in 0 .. N /\ \A n \in 1 .. N : n \in 0 .. N /\ n # 0
    BY <1>3
  <2>2. \A n \in 0 .. N : W[n] = IF n = 0 THEN Nothing ELSE TakeOne(s, W[n - 1])
    BY <1>10, Zenon
  <2> QED  BY <2>1, <2>2, Zenon
<1>13. ASSUME NEW n \in 0 .. N PROVE W[n] \in T
  <2>1. n \in Nat /\ n <= N /\ \A k \in 1 .. n : k \in 1 .. N
    BY <1>3
  <2>2. \A k \in 1 .. n : W[k - 1] \in T => W[k] \in T
    BY <1>2, <1>12, <2>1, TakeOneType, Zenon
  <2>3. W[0] \in T
    BY <1>4, <1>12, Zenon
  <2> QED  BY <2>1, <2>2, <2>3, LoopInvariant, Zenon
<1> QED
  BY <1>1, <1>2, <1>11, <1>12, <1>13, Zenon

\* A prefix, character by character.
LEMMA PrefixIs ==
  ASSUME NEW S, NEW a \in Seq(S), NEW b \in Seq(S)
  PROVE  IsPrefix(a, b) <=> Len(a) <= Len(b) /\ \A i \in 1 .. Len(a) : a[i] = b[i]
<1>1. SubSeq(a, 1, Len(a)) = a
  BY SubSeqFull
<1>2. CASE Len(a) <= Len(b)
  <2>1. PICK c : c = SubSeq(b, 1, Len(a))
    OBVIOUS
  <2>2. c \in Seq(S) /\ Len(c) = Len(a) /\ \A i \in 1 .. Len(a) : c[i] = b[i]
    <3>1. PICK n : n = Len(a)
      OBVIOUS
    <3>2. 1 \in Int /\ n \in Int /\ n \in Nat /\ \A i \in 1 .. n : b[i] \in S
      BY <1>2, <3>1
    <3>3. /\ SubSeq(b, 1, n) \in Seq(S)
          /\ Len(SubSeq(b, 1, n)) = IF 1 <= n THEN n - 1 + 1 ELSE 0
          /\ \A i \in 1 .. n - 1 + 1 : SubSeq(b, 1, n)[i] = b[1 + i - 1]
      BY <3>2, SubSeqProperties
    <3>4. c = SubSeq(b, 1, n)
      BY <2>1, <3>1
    <3> QED  BY <3>1, <3>2, <3>3, <3>4
  <2>3. ASSUME \A i \in 1 .. Len(a) : a[i] = b[i]
        PROVE  a = c
    <3>1. \A i \in 1 .. Len(a) : a[i] = c[i]
      BY <2>2, <2>3
    <3> QED  BY <2>2, <3>1, SeqEqual, Zenon
  <2>4. a = c => \A i \in 1 .. Len(a) : a[i] = b[i]
    BY <2>2, Zenon
  <2> QED  BY <1>1, <1>2, <2>1, <2>3, <2>4, Zenon DEF IsPrefix
<1>3. CASE ~(Len(a) <= Len(b))
  BY <1>3, Zenon DEF IsPrefix
<1> QED
  BY <1>2, <1>3, Zenon

\* A prefix of b is one of b with something appended.
LEMMA PrefixOfLonger ==
  ASSUME NEW S, NEW a \in Seq(S), NEW b \in Seq(S), NEW m \in S, IsPrefix(a, b)
  PROVE  IsPrefix(a, Append(b, m))
<1>1. Len(a) <= Len(b) /\ \A i \in 1 .. Len(a) : a[i] = b[i]
  <2>1. IsPrefix(a, b) => Len(a) <= Len(b) /\ \A i \in 1 .. Len(a) : a[i] = b[i]
    BY PrefixIs
  <2> QED  BY <2>1, Zenon
<1>2. PICK c : c = Append(b, m)
  OBVIOUS
<1>3. c \in Seq(S) /\ Len(c) = Len(b) + 1 /\ \A i \in 1 .. Len(b) : c[i] = b[i]
  BY <1>2, AppendProperties, ZenonT(60)
<1>4. Len(a) \in Nat /\ Len(b) \in Nat /\ Len(a) <= Len(c)
  BY <1>1, <1>3
<1>5. \A i \in 1 .. Len(a) : i \in 1 .. Len(b)
  BY <1>1, <1>4
<1>6. \A i \in 1 .. Len(a) : a[i] = c[i]
  BY <1>1, <1>3, <1>5, Zenon
<1> QED
  BY <1>2, <1>3, <1>4, <1>6, PrefixIs, Zenon

\* What has been taken is never taken back.
LEMMA TakenGrows ==
  ASSUME NEW s \in Seq(Byte), NEW k \in 0 .. Len(s)
  PROVE  IsPrefix(Taken(s)[k].msgs, MessagesOf(s))
<1>1. PICK N, f : N = Len(s) /\ f = Taken(s)
  OBVIOUS
<1>2. PICK a : a = f[k].msgs
  OBVIOUS
<1>3. /\ \A n \in 1 .. N : f[n] = TakeOne(s, f[n - 1])
      /\ \A n \in 0 .. N : f[n] \in TakenSet(s)
  BY <1>1, TakenIsLoop, Zenon
<1>4. \A t \in TakenSet(s) : t.msgs \in Seq(Seq(Byte))
  BY DEF TakenSet
<1>5. N \in Nat /\ k \in Nat /\ k <= N /\ a \in Seq(Seq(Byte))
  <2>1. N \in Nat /\ k \in Nat /\ k <= N /\ k \in 0 .. N
    BY <1>1
  <2> QED  BY <1>2, <1>3, <1>4, <2>1, Zenon
<1> DEFINE S == {n \in Nat : k <= n /\ n <= N => IsPrefix(a, f[n].msgs)}
<1>6. \A n \in Nat : n = k => IsPrefix(a, f[n].msgs)
  <2>0. Len(a) <= Len(a)
    BY <1>5
  <2>1. IsPrefix(a, a)
    BY <2>0, <1>5, PrefixIs, Zenon
  <2> QED  BY <1>2, <2>1, Zenon
<1>7. 0 \in S
  <2>1. k <= 0 => k = 0
    BY <1>5
  <2>2. 0 \in Nat
    OBVIOUS
  <2> QED  BY <1>6, <2>1, <2>2, Zenon
<1>8. ASSUME NEW n \in Nat, n \in S PROVE n + 1 \in S
  <2>1. n + 1 \in Nat
    OBVIOUS
  <2>2. SUFFICES ASSUME k <= n + 1, n + 1 <= N PROVE IsPrefix(a, f[n + 1].msgs)
    BY <2>1, Zenon
  <2>3. CASE k = n + 1
    BY <1>6, <2>1, <2>3, Zenon
  <2>4. CASE k # n + 1
    <3>1. k <= n /\ n <= N /\ n \in 0 .. N /\ n + 1 \in 1 .. N /\ (n + 1) - 1 = n
      BY <1>5, <2>2, <2>4
    <3>2. IsPrefix(a, f[n].msgs)
      BY <1>8, <3>1, Zenon
    <3>3. f[n] \in TakenSet(s) /\ f[n + 1] = TakeOne(s, f[n])
      BY <1>3, <3>1
    <3>4. \/ f[n + 1] = f[n]
          \/ \E m \in Seq(Byte) : f[n + 1].msgs = Append(f[n].msgs, m)
      BY <3>3, TakeOneType, Zenon
    <3>5. PICK b : b = f[n].msgs
      OBVIOUS
    <3>6. b \in Seq(Seq(Byte))
      BY <1>4, <3>3, <3>5, Zenon
    <3>7. \A m \in Seq(Byte) : IsPrefix(a, Append(b, m))
      BY <1>5, <3>2, <3>5, <3>6, PrefixOfLonger, Zenon
    <3> QED  BY <3>2, <3>4, <3>5, <3>7, Zenon
  <2> QED  BY <2>3, <2>4, Zenon
<1> HIDE DEF S
<1>9. Nat \subseteq S
  BY <1>7, <1>8, SetInduction
<1>10. IsPrefix(a, f[N].msgs)
  <2>1. N <= N
    BY <1>5
  <2> QED  BY <1>5, <1>9, <2>1, Zenon DEF S
<1> QED
  BY <1>1, <1>2, <1>10, Zenon DEF MessagesOf

\* Where there is no further message, all have been taken.
LEMMA TakenEnds ==
  ASSUME NEW s \in Seq(Byte), NEW k \in 0 .. Len(s),
         TakeOne(s, Taken(s)[k]) = Taken(s)[k]
  PROVE  MessagesOf(s) = Taken(s)[k].msgs
<1>1. PICK N, f : N = Len(s) /\ f = Taken(s)
  OBVIOUS
<1>2. \A n \in 1 .. N : f[n] = TakeOne(s, f[n - 1])
  BY <1>1, TakenIsLoop, Zenon
<1>3. N \in Nat /\ k \in Nat /\ k <= N
  BY <1>1
<1> DEFINE S == {n \in Nat : k <= n /\ n <= N => f[n] = f[k]}
<1>4. 0 \in S
  <2>1. k <= 0 => k = 0
    BY <1>3
  <2>2. 0 \in Nat
    OBVIOUS
  <2> QED  BY <2>1, <2>2, Zenon
<1>5. ASSUME NEW n \in Nat, n \in S PROVE n + 1 \in S
  <2>1. n + 1 \in Nat
    OBVIOUS
  <2>2. SUFFICES ASSUME k <= n + 1, n + 1 <= N PROVE f[n + 1] = f[k]
    BY <2>1, Zenon
  <2>3. CASE k # n + 1
    <3>1. k <= n /\ n <= N /\ n + 1 \in 1 .. N /\ (n + 1) - 1 = n
      BY <1>3, <2>2, <2>3
    <3>2. f[n] = f[k]
      BY <1>5, <3>1, Zenon
    <3>3. f[n + 1] = TakeOne(s, f[n])
      BY <1>2, <3>1
    <3> QED  BY <1>1, <3>2, <3>3, Zenon
  <2> QED  BY <2>3, Zenon
<1> HIDE DEF S
<1>6. Nat \subseteq S
  BY <1>4, <1>5, SetInduction
<1>7. f[N] = f[k]
  <2>1. N <= N
    BY <1>3
  <2> QED  BY <1>3, <1>6, <2>1, Zenon DEF S
<1> QED
  BY <1>1, <1>7, Zenon DEF MessagesOf

-----------------------------------------------------------------------------
(* The buffer with a record in it. *)

\* Behind the record there are terminators.
LEMMA HoldsIs ==
  ASSUME NEW s \in Seq(Byte), Len(s) <= Size
  PROVE  /\ Holds(s) \in [1 .. Size -> Byte]
         /\ \A i \in 1 .. Len(s) : i \in 1 .. Size /\ Holds(s)[i] = s[i]
         /\ \A i \in 1 .. Size : i > Len(s) => Holds(s)[i] = Nul
<1>1. Size \in Nat /\ Len(s) \in Nat
  BY BufferAssumption
<1>2. \A i \in 1 .. Size : i <= Len(s) => s[i] \in Byte
  BY <1>1
<1>3. Nul \in Byte
  BY DEF Nul, Byte
<1> QED
  BY <1>1, <1>2, <1>3 DEF Holds

\* Where C2HMessage_get stands when it has taken the messages of s up to pos.
StandsAt(s, pos) ==
  /\ s \in Seq(Byte) /\ Len(s) \in 1 .. Size /\ IsFramed(s)
  /\ pos \in 0 .. Len(s) /\ (pos = 0 \/ s[pos] = Nul)
  /\ start = pos + 1 /\ data = Holds(s)

\* At the end of the record memchr() finds nothing.
LEMMA NoSlashBehind ==
  ASSUME NEW s, StandsAt(s, Len(s))
  PROVE  Slash = 0
<1>1. s \in Seq(Byte) /\ Len(s) <= Size /\ Len(s) \in Nat /\ start = Len(s) + 1 /\ data = Holds(s)
  BY BufferAssumption DEF StandsAt
<1>2. Begin = Len(s) + 1 /\ Size \in Nat
  BY <1>1, BufferAssumption DEF Begin
<1>3. \A i \in 1 .. Size : i > Len(s) => data[i] = Nul
  BY <1>1, HoldsIs
<1>4. \A i \in Begin .. Size : data[i] # "/"
  BY <1>1, <1>2, <1>3 DEF Nul
<1> DEFINE I == {i \in Begin .. Size : data[i] = "/"}
<1>5. I = {}
  BY <1>4, Zenon
<1> QED
  BY <1>5, Zenon DEF Slash, SelectInSubSeq

\* Before the end of the record it finds the slash right there.
LEMMA SlashIsNext ==
  ASSUME NEW s, NEW pos, StandsAt(s, pos), pos # Len(s)
  PROVE  Slash = pos + 1 /\ Begin = pos + 1
<1>1. /\ s \in Seq(Byte) /\ Len(s) <= Size /\ Len(s) \in Nat /\ Size \in Nat
      /\ pos \in Nat /\ pos < Len(s) /\ start = pos + 1 /\ data = Holds(s)
  BY BufferAssumption DEF StandsAt
<1>2. Begin = pos + 1 /\ pos + 1 \in 1 .. Len(s) /\ pos + 1 \in Begin .. Size
  BY <1>1 DEF Begin
<1>3. s[pos + 1] = "/"
  <2>1. CASE pos = 0
    BY <1>1, <2>1 DEF StandsAt, IsFramed
  <2>2. CASE pos # 0
    <3>1. pos \in 1 .. Len(s) - 1 /\ s[pos] = Nul
      BY <1>1, <2>2 DEF StandsAt
    <3> QED  BY <3>1 DEF StandsAt, IsFramed
  <2> QED  BY <2>1, <2>2
<1>4. data[pos + 1] = "/"
  <2>1. data[pos + 1] = s[pos + 1]
    BY <1>1, <1>2, HoldsIs
  <2> QED  BY <1>3, <2>1
<1> DEFINE I == {i \in Begin .. Size : data[i] = "/"}
<1>5. I \subseteq Nat /\ pos + 1 \in I /\ \A y \in I : pos + 1 <= y
  BY <1>1, <1>2, <1>4
<1>6. Slash = IF I # {} THEN Min(I) ELSE 0
  BY Zenon DEF Slash, SelectInSubSeq
<1> HIDE DEF I
<1>7. Min(I) = pos + 1
  BY <1>5, SmallestIs
<1> QED
  BY <1>2, <1>5, <1>6, <1>7

\* The terminator it finds is the one of the record.
LEMMA TerminatorIsNext ==
  ASSUME NEW s, NEW pos, StandsAt(s, pos), pos # Len(s)
  PROVE  /\ Terminator = NulFrom(s, pos + 1)
         /\ Terminator \in pos + 1 .. Len(s)
         /\ s[Terminator] = Nul
         /\ SubSeq(data, Slash, Terminator - 1) = SubSeq(s, pos + 1, Terminator - 1)
<1>1. /\ s \in Seq(Byte) /\ Len(s) <= Size /\ Len(s) \in Nat /\ Size \in Nat
      /\ pos \in Nat /\ pos < Len(s) /\ data = Holds(s) /\ s[Len(s)] = Nul
  BY BufferAssumption DEF StandsAt, IsFramed
<1>2. Slash = pos + 1
  BY SlashIsNext
<1>3. PICK e : e = NulFrom(s, pos + 1)
  OBVIOUS
<1>4. /\ e \in pos + 1 .. Len(s) /\ s[e] = Nul
      /\ \A i \in pos + 1 .. Len(s) : i < e => s[i] # Nul
  <2>1. pos + 1 \in Nat \ {0} /\ Len(s) \in pos + 1 .. Len(s)
    BY <1>1
  <2> QED  BY <1>1, <1>3, <2>1, NulFromFirst, Zenon
<1>5. /\ data \in [1 .. Size -> Byte]
      /\ \A i \in 1 .. Len(s) : i \in 1 .. Size /\ data[i] = s[i]
  BY <1>1, HoldsIs
<1> DEFINE I == {i \in Slash .. Size : data[i] = Nul}
<1>6. I \subseteq Nat /\ e \in I
  BY <1>1, <1>2, <1>4, <1>5
<1>7. ASSUME NEW y \in I PROVE e <= y
  <2>1. y \in pos + 1 .. Size /\ data[y] = Nul
    BY <1>2
  <2>2. CASE y <= Len(s)
    <3>1. y \in 1 .. Len(s) /\ y \in pos + 1 .. Len(s)
      BY <1>1, <2>1, <2>2
    <3>2. s[y] = Nul
      BY <1>5, <2>1, <3>1
    <3> QED  BY <1>1, <1>4, <3>1, <3>2
  <2>3. CASE ~(y <= Len(s))
    BY <1>1, <1>4, <2>1, <2>3
  <2> QED  BY <2>2, <2>3
<1>8. Terminator = IF I # {} THEN Min(I) ELSE 0
  BY Zenon DEF Terminator, SelectInSubSeq
<1>9. Terminator = e
  <2> HIDE DEF I
  <2>1. Min(I) = e
    BY <1>6, <1>7, SmallestIs
  <2> QED  BY <1>6, <1>8, <2>1
<1>10. SubSeq(data, pos + 1, e - 1) = SubSeq(s, pos + 1, e - 1)
  <2>1. data \in Seq(Byte) /\ Len(data) = Size
    BY <1>1, <1>5
  <2>2. PICK m, n : m = pos + 1 /\ n = e - 1
    OBVIOUS
  <2>3. m \in Nat \ {0} /\ n \in Int /\ n <= Len(s) /\ n <= Len(data)
    BY <1>1, <1>4, <2>1, <2>2
  <2>4. PICK a, b : a = SubSeq(data, m, n) /\ b = SubSeq(s, m, n)
    OBVIOUS
  <2>5. /\ a \in Seq(Byte) /\ Len(a) = IF m <= n THEN (n - m) + 1 ELSE 0
        /\ \A i \in 1 .. Len(a) : a[i] = data[(m + i) - 1]
    BY <2>1, <2>3, <2>4, BytesBetween, ZenonT(60)
  <2>6. /\ b \in Seq(Byte) /\ Len(b) = IF m <= n THEN (n - m) + 1 ELSE 0
        /\ \A i \in 1 .. Len(b) : b[i] = s[(m + i) - 1]
    <3>1. s \in Seq(Byte) /\ m \in Nat \ {0} /\ n \in Int /\ n <= Len(s)
      BY <1>1, <2>3
    <3> QED  BY <2>4, <3>1, BytesBetween, Zenon
  <2>7. Len(a) = Len(b)
    BY <2>5, <2>6
  <2>8. ASSUME NEW i \in 1 .. Len(a) PROVE (m + i) - 1 \in 1 .. Len(s)
    <3>1. PICK k : k = Len(a)
      OBVIOUS
    <3>2. i \in 1 .. k /\ k = IF m <= n THEN (n - m) + 1 ELSE 0
      BY <2>5, <3>1
    <3>3. m <= n /\ i <= (n - m) + 1 /\ i \in Nat /\ i >= 1
      BY <2>3, <3>2
    <3> QED  BY <1>1, <2>3, <3>3
  <2>9. \A i \in 1 .. Len(a) : a[i] = b[i]
    BY <1>5, <2>5, <2>6, <2>7, <2>8
  <2>10. a = b
    BY <2>5, <2>6, <2>7, <2>9, SeqEqual, Zenon
  <2> QED  BY <2>2, <2>4, <2>10
<1> QED
  BY <1>2, <1>3, <1>4, <1>9, <1>10

\* The loop has taken the first n messages of the record s, which are t, and
\* stands behind them, or has cleared the buffer with the last.
Takes(s, n, t) ==
  /\ s \in Seq(Byte) /\ Len(s) \in 1 .. Size /\ IsFramed(s)
  /\ n \in 0 .. Len(s) /\ t = Taken(s)[n] /\ t \in TakenSet(s)
  /\ n <= t.pos /\ got[Len(got)] = t.msgs
  /\ StandsAt(s, t.pos) \/ (start = 0 /\ data = Zero /\ t.pos = Len(s))

\* The last record is a string of bytes, and if it fits it is framed.
LEMMA LastRecord ==
  ASSUME TypeOK, stream # <<>>
  PROVE  /\ Len(stream) \in Nat \ {0} /\ Len(stream) \in DOMAIN stream
         /\ Last(stream) = stream[Len(stream)] /\ Last(stream) \in Seq(Byte) \ {<<>>}
<1>1. stream \in Seq(Records) /\ Records \subseteq Seq(Byte) \ {<<>>}
  BY BufferAssumption DEF TypeOK
<1>2. Len(stream) \in Nat \ {0} /\ Len(stream) \in 1 .. Len(stream)
  BY <1>1, EmptySeq
<1>3. stream[Len(stream)] \in Records
  BY <1>1, <1>2, ElementOfSeq
<1> QED
  BY <1>1, <1>2, <1>3 DEF Last

\* What the inductive invariant says of the record in the buffer.
LEMMA RecordIsTaken ==
  ASSUME TypeOK, BufferIsFramed, RecordsFit, pc = "get"
  PROVE  \E n, t : Takes(Last(stream), n, t)
<1>1. PICK s : s = Last(stream)
  OBVIOUS
<1>2. stream # <<>>
  BY DEF BufferIsFramed, BatchPerRecord
<1>3. PICK n \in 0 .. Len(s) : IsAt(s, n)
  BY <1>1 DEF BufferIsFramed, RecordsAreTaken
<1>4. s \in Seq(Byte) /\ s # <<>> /\ Len(s) <= Size /\ IsFramed(s)
  BY <1>1, <1>2, LastRecord DEF RecordsFit
<1>5. Len(s) \in 1 .. Size
  BY <1>4, EmptySeq, BufferAssumption
<1>6. PICK t : t = Taken(s)[n]
  OBVIOUS
<1>7. t \in TakenSet(s)
  BY <1>4, <1>6, TakenIsLoop, Zenon
<1>8. t.pos \in 0 .. Len(s) /\ (t.pos = 0 \/ s[t.pos] = Nul)
  BY <1>7 DEF TakenSet
<1>9. /\ n <= t.pos /\ got[Len(got)] = t.msgs
      /\ \/ start = t.pos + 1 /\ data = Holds(s)
         \/ start = 0 /\ data = Zero /\ t.pos = Len(s)
  BY <1>3, <1>6, Zenon DEF IsAt
<1>10. Takes(s, n, t)
  BY <1>4, <1>5, <1>6, <1>7, <1>8, <1>9, Zenon DEF Takes, StandsAt
<1> QED
  BY <1>1, <1>10, Zenon

\* A record whose end is reached holds no further message, and the buffer no
\* further slash.
LEMMA RecordEnds ==
  ASSUME NEW s, NEW n, NEW t, Takes(s, n, t), t.pos = Len(s)
  PROVE  Slash = 0 /\ MessagesOf(s) = t.msgs
<1>1. s \in Seq(Byte) /\ n \in 0 .. Len(s) /\ t = Taken(s)[n] /\ Len(s) \in Nat
  BY DEF Takes
<1>2. Slash = 0
  <2>1. CASE StandsAt(s, t.pos)
    BY <2>1, NoSlashBehind
  <2>2. CASE start = 0 /\ data = Zero
    <3> DEFINE I == {i \in Begin .. Size : data[i] = "/"}
    <3>1. Begin = 1 /\ \A i \in 1 .. Size : data[i] # "/"
      BY <2>2 DEF Begin, Zero, Nul
    <3>2. I = {}
      BY <3>1, Zenon
    <3> QED  BY <3>2, Zenon DEF Slash, SelectInSubSeq
  <2> QED  BY <2>1, <2>2 DEF Takes
<1>3. PICK from : from = t.pos + 1
  OBVIOUS
<1>4. from \in Nat /\ from > Len(s)
  BY <1>1, <1>3
<1>5. PICK end : end = NulFrom(s, from)
  OBVIOUS
<1>6. end = 0 \/ end \in from .. Len(s)
  BY <1>1, <1>4, <1>5, NulFromType, Zenon
<1>7. end = 0
  BY <1>1, <1>4, <1>6
<1>8. TakeOne(s, t) = WithMessage(t, end, SubSeq(s, t.pos + 1, end - 1))
  BY <1>3, <1>5, TakeOneIs, Zenon
<1>9. TakeOne(s, t) = t
  BY <1>7, <1>8, Zenon DEF WithMessage
<1> QED
  BY <1>1, <1>2, <1>9, TakenEnds, Zenon

\* Otherwise C2HMessage_get finds the next message of the record: one of unknown
\* type is the end of what is taken.
LEMMA RecordGoesOn ==
  ASSUME NEW s, NEW n, NEW t, Takes(s, n, t), t.pos # Len(s),
         NEW m, m = SubSeq(data, Slash, Terminator - 1)
  PROVE  /\ Unknown(m) => MessagesOf(s) = t.msgs
         /\ Taken(s)[n + 1] = WithMessage(t, Terminator, m)
<1>1. /\ s \in Seq(Byte) /\ n \in 0 .. Len(s) /\ t = Taken(s)[n] /\ Len(s) \in Nat
      /\ StandsAt(s, t.pos) /\ n <= t.pos
  BY DEF Takes
<1>2. t.pos \in 0 .. Len(s)
  BY <1>1 DEF StandsAt
<1>4. PICK e : e = Terminator
  OBVIOUS
<1>5. /\ e = NulFrom(s, t.pos + 1) /\ e \in t.pos + 1 .. Len(s)
      /\ m = SubSeq(s, t.pos + 1, e - 1)
  BY <1>1, <1>4, TerminatorIsNext, Zenon
<1>6. n + 1 \in 1 .. Len(s) /\ (n + 1) - 1 = n
  BY <1>1, <1>2, <1>5
<1>7. TakeOne(s, t) = WithMessage(t, e, m)
  BY <1>5, TakeOneIs, Zenon
<1>8. Unknown(m) => MessagesOf(s) = t.msgs
  <2>1. SUFFICES ASSUME Unknown(m) PROVE MessagesOf(s) = t.msgs
    OBVIOUS
  <2>2. TakeOne(s, t) = t
    BY <1>7, <2>1, Zenon DEF WithMessage
  <2> QED  BY <1>1, <2>2, TakenEnds, Zenon
<1>9. Taken(s)[n + 1] = WithMessage(t, e, m)
  <2>1. Taken(s)[n + 1] = TakeOne(s, Taken(s)[(n + 1) - 1])
    BY <1>1, <1>6, TakenIsLoop, Zenon
  <2>2. Taken(s)[(n + 1) - 1] = t
    BY <1>1, <1>6
  <2> QED  BY <1>7, <2>1, <2>2, Zenon
<1> QED
  BY <1>4, <1>8, <1>9, Zenon

\* A record that has room in the buffer is read at once, into a cleared buffer.
LEMMA ReceiveFitting ==
  ASSUME data[Size] = Nul, NEW record \in Seq(Byte), Len(record) <= Size, Receive(record)
  PROVE  start' = 1 /\ data' = Holds(record) /\ incoming' = <<>> /\ pc' = "get"
<1>0. Size \in Nat /\ Size > 0 /\ Len(record) \in Nat
  BY BufferAssumption
<1>1. ~Leftover
  BY DEF Leftover
<1>2. Prepared = [start |-> 1, data |-> Zero]
  BY <1>1, Zenon DEF Prepared
<1>3. Prepared.start = 1 /\ Prepared.data = Zero
  BY <1>2
<1> DEFINE room == Size - Prepared.start + 1
           n == Min({room, Len(record)})
<1>4. room = Size
  BY <1>0, <1>3
<1>5. n = Len(record)
  <2> HIDE DEF room
  <2>1. /\ {room, Len(record)} \subseteq Nat /\ Len(record) \in {room, Len(record)}
        /\ \A y \in {room, Len(record)} : Len(record) <= y
    BY <1>0, <1>4
  <2>2. PICK S, a : S = {room, Len(record)} /\ a = Len(record)
    OBVIOUS
  <2>3. S \subseteq Nat /\ a \in S /\ \A y \in S : a <= y
    BY <2>1, <2>2, Zenon
  <2>4. Min(S) = a
    BY <2>3, SmallestIs, Zenon
  <2> QED  BY <2>2, <2>4, Zenon
<1>6. data' = Holds(record)
  <2>1. data' = [i \in 1 .. Size |->
                   IF i \in Prepared.start .. Prepared.start + n - 1
                   THEN record[i - Prepared.start + 1]
                   ELSE Prepared.data[i]]
    BY Zenon DEF Receive
  <2> HIDE DEF n
  <2>2. \A i \in 1 .. Size : Zero[i] = Nul
    BY DEF Zero
  <2>3. \A i \in 1 .. Size :
          data'[i] = IF i <= Len(record) THEN record[i] ELSE Nul
    BY <1>0, <1>3, <1>5, <2>1, <2>2
  <2>4. data' = [i \in 1 .. Size |-> data'[i]]
    BY <2>1
  <2> QED  BY <2>3, <2>4, Zenon DEF Holds
<1>7. incoming' = <<>>
  <2>1. incoming' = SubSeq(record, n + 1, Len(record))
    BY Zenon DEF Receive
  <2> HIDE DEF n
  <2>2. PICK k : k = Len(record) + 1
    OBVIOUS
  <2>3. incoming' = SubSeq(record, k, Len(record)) /\ k \in Nat \ {0} /\ k > Len(record)
    BY <1>0, <1>5, <2>1, <2>2
  <2>4. incoming' \in Seq(Byte) /\ Len(incoming') = 0
    BY <1>0, <2>3, BytesBetween
  <2> QED  BY <2>4, EmptySeq
<1> QED
  BY <1>3, <1>6, <1>7 DEF Receive

\* A batch that has been taken stays so: the reasons to stop do not go away.
LEMMA BatchStays ==
  ASSUME NEW i \in Nat, NEW l \in Nat, l = logins, logins' \in Nat, logins' >= l,
         owner' = owner, got'[i] = got[i], stream'[i] = stream[i], BatchIsTaken(i)
  PROVE  BatchIsTaken(i)'
<1>1. StopsEarly(i) => StopsEarly(i)'
  BY DEF StopsEarly, Last
<1>2. MessagesOf(stream'[i]) = MessagesOf(stream[i])
  BY Zenon
<1> QED
  BY <1>1, <1>2, Zenon DEF BatchIsTaken

\* The first record, and each further one, finds the buffer empty.
LEMMA ReceiveKeepsFraming ==
  ASSUME TypeOK, BufferIsFramed, ReceiveNext
  PROVE  BufferIsFramed'
<1>1. PICK record \in Records : Receive(record) /\ stream' = Append(stream, record)
  BY DEF ReceiveNext
<1>2. record \in Seq(Byte) /\ record # <<>> /\ pc' = "get"
  BY <1>1, BufferAssumption DEF Receive
<1>3. /\ stream \in Seq(Records) /\ got \in Seq(Seq(Seq(Byte)))
      /\ Len(got) = Len(stream) /\ got' = Append(got, <<>>) /\ pc = "receive"
  BY <1>1 DEF TypeOK, BufferIsFramed, BatchPerRecord, ReceiveNext, Receive
<1>0. /\ owner' = owner /\ login' = login /\ logins \in Nat /\ (login => logins = Len(stream))
      /\ logins' = IF login THEN logins + 1 ELSE logins
  BY <1>1 DEF TypeOK, BufferIsFramed, BatchPerRecord, ReceiveNext, Receive
<1>4. PICK r : r = Len(stream)
  OBVIOUS
<1>5. /\ r \in Nat /\ Len(stream') = r + 1 /\ stream'[r + 1] = record
      /\ \A i \in 1 .. r : stream'[i] = stream[i]
      /\ DOMAIN stream = 1 .. r /\ DOMAIN stream' = 1 .. r + 1
  BY <1>1, <1>3, <1>4
<1>6. /\ Len(got') = r + 1 /\ got'[r + 1] = <<>> /\ \A i \in 1 .. r : got'[i] = got[i]
  BY <1>3, <1>4
<1>7. BatchPerRecord'
  <2>1. stream' # <<>>
    BY <1>1, <1>3
  <2>2. login' => logins' = Len(stream')
    BY <1>0, <1>4, <1>5
  <2> QED  BY <1>5, <1>6, <2>1, <2>2 DEF BatchPerRecord
<1>8. ASSUME RecordsFit' PROVE RecordsAreTaken'
  <2>1. \A i \in 1 .. r + 1 : Len(stream'[i]) <= Size /\ IsFramed(stream'[i])
    BY <1>5, <1>8, Zenon DEF RecordsFit
  <2>2. r + 1 \in 1 .. r + 1 /\ \A i \in 1 .. r : i \in 1 .. r + 1
    BY <1>5
  <2>3. RecordsFit /\ Len(record) <= Size /\ IsFramed(record)
    BY <1>5, <2>1, <2>2, Zenon DEF RecordsFit
  <2>4. data[Size] = Nul /\ \A i \in 1 .. r : BatchIsTaken(i)
    BY <1>3, <1>5, <2>3 DEF BufferIsFramed, RecordsAreTaken
  <2>5. start' = 1 /\ data' = Holds(record) /\ incoming' = <<>>
    BY <1>1, <1>2, <2>3, <2>4, ReceiveFitting
  <2>6. data'[Size] = Nul
    <3>1. Size \in 1 .. Size /\ Len(record) \in 1 .. Size /\ record[Len(record)] = Nul
      BY <1>2, <2>3, EmptySeq, BufferAssumption DEF IsFramed
    <3> QED  BY <2>5, <3>1 DEF Holds
  <2>7. \A i \in DOMAIN stream' :
          i < Len(stream') \/ pc' # "get" => BatchIsTaken(i)'
    <3>1. \A i \in 1 .. r + 1 : i < r + 1 => i \in 1 .. r
      BY <1>5
    <3>2. logins' \in Nat /\ logins' >= logins /\ \A i \in 1 .. r : i \in Nat
      BY <1>0, <1>5
    <3>3. \A i \in 1 .. r : BatchIsTaken(i)'
      BY <1>0, <1>5, <1>6, <2>4, <3>2, BatchStays, Zenon
    <3> QED  BY <1>2, <1>5, <3>1, <3>3, Zenon
  <2>8. IsAt(record, 0)'
    <3>1. got'[Len(got')] = <<>>
      BY <1>6
    <3>2. PICK t : t = Taken(record)[0]
      OBVIOUS
    <3>3. t = Nothing
      BY <1>2, <3>2, TakenIsLoop, Zenon
    <3>4. t.pos = 0 /\ t.msgs = <<>>
      BY <3>3 DEF Nothing
    <3>5. 0 <= t.pos /\ t.pos + 1 = 1
      BY <3>4
    <3> QED  BY <2>5, <3>1, <3>2, <3>4, <3>5, Zenon DEF IsAt
  <2>9. Last(stream)' = record /\ 0 \in 0 .. Len(record)
    BY <1>2, <1>5 DEF Last
  <2>10. (\E n \in 0 .. Len(Last(stream)) : IsAt(Last(stream), n))'
    BY <2>8, <2>9, Zenon
  <2> QED  BY <1>2, <2>5, <2>6, <2>7, <2>10 DEF RecordsAreTaken
<1> QED
  BY <1>7, <1>8, Zenon DEF BufferIsFramed

\* When C2HMessage_get returns NULL, the record has been taken to its end.
LEMMA EndKeepsFraming ==
  ASSUME TypeOK, BufferIsFramed, pc = "get", NoMessage,
         RecordsFit => MessagesOf(Last(stream)) = got[Len(got)] /\ data'[Size] = Nul
  PROVE  BufferIsFramed'
<1>1. /\ pc' \in {"receive", "closed"} /\ incoming' = incoming /\ stream' = stream
      /\ got' = got /\ owner' = owner /\ login' = login /\ logins' = logins
  BY DEF NoMessage
<1>2. stream # <<>> /\ Len(got) = Len(stream)
  BY DEF BufferIsFramed, BatchPerRecord
<1>3. BatchPerRecord'
  BY <1>1, <1>2 DEF BufferIsFramed, BatchPerRecord
<1>4. ASSUME RecordsFit' PROVE RecordsAreTaken'
  <2>1. RecordsFit
    BY <1>1, <1>4 DEF RecordsFit
  <2>2. PICK r : r = Len(stream)
    OBVIOUS
  <2>3. r \in Nat \ {0} /\ DOMAIN stream = 1 .. r /\ Last(stream) = stream[r]
    BY <1>2, <2>2, LastRecord DEF TypeOK
  <2>4. incoming = <<>> /\ \A i \in 1 .. r : i < r => BatchIsTaken(i)
    BY <2>1, <2>2, <2>3, Zenon DEF BufferIsFramed, RecordsAreTaken
  <2>5. got[r] = MessagesOf(stream[r]) /\ data'[Size] = Nul
    BY <1>2, <2>1, <2>2, <2>3, Zenon
  <2>6. \A i \in 1 .. r : i < r \/ i = r
    BY <2>3
  <2>7. \A i \in 1 .. r : BatchIsTaken(i)
    BY <2>4, <2>5, <2>6, Zenon DEF BatchIsTaken
  <2>8. logins \in Nat /\ logins >= logins /\ \A i \in 1 .. r : i \in Nat
    BY <2>3 DEF TypeOK
  <2>9. \A i \in DOMAIN stream' : BatchIsTaken(i)'
    BY <1>1, <2>3, <2>7, <2>8, BatchStays, Zenon
  <2> QED  BY <1>1, <2>4, <2>5, <2>9 DEF RecordsAreTaken
<1> QED
  BY <1>3, <1>4, Zenon DEF BufferIsFramed

\* The message that Append puts behind a batch is its last.
LEMMA LastOfAppend ==
  ASSUME NEW S, NEW g \in Seq(S), NEW m
  PROVE  Append(g, m) # <<>> /\ Last(Append(g, m)) = m
<1>1. PICK T : T = S \cup {m}
  OBVIOUS
<1>2. g \in Seq(T) /\ m \in T
  BY <1>1
<1>3. PICK a : a = Append(g, m)
  OBVIOUS
<1>4. a \in Seq(T) /\ a # <<>> /\ Len(a) = Len(g) + 1 /\ a[Len(g) + 1] = m
  BY <1>2, <1>3, AppendProperties
<1> QED
  BY <1>3, <1>4 DEF Last

\* After a message the owner goes on, or stops for a reason.
GoesOn ==
  pc' = "get" /\ login' = login

Stops(m) ==
  MayStop(m) /\ pc' \in {"receive", "closed"} /\ login' \in {login, FALSE}

\* A message that is taken out is the next of the record, and what is behind it
\* is where the next call looks.
LEMMA MessageKeepsFraming ==
  ASSUME TypeOK, BufferIsFramed, pc = "get", AfterMessage,
         NEW m, m = SubSeq(data, Slash, Terminator - 1), ~Unknown(m), Slash # 0,
         got' = [got EXCEPT ![Len(got)] = Append(@, m)],
         Stops(m) \/ GoesOn,
         UNCHANGED <<owner, incoming, reads, logins, stream>>
  PROVE  BufferIsFramed'
<1>1. PICK r : r = Len(stream)
  OBVIOUS
<1>2. /\ stream # <<>> /\ Len(got) = r /\ got \in Seq(Seq(Seq(Byte)))
      /\ incoming' = incoming /\ stream' = stream /\ owner' = owner /\ logins' = logins
      /\ logins \in Nat
  BY <1>1 DEF TypeOK, BufferIsFramed, BatchPerRecord
<1>7. pc' # "undefined"
  BY DEF Stops, GoesOn
<1>0. (login' => login) /\ (login => logins = r)
  <2>1. login => logins = r
    BY <1>1, Zenon DEF BufferIsFramed, BatchPerRecord
  <2>2. CASE GoesOn
    BY <2>1, <2>2, Zenon DEF GoesOn
  <2>3. CASE Stops(m)
    <3>1. login' = login \/ login' = FALSE
      BY <2>3, Zenon DEF Stops
    <3>2. login' = FALSE => ~login'
      OBVIOUS
    <3>3. login' => login
      BY <3>1, <3>2, Zenon
    <3> QED  BY <2>1, <3>3, Zenon
  <2> QED  BY <2>2, <2>3
<1>3. /\ r \in Nat \ {0} /\ DOMAIN stream = 1 .. r
  BY <1>1, <1>2, LastRecord DEF TypeOK
<1>4. /\ Len(got') = r /\ got'[r] = Append(got[r], m)
      /\ \A i \in 1 .. r : i < r => got'[i] = got[i]
  <2>1. r \in 1 .. r /\ \A i \in 1 .. r : i < r => i # r
    BY <1>3
  <2>2. DOMAIN got = 1 .. r
    BY <1>2
  <2>3. got' = [got EXCEPT ![r] = Append(got[r], m)]
    BY <1>2
  <2>4. DOMAIN got' = 1 .. r /\ got'[r] = Append(got[r], m) /\ \A i \in 1 .. r : i # r => got'[i] = got[i]
    BY <2>1, <2>2, <2>3, Zenon
  <2>5. Len(got') = r
    BY <1>2, <1>3, <2>1, <2>3
  <2> QED  BY <2>1, <2>4, <2>5, Zenon
<1>5. BatchPerRecord'
  BY <1>0, <1>1, <1>2, <1>4, Zenon DEF BatchPerRecord
<1>6. ASSUME RecordsFit' PROVE RecordsAreTaken'
  <2>1. RecordsFit
    BY <1>2, <1>6 DEF RecordsFit
  <2>2. /\ incoming = <<>> /\ data[Size] = Nul
        /\ \A i \in 1 .. r : i < r => BatchIsTaken(i)
    BY <1>1, <1>3, <2>1, Zenon DEF BufferIsFramed, RecordsAreTaken
  <2>3. PICK s, n, t : s = Last(stream) /\ Takes(s, n, t)
    BY <2>1, RecordIsTaken, Zenon
  <2>4. t.pos # Len(s)
    BY <2>3, RecordEnds, Zenon
  <2>5. PICK e : e = Terminator
    OBVIOUS
  <2>6. /\ StandsAt(s, t.pos) /\ Slash = t.pos + 1 /\ Begin = t.pos + 1
        /\ e \in t.pos + 1 .. Len(s)
        /\ n + 1 \in 0 .. Len(s) /\ n + 1 <= e
    <3>1. StandsAt(s, t.pos) /\ n \in Nat /\ n <= t.pos
      BY <2>3, <2>4 DEF Takes
    <3>2. Slash = t.pos + 1 /\ Begin = t.pos + 1
      BY <2>4, <3>1, SlashIsNext
    <3>3. Terminator \in t.pos + 1 .. Len(s)
      BY <2>4, <3>1, TerminatorIsNext, Zenon
    <3>4. t.pos \in Nat /\ Len(s) \in Nat
      BY <3>1 DEF StandsAt
    <3> QED  BY <2>5, <3>1, <3>2, <3>3, <3>4
  <2>7. PICK u : u = Taken(s)[n + 1]
    OBVIOUS
  <2>8. u.pos = e /\ u.msgs = Append(t.msgs, m)
    <3>1. Taken(s)[n + 1] = WithMessage(t, Terminator, m)
      BY <2>3, <2>4, RecordGoesOn, ZenonT(60)
    <3>2. Terminator # 0
      BY <2>3, <2>5, <2>6 DEF StandsAt
    <3>3. u = [pos |-> e, msgs |-> Append(t.msgs, m)]
      BY <2>5, <2>7, <3>1, <3>2, Zenon DEF WithMessage
    <3> QED  BY <3>3
  <2>9. data = Holds(s) /\ Len(s) <= Size /\ Len(s) \in Nat /\ Size \in Nat /\ t.pos \in Nat
    BY <2>6, BufferAssumption DEF StandsAt
  <2>10. \/ start' = e + 1 /\ data' = data
         \/ start' = 0 /\ data' = Zero /\ e = Len(s)
    <3>1. CASE e < Size
      <4>0. PICK p : p = t.pos + 1
        OBVIOUS
      <4>1. p \in Nat /\ e \in Nat /\ Slash = p /\ Begin = p /\ Size \in Nat
        BY <2>6, <2>9, <4>0
      <4>2. Terminator - Slash + 1 < Size - Begin + 1
        BY <2>5, <3>1, <4>1
      <4> QED  BY <2>5, <4>2 DEF AfterMessage
    <3>2. CASE ~(e < Size)
      <4>0. e \in Nat /\ e = Size /\ e = Len(s)
        BY <2>6, <2>9, <3>2
      <4>1. ~(Terminator - Slash + 1 < Size - Begin + 1) /\ e = Len(s)
        BY <2>5, <2>6, <2>9, <4>0
      <4> QED  BY <4>1 DEF AfterMessage
    <3> QED  BY <3>1, <3>2
  <2>11. got[r] = t.msgs
    BY <1>2, <2>3, Zenon DEF Takes
  <2>12. IsAt(s, n + 1)'
    <3>1. got'[Len(got')] = u.msgs
      BY <1>4, <2>8, <2>11
    <3>2. \/ start' = u.pos + 1 /\ data' = Holds(s)
          \/ start' = 0 /\ data' = Zero /\ u.pos = Len(s)
      BY <2>8, <2>9, <2>10
    <3>3. n + 1 <= u.pos
      BY <2>6, <2>8
    <3> QED  BY <2>7, <3>1, <3>2, <3>3, Zenon DEF IsAt
  <2>13. data'[Size] = Nul
    <3>1. Zero[Size] = Nul
      BY BufferAssumption DEF Zero
    <3> QED  BY <2>2, <2>10, <3>1
  <2>14. \A i \in DOMAIN stream' : i < Len(stream') \/ pc' # "get" => BatchIsTaken(i)'
    <3>1. \A i \in 1 .. r : i \in Nat /\ (i < r \/ i = r)
      BY <1>3
    <3>2. logins >= logins
      BY <1>2
    <3>3. \A i \in 1 .. r : i < r => BatchIsTaken(i)'
      BY <1>2, <1>4, <2>2, <3>1, <3>2, BatchStays, Zenon
    <3>4. ASSUME pc' # "get" PROVE BatchIsTaken(r)'
      <4>1. MayStop(m)
        BY <3>4 DEF Stops, GoesOn
      <4>2. /\ got[r] \in Seq(Seq(Byte)) /\ got'[r] # <<>> /\ Last(got'[r]) = m
        <5>1. got[r] \in Seq(Seq(Byte))
          BY <1>2, <1>3, ElementOfSeq
        <5>2. PICK g : g = got[r]
          OBVIOUS
        <5>3. Append(g, m) # <<>> /\ Last(Append(g, m)) = m
          BY <5>1, <5>2, LastOfAppend, Zenon
        <5> QED  BY <1>4, <5>1, <5>2, <5>3, Zenon
      <4>3. r <= logins \/ (owner = "server" /\ Last(got'[r])[2] \in {"m", "q"})
        <5>1. logins = r => r <= logins
          BY <1>3
        <5> QED  BY <1>0, <4>1, <4>2, <5>1, Zenon DEF MayStop
      <4>4. StopsEarly(r)'
        BY <1>2, <4>2, <4>3 DEF StopsEarly, Last
      <4>5. s = stream[r] /\ s \in Seq(Byte)
        BY <1>1, <1>2, <2>3, LastRecord
      <4>6. IsPrefix(Taken(s)[n + 1].msgs, MessagesOf(s))
        BY <2>6, <4>5, TakenGrows, Zenon
      <4>7. got'[r] = Taken(s)[n + 1].msgs
        BY <1>4, <2>7, <2>8, <2>11
      <4>8. MessagesOf(stream'[r]) = MessagesOf(s)
        BY <1>2, <4>5
      <4>9. IsPrefix(got'[r], MessagesOf(stream'[r]))
        BY <4>6, <4>7, <4>8, Zenon
      <4> QED  BY <4>4, <4>9, Zenon DEF BatchIsTaken
    <3> QED  BY <1>1, <1>2, <1>3, <3>1, <3>3, <3>4, Zenon
  <2>15. Last(stream)' = s
    BY <1>2, <2>3 DEF Last
  <2>16. (\E k \in 0 .. Len(Last(stream)) : IsAt(Last(stream), k))'
    BY <2>6, <2>12, <2>15, Zenon
  <2> QED  BY <1>2, <1>7, <2>2, <2>13, <2>14, <2>16 DEF RecordsAreTaken
<1> QED
  BY <1>5, <1>6, Zenon DEF BufferIsFramed

\* Taking messages out, whichever way C2HMessage_get ends.
LEMMA GetKeepsFraming ==
  ASSUME TypeOK, BufferIsFramed, Get
  PROVE  BufferIsFramed'
<1>0. pc = "get"
  BY DEF Get, Get_NoSlash, Get_Partial, Get_PastEnd, Get_Message
<1>1. Zero[Size] = Nul
  BY BufferAssumption DEF Zero
<1>2. CASE Get_NoSlash
  <2>1. NoMessage /\ data' = Zero /\ Slash = 0
    BY <1>2 DEF Get_NoSlash
  <2>2. ASSUME RecordsFit
        PROVE  MessagesOf(Last(stream)) = got[Len(got)] /\ data'[Size] = Nul
    <3>1. PICK s, n, t : s = Last(stream) /\ Takes(s, n, t)
      BY <1>0, <2>2, RecordIsTaken, Zenon
    <3>2. t.pos = Len(s)
      <4>1. SUFFICES ASSUME t.pos # Len(s) PROVE FALSE
        OBVIOUS
      <4>2. StandsAt(s, t.pos)
        BY <3>1, <4>1 DEF Takes
      <4>3. Slash = t.pos + 1 /\ t.pos \in Nat
        BY <4>1, <4>2, SlashIsNext DEF StandsAt
      <4> QED  BY <2>1, <4>3
    <3>3. MessagesOf(s) = t.msgs
      BY <3>1, <3>2, RecordEnds, Zenon
    <3> QED  BY <1>1, <2>1, <3>1, <3>3, Zenon DEF Takes
  <2> QED  BY <1>0, <2>1, <2>2, EndKeepsFraming
<1>3. CASE (Get_Partial \/ Get_PastEnd) /\ RecordsFit
  <2>1. Slash # 0 /\ Terminator = 0
    BY <1>3 DEF Get_Partial, Get_PastEnd
  <2>2. PICK s, n, t : s = Last(stream) /\ Takes(s, n, t)
    BY <1>0, <1>3, RecordIsTaken, Zenon
  <2>3. t.pos # Len(s)
    BY <2>1, <2>2, RecordEnds, Zenon
  <2>4. StandsAt(s, t.pos)
    BY <2>2, <2>3 DEF Takes
  <2>5. Terminator \in t.pos + 1 .. Len(s) /\ t.pos \in Nat
    BY <2>3, <2>4, TerminatorIsNext DEF StandsAt
  <2> QED  BY <2>1, <2>5
<1>4. CASE (Get_Partial \/ Get_PastEnd) /\ ~RecordsFit
  <2>1. stream' = stream /\ got' = got /\ pc' # "get" /\ login' = login /\ logins' = logins
    BY <1>4 DEF Get_Partial, Get_PastEnd, NoMessage
  <2>2. ~RecordsFit'
    BY <1>4, <2>1 DEF RecordsFit
  <2>3. BatchPerRecord'
    BY <2>1 DEF BufferIsFramed, BatchPerRecord
  <2> QED  BY <2>2, <2>3, Zenon DEF BufferIsFramed
<1>5. CASE Get_Message
  <2>1. PICK m : m = SubSeq(data, Slash, Terminator - 1)
    OBVIOUS
  <2>2. /\ Slash # 0 /\ AfterMessage
        /\ IF Unknown(m) THEN NoMessage
           ELSE /\ got' = [got EXCEPT ![Len(got)] = Append(@, m)]
                /\ \/ MayStop(m) /\ pc' \in AfterStop(m) /\ login' \in {login, FALSE}
                   \/ MayGoOn(m) /\ pc' = "get" /\ login' = login
                /\ UNCHANGED <<owner, incoming, reads, logins, stream>>
    BY <1>5, <2>1, Zenon DEF Get_Message
  <2>3. CASE Unknown(m)
    <3>1. NoMessage
      BY <2>2, <2>3
    <3>2. ASSUME RecordsFit
          PROVE  MessagesOf(Last(stream)) = got[Len(got)] /\ data'[Size] = Nul
      <4>1. PICK s, n, t : s = Last(stream) /\ Takes(s, n, t)
        BY <1>0, <3>2, RecordIsTaken, Zenon
      <4>2. t.pos # Len(s)
        BY <2>2, <4>1, RecordEnds, Zenon
      <4>3. MessagesOf(s) = t.msgs
        BY <2>1, <2>3, <4>1, <4>2, RecordGoesOn, Zenon
      <4>4. data[Size] = Nul
        BY <3>2 DEF BufferIsFramed, RecordsAreTaken
      <4>5. data'[Size] = Nul
        BY <1>1, <2>2, <4>4 DEF AfterMessage
      <4> QED  BY <4>1, <4>3, <4>5, Zenon DEF Takes
    <3> QED  BY <1>0, <3>1, <3>2, EndKeepsFraming
  <2>4. CASE ~Unknown(m)
    <3>1. Stops(m) \/ GoesOn
      BY <2>2, <2>4 DEF Stops, GoesOn, AfterStop
    <3> QED  BY <1>0, <2>1, <2>2, <2>4, <3>1, MessageKeepsFraming, Zenon
  <2> QED  BY <2>3, <2>4
<1> QED
  BY <1>2, <1>3, <1>4, <1>5, Zenon DEF Get

\* Behind a record that fits, nothing is left to read and nothing to move to the
\* front of the buffer: the next record finds it clear, whatever was taken out.
THEOREM FramingInvariantHolds == Spec => []BufferIsFramed
<1>1. Init => BufferIsFramed
  <2>1. SUFFICES ASSUME Init PROVE BufferIsFramed
    OBVIOUS
  <2>2. stream = <<>> /\ got = <<>> /\ pc = "receive" /\ incoming = <<>> /\ data[Size] = Nul
    BY <2>1, BufferAssumption DEF Init, Zero
  <2>3. DOMAIN stream = {} /\ Len(got) = Len(stream) /\ logins = Len(stream)
    BY <2>1, <2>2 DEF Init
  <2> QED  BY <2>2, <2>3 DEF BufferIsFramed, BatchPerRecord, RecordsAreTaken
<1>2. TypeOK /\ BufferIsFramed /\ [Next]_vars => BufferIsFramed'
  <2> SUFFICES ASSUME TypeOK, BufferIsFramed, [Next]_vars PROVE BufferIsFramed'
    OBVIOUS
  <2>1. CASE ReceiveNext
    BY <2>1, ReceiveKeepsFraming
  <2>2. CASE ReceiveRest
    <3>1. /\ incoming # <<>> /\ stream' = stream /\ got' = got /\ pc = "receive" /\ pc' = "get"
          /\ login' = login /\ logins' = logins
      BY <2>2 DEF ReceiveRest, Receive
    <3>2. ~RecordsFit
      BY <3>1 DEF BufferIsFramed, RecordsAreTaken
    <3>3. ~RecordsFit'
      BY <3>1, <3>2 DEF RecordsFit
    <3>4. BatchPerRecord'
      <4>1. stream # <<>>
        BY <3>2, EmptySeq DEF RecordsFit
      <4> QED  BY <3>1, <4>1 DEF BufferIsFramed, BatchPerRecord
    <3> QED  BY <3>3, <3>4, Zenon DEF BufferIsFramed
  <2>3. CASE ReceiveNothing
    <3>1. /\ stream' = stream /\ got' = got /\ pc = "receive" /\ pc' = "closed"
          /\ incoming' = incoming /\ data' = Prepared.data
          /\ owner' = owner /\ login' = login /\ logins' = logins
      BY <2>3 DEF ReceiveNothing
    <3>2. BatchPerRecord'
      BY <3>1 DEF BufferIsFramed, BatchPerRecord
    <3>3. ASSUME RecordsFit' PROVE RecordsAreTaken'
      <4>1. RecordsFit
        BY <3>1, <3>3 DEF RecordsFit
      <4>2. /\ incoming = <<>> /\ data[Size] = Nul
            /\ \A i \in DOMAIN stream : BatchIsTaken(i)
        BY <3>1, <4>1 DEF BufferIsFramed, RecordsAreTaken
      <4>3. Prepared = [start |-> 1, data |-> Zero]
        BY <4>2, Zenon DEF Prepared, Leftover
      <4>4. data'[Size] = Nul
        BY <3>1, <4>3, BufferAssumption DEF Zero
      <4>5. logins \in Nat /\ logins >= logins /\ \A i \in DOMAIN stream : i \in Nat
        BY DEF TypeOK
      <4>6. \A i \in DOMAIN stream' : BatchIsTaken(i)'
        BY <3>1, <4>2, <4>5, BatchStays, Zenon
      <4> QED  BY <3>1, <4>2, <4>4, <4>6 DEF RecordsAreTaken
    <3> QED  BY <3>2, <3>3, Zenon DEF BufferIsFramed
  <2>4. CASE Get
    BY <2>4, GetKeepsFraming
  <2>5. CASE UNCHANGED vars
    BY <2>5 DEF vars, buffer, BufferIsFramed, BatchPerRecord, RecordsFit, RecordsAreTaken,
                BatchIsTaken, StopsEarly, Last, IsAt, Zero, Holds
  <2> QED  BY <2>1, <2>2, <2>3, <2>4, <2>5 DEF Next
<1> QED
  BY <1>1, <1>2, BufferTypeCorrect, PTL DEF Spec

\* What Server_receive, Client_receive and C2HMessage_get do together: of each
\* record that is made of messages and has room in the buffer, the messages that it
\* holds are taken out, in order, once, up to one of unknown type or to the one at
\* which the owner stops: the first during the login, a broadcast or a /quit in the
\* server.  The loop of App_listen stops at none.
THEOREM MessagesAreFramed == Spec => []FramingIsExact
<1>1. TypeOK /\ BufferIsFramed => FramingIsExact
  <2> SUFFICES ASSUME TypeOK, BufferIsFramed, RecordsFit
               PROVE  /\ pc # "undefined"
                      /\ DOMAIN got = DOMAIN stream
                      /\ \A i \in DOMAIN stream :
                           /\ IsPrefix(got[i], MessagesOf(stream[i]))
                           /\ i < Len(stream) \/ pc # "get"
                                => got[i] = MessagesOf(stream[i]) \/ StopsEarly(i)
    BY Zenon DEF FramingIsExact
  <2>1. PICK r : r = Len(stream)
    OBVIOUS
  <2>2. r \in Nat /\ DOMAIN stream = 1 .. r /\ DOMAIN got = 1 .. r /\ Len(got) = r
    BY <2>1 DEF TypeOK, BufferIsFramed, BatchPerRecord
  <2>3. /\ pc # "undefined"
        /\ \A i \in DOMAIN stream :
             i < Len(stream) \/ pc # "get" => BatchIsTaken(i)
    BY DEF BufferIsFramed, RecordsAreTaken
  <2>4. ASSUME NEW i \in DOMAIN stream PROVE IsPrefix(got[i], MessagesOf(stream[i]))
    <3>1. stream[i] \in Seq(Byte) /\ i \in 1 .. r
      BY <2>2, BufferAssumption DEF TypeOK
    <3>2. CASE i < r \/ pc # "get"
      <4>1. PICK s : s = stream[i]
        OBVIOUS
      <4>2. BatchIsTaken(i) /\ s \in Seq(Byte) /\ Len(s) \in 0 .. Len(s)
        BY <2>1, <2>3, <3>1, <3>2, <4>1
      <4>3. IsPrefix(Taken(s)[Len(s)].msgs, MessagesOf(s))
        BY <4>2, TakenGrows, Zenon
      <4> QED  BY <4>1, <4>2, <4>3, Zenon DEF BatchIsTaken, MessagesOf
    <3>3. CASE ~(i < r) /\ pc = "get"
      <4>1. i = r /\ stream # <<>>
        BY <2>2, <3>1, <3>3 DEF BufferIsFramed, BatchPerRecord
      <4>2. PICK s, n, t : s = Last(stream) /\ Takes(s, n, t)
        BY <3>3, RecordIsTaken, Zenon
      <4>3. s = stream[i]
        BY <2>1, <4>1, <4>2, LastRecord
      <4>4. got[i] = t.msgs /\ t = Taken(s)[n] /\ s \in Seq(Byte) /\ n \in 0 .. Len(s)
        BY <2>2, <4>1, <4>2, Zenon DEF Takes
      <4>5. IsPrefix(Taken(s)[n].msgs, MessagesOf(s))
        BY <4>4, TakenGrows, Zenon
      <4> QED  BY <4>3, <4>4, <4>5, Zenon
    <3> QED  BY <3>2, <3>3
  <2>5. \A i \in DOMAIN stream :
          i < Len(stream) \/ pc # "get" => got[i] = MessagesOf(stream[i]) \/ StopsEarly(i)
    BY <2>3, Zenon DEF BatchIsTaken
  <2> QED  BY <2>2, <2>3, <2>4, <2>5, Zenon
<1> QED
  BY <1>1, BufferTypeCorrect, FramingInvariantHolds, PTL
=============================================================================
