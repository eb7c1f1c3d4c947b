-------------------------- MODULE MessageTextProofs --------------------------
(* Theorems about the text of a message on its way through MessageText, for  *)
(* every text, every nickname and every size of the buffers.                 *)
EXTENDS MessageText, SequenceTheorems, WellFoundedInduction, TLAPS

-----------------------------------------------------------------------------
(* Smallest and largest numbers of a set. *)

\* Min() of a set of natural numbers is its smallest member.
LEMMA SmallestOf ==
  ASSUME NEW S, S \subseteq Nat, S # {}
  PROVE  Min(S) \in S /\ \A y \in S : Min(S) <= y
<1>1. PICK x \in S : \A y \in S : ~(<<y, x>> \in OpToRel(<, Nat))
  BY NatLessThanWellFounded, WFMin
<1>2. \A y \in S : <<y, x>> \in Nat \X Nat
  OBVIOUS
<1>3. \A y \in S : ~(<<y, x>>[1] < <<y, x>>[2])
  BY <1>1, <1>2, Zenon DEF OpToRel
<1>4. \A y \in S : x <= y
  BY <1>3
<1> QED
  BY <1>4, Zenon DEF Min

\* Min() of the positions of a set is the one before which there is none.
LEMMA SmallestIs ==
  ASSUME NEW S, S \subseteq Nat, NEW a \in S, \A y \in S : a <= y
  PROVE  Min(S) = a
<1>1. PICK m \in S : m = Min(S) /\ \A y \in S : m <= y
  BY SmallestOf, Zenon
<1> QED
  BY <1>1

\* Max() of the positions of a set is the one behind which there is none.
LEMMA LargestIs ==
  ASSUME NEW S, S \subseteq Nat, NEW b \in S, \A y \in S : y <= b
  PROVE  Max(S) = b
<1>1. \E x \in S : \A y \in S : x >= y
  OBVIOUS
<1>2. PICK m \in S : m = Max(S) /\ \A y \in S : m >= y
  BY <1>1, Zenon DEF Max
<1> QED
  BY <1>2

\* A set of positions that is not empty has a last one.
LEMMA LargestExists ==
  ASSUME NEW n \in Nat, NEW S, S \subseteq 1 .. n, S # {}
  PROVE  \E b \in S : \A y \in S : y <= b
<1> DEFINE D == {n - y : y \in S}
<1>0. \A y \in S : y \in 1 .. n
  OBVIOUS
<1>1. D \subseteq Nat /\ D # {}
  <2>1. \A y \in S : n - y \in Nat
    BY <1>0
  <2> QED  BY <2>1, Zenon
<1>2. PICK d \in D : \A e \in D : d <= e
  BY <1>1, SmallestOf, Zenon
<1>3. PICK b \in S : d = n - b
  OBVIOUS
<1>4. \A y \in S : n - b <= n - y
  BY <1>2, <1>3
<1> QED
  BY <1>4

\* The smaller of two numbers.
LEMMA SmallerOfTwo ==
  ASSUME NEW a \in Int, NEW b \in Int
  PROVE  Min({a, b}) = IF a <= b THEN a ELSE b
<1>1. \E m \in {a, b} : \A n \in {a, b} : m <= n
  OBVIOUS
<1>2. Min({a, b}) \in {a, b} /\ \A n \in {a, b} : Min({a, b}) <= n
  BY <1>1, Zenon DEF Min
<1> QED
  BY <1>2

-----------------------------------------------------------------------------
(* Strings. *)

\* Brackets, spaces and types are characters.
LEMMA CharacterTypes ==
  /\ "[" \in Char /\ "]" \in Char /\ Space \in Char /\ "/msg" \in Char
  /\ MessageTypes \subseteq Char
<1>1. "/msg" \in MessageTypes
  BY DEF MessageTypes
<1> QED
  BY <1>1, CharAssumption, Zenon

\* A bracket is not a space, nor a type.
LEMMA CharactersDiffer ==
  /\ "[" # Space /\ "]" # Space /\ "/msg" # Space
  /\ "[" # "/msg" /\ Null \notin MessageTypes
  BY Zenon DEF Space, MessageTypes, Null

\* Strings of one and of two characters.
LEMMA ShortStrings ==
  ASSUME NEW a \in Char, NEW b \in Char
  PROVE  /\ <<a>> \in Seq(Char) /\ Len(<<a>>) = 1 /\ <<a>>[1] = a
         /\ <<a, b>> \in Seq(Char) /\ Len(<<a, b>>) = 2
         /\ <<a, b>>[1] = a /\ <<a, b>>[2] = b
  OBVIOUS

\* A part of a string is a string.
LEMMA PartOf ==
  ASSUME NEW s \in Seq(Char), NEW m \in Nat \ {0}, NEW n \in 0 .. Len(s)
  PROVE  /\ SubSeq(s, m, n) \in Seq(Char)
         /\ Len(SubSeq(s, m, n)) = IF m <= n THEN (n - m) + 1 ELSE 0
         /\ \A i \in 1 .. Len(SubSeq(s, m, n)) : SubSeq(s, m, n)[i] = s[(m + i) - 1]
<1>1. m \in Int /\ n \in Int /\ \A i \in m .. n : s[i] \in Char
  OBVIOUS
<1>2. /\ SubSeq(s, m, n) \in Seq(Char)
      /\ Len(SubSeq(s, m, n)) = IF m <= n THEN n - m + 1 ELSE 0
      /\ \A i \in 1 .. n - m + 1 : SubSeq(s, m, n)[i] = s[m + i - 1]
  BY <1>1, SubSeqProperties
<1> QED
  BY <1>1, <1>2

\* Two strings with the same characters are the same.
LEMMA SameString ==
  ASSUME NEW s \in Seq(Char), NEW t \in Seq(Char), Len(s) = Len(t),
         \A i \in 1 .. Len(s) : s[i] = t[i]
  PROVE  s = t
  BY SeqEqual, Zenon

\* snprintf() keeps as many characters as have room, from the first on.
LEMMA TruncateProperties ==
  ASSUME NEW s \in Seq(Char)
  PROVE  /\ Truncate(s) \in Seq(Char)
         /\ Len(Truncate(s)) = IF Len(s) <= Size - 1 THEN Len(s) ELSE Size - 1
         /\ \A i \in 1 .. Len(Truncate(s)) : Truncate(s)[i] = s[i]
<1> DEFINE n == IF Len(s) <= Size - 1 THEN Len(s) ELSE Size - 1
<1>1. Len(s) \in Nat /\ Size \in Nat /\ Size > 6
  BY NickAssumption
<1>2. n \in 0 .. Len(s) /\ 1 \in Nat \ {0}
  BY <1>1
<1>3. Truncate(s) = SubSeq(s, 1, n)
  BY <1>1, SmallerOfTwo DEF Truncate
<1>4. /\ SubSeq(s, 1, n) \in Seq(Char)
      /\ Len(SubSeq(s, 1, n)) = IF 1 <= n THEN (n - 1) + 1 ELSE 0
      /\ \A i \in 1 .. Len(SubSeq(s, 1, n)) : SubSeq(s, 1, n)[i] = s[(1 + i) - 1]
  <2> HIDE DEF n
  <2> QED  BY <1>2, PartOf
<1> HIDE DEF n
<1>5. /\ Truncate(s) \in Seq(Char) /\ Len(Truncate(s)) = n
      /\ \A i \in 1 .. Len(Truncate(s)) : Truncate(s)[i] = s[i]
  BY <1>2, <1>3, <1>4
<1> QED
  BY <1>5 DEF n

\* The part of s that begins and ends with the first and the last character
\* that is no space.
IsSpan(s, a, b) ==
  /\ a \in 1 .. Len(s) /\ b \in a .. Len(s)
  /\ s[a] # Space /\ s[b] # Space
  /\ \A i \in 1 .. Len(s) : i < a \/ i > b => s[i] = Space

\* The two trims keep that part.
LEMMA TrimIsSpan ==
  ASSUME NEW s \in Seq(Char), NEW a, NEW b, IsSpan(s, a, b)
  PROVE  Trim(s) = SubSeq(s, a, b)
<1> DEFINE text == {i \in DOMAIN s : s[i] # Space}
           r == RTrim(s)
           first == {i \in 1 .. Len(r) : r[i] # Space}
<1>1. /\ a \in Nat \ {0} /\ b \in Nat /\ a <= b /\ b <= Len(s) /\ Len(s) \in Nat
      /\ a \in 1 .. Len(s) /\ b \in 1 .. Len(s) /\ b \in 0 .. Len(s)
      /\ DOMAIN s = 1 .. Len(s)
  BY DEF IsSpan
<1>2. text \subseteq Nat /\ b \in text /\ text # {} /\ \A y \in text : y <= b
  BY <1>1 DEF IsSpan
<1>3. Max(text) = b
  <2> HIDE DEF text
  <2> QED  BY <1>2, LargestIs, Zenon
<1>4. r = SubSeq(s, 1, b)
  BY <1>2, <1>3, Zenon DEF RTrim
<1>5. /\ r \in Seq(Char) /\ Len(r) = b
      /\ \A i \in 1 .. Len(r) : r[i] = s[i]
  <2>1. /\ SubSeq(s, 1, b) \in Seq(Char)
        /\ Len(SubSeq(s, 1, b)) = IF 1 <= b THEN (b - 1) + 1 ELSE 0
        /\ \A i \in 1 .. Len(SubSeq(s, 1, b)) : SubSeq(s, 1, b)[i] = s[(1 + i) - 1]
    BY <1>1, PartOf
  <2> HIDE DEF r
  <2> QED  BY <1>1, <1>4, <2>1
<1>6. first \subseteq Nat /\ a \in first /\ first # {} /\ \A y \in first : a <= y
  <2> HIDE DEF r
  <2> QED  BY <1>1, <1>5 DEF IsSpan
<1>7. Min(first) = a
  <2> HIDE DEF first
  <2> QED  BY <1>6, SmallestIs, Zenon
<1>8. SelectInSeq(r, LAMBDA c : c # Space) = a
  <2>1. SelectInSeq(r, LAMBDA c : c # Space) = IF first # {} THEN Min(first) ELSE 0
    BY Zenon DEF SelectInSeq
  <2> QED  BY <2>1, <1>6, <1>7, Zenon
<1>9. LTrim(r) = SubSeq(r, a, Len(r))
  <2>1. a # 0
    BY <1>1
  <2> HIDE DEF r
  <2> QED  BY <2>1, <1>8, Zenon DEF LTrim
<1>10. SubSeq(r, a, b) = SubSeq(s, a, b)
  <2> HIDE DEF r
  <2>1. /\ SubSeq(s, a, b) \in Seq(Char)
        /\ Len(SubSeq(s, a, b)) = IF a <= b THEN (b - a) + 1 ELSE 0
        /\ \A i \in 1 .. Len(SubSeq(s, a, b)) : SubSeq(s, a, b)[i] = s[(a + i) - 1]
    BY <1>1, PartOf
  <2>2. b \in 0 .. Len(r)
    BY <1>1, <1>5
  <2>3. /\ SubSeq(r, a, b) \in Seq(Char)
        /\ Len(SubSeq(r, a, b)) = IF a <= b THEN (b - a) + 1 ELSE 0
        /\ \A i \in 1 .. Len(SubSeq(r, a, b)) : SubSeq(r, a, b)[i] = r[(a + i) - 1]
    BY <1>1, <1>5, <2>2, PartOf
  <2>4. \A i \in 1 .. Len(SubSeq(r, a, b)) : (a + i) - 1 \in 1 .. Len(r)
    BY <1>1, <1>5, <2>3
  <2>5. \A i \in 1 .. Len(SubSeq(r, a, b)) : SubSeq(r, a, b)[i] = SubSeq(s, a, b)[i]
    BY <1>5, <2>1, <2>3, <2>4
  <2>6. Len(SubSeq(r, a, b)) = Len(SubSeq(s, a, b))
    BY <2>1, <2>3
  <2> QED  BY <2>1, <2>3, <2>5, <2>6, SameString, Zenon
<1> QED
  BY <1>5, <1>9, <1>10, Zenon DEF Trim

\* A blank string is trimmed to nothing.
LEMMA TrimOfBlank ==
  ASSUME NEW s \in Seq(Char), \A i \in 1 .. Len(s) : s[i] = Space
  PROVE  Trim(s) = <<>>
<1>1. {i \in DOMAIN s : s[i] # Space} = {}
  OBVIOUS
<1>2. RTrim(s) = <<>>
  BY <1>1, Zenon DEF RTrim
<1>3. {i \in 1 .. Len(<<>>) : <<>>[i] # Space} = {}
  OBVIOUS
<1>4. SelectInSeq(<<>>, LAMBDA c : c # Space) = 0
  BY <1>3, Zenon DEF SelectInSeq
<1>5. LTrim(<<>>) = <<>>
  BY <1>4, Zenon DEF LTrim
<1> QED
  BY <1>2, <1>5, Zenon DEF Trim

\* A string is blank, or there is something in it to keep.
LEMMA SpanExists ==
  ASSUME NEW s \in Seq(Char)
  PROVE  \/ \A i \in 1 .. Len(s) : s[i] = Space
         \/ \E a, b : IsSpan(s, a, b)
<1> DEFINE text == {i \in 1 .. Len(s) : s[i] # Space}
<1>1. CASE text = {}
  BY <1>1
<1>2. CASE text # {}
  <2>1. Len(s) \in Nat /\ text \subseteq 1 .. Len(s) /\ text \subseteq Nat
    OBVIOUS
  <2>2. PICK b \in text : \A y \in text : y <= b
    <3> HIDE DEF text
    <3> QED  BY <1>2, <2>1, LargestExists, Zenon
  <2>3. PICK a \in text : \A y \in text : a <= y
    <3> HIDE DEF text
    <3> QED  BY <1>2, <2>1, SmallestOf, Zenon
  <2>4. IsSpan(s, a, b)
    BY <2>1, <2>2, <2>3 DEF IsSpan
  <2> QED  BY <2>4, Zenon
<1> QED
  BY <1>1, <1>2, Zenon

\* What is kept is a part of the string, without spaces at its ends.
LEMMA TrimProperties ==
  ASSUME NEW s \in Seq(Char)
  PROVE  /\ Trim(s) \in Seq(Char) /\ Len(Trim(s)) <= Len(s)
         /\ Trim(s) # <<>> =>
              Len(Trim(s)) >= 1 /\ Trim(s)[1] # Space /\ Trim(s)[Len(Trim(s))] # Space
         /\ \A i \in 1 .. Len(Trim(s)) : \E j \in 1 .. Len(s) : Trim(s)[i] = s[j]
<1>1. CASE \A i \in 1 .. Len(s) : s[i] = Space
  <2>1. Trim(s) = <<>>
    BY <1>1, TrimOfBlank
  <2> QED  BY <2>1
<1>2. CASE \E a, b : IsSpan(s, a, b)
  <2>1. PICK a, b : IsSpan(s, a, b)
    BY <1>2
  <2>2. PICK t : t = Trim(s)
    OBVIOUS
  <2>3. t = SubSeq(s, a, b)
    BY <2>1, <2>2, TrimIsSpan, Zenon
  <2>4. /\ a \in Nat \ {0} /\ b \in 0 .. Len(s) /\ a <= b /\ Len(s) \in Nat
        /\ s[a] # Space /\ s[b] # Space
    BY <2>1 DEF IsSpan
  <2>5. /\ t \in Seq(Char) /\ Len(t) = IF a <= b THEN (b - a) + 1 ELSE 0
        /\ \A i \in 1 .. Len(t) : t[i] = s[(a + i) - 1]
    BY <2>3, <2>4, PartOf
  <2>6. Len(t) = (b - a) + 1 /\ Len(t) >= 1 /\ Len(t) <= Len(s)
    BY <2>4, <2>5
  <2>7. 1 \in 1 .. Len(t) /\ Len(t) \in 1 .. Len(t) /\ (a + 1) - 1 = a /\ (a + Len(t)) - 1 = b
    BY <2>4, <2>6
  <2>8. t[1] = s[a] /\ t[Len(t)] = s[b]
    BY <2>5, <2>7
  <2>9. \A i \in 1 .. Len(t) : (a + i) - 1 \in 1 .. Len(s)
    BY <2>4, <2>6
  <2> QED  BY <2>2, <2>4, <2>5, <2>6, <2>8, <2>9
<1> QED
  BY <1>1, <1>2, SpanExists

\* A string without spaces at its ends stays as it is.
LEMMA TrimOfTrimmed ==
  ASSUME NEW s \in Seq(Char), Len(s) >= 1, s[1] # Space, s[Len(s)] # Space
  PROVE  Trim(s) = s
<1>1. IsSpan(s, 1, Len(s))
  BY DEF IsSpan
<1>2. Trim(s) = SubSeq(s, 1, Len(s))
  BY <1>1, TrimIsSpan
<1> QED
  BY <1>2, SubSeqFull

\* The part of a string behind a user.
LEMMA BehindUserProperties ==
  ASSUME NEW s \in Seq(Char), NEW user \in Seq(Char)
  PROVE  /\ BehindUser(s, user) \in Seq(Char)
         /\ Len(BehindUser(s, user)) <= Len(s)
         /\ user # <<>> =>
              /\ Len(BehindUser(s, user)) =
                   IF Len(user) + 4 <= Len(s) THEN (Len(s) - Len(user)) - 3 ELSE 0
              /\ \A i \in 1 .. Len(BehindUser(s, user)) :
                   BehindUser(s, user)[i] = s[Len(user) + 3 + i]
<1>1. CASE user = <<>>
  BY <1>1 DEF BehindUser
<1>2. CASE user # <<>>
  <2>1. PICK t : t = BehindUser(s, user)
    OBVIOUS
  <2>2. PICK m : m = Len(user) + 4
    OBVIOUS
  <2>3. PICK n : n = Len(s)
    OBVIOUS
  <2>4. t = SubSeq(s, m, n)
    BY <1>2, <2>1, <2>2, <2>3, Zenon DEF BehindUser
  <2>5. m \in Nat \ {0} /\ n \in 0 .. Len(s) /\ Len(user) \in Nat /\ Len(s) \in Nat
    BY <2>2, <2>3
  <2>6. /\ t \in Seq(Char) /\ Len(t) = IF m <= n THEN (n - m) + 1 ELSE 0
        /\ \A i \in 1 .. Len(t) : t[i] = s[(m + i) - 1]
    BY <2>4, <2>5, PartOf
  <2>7. \A i \in 1 .. Len(t) : (m + i) - 1 = Len(user) + 3 + i
    BY <2>2, <2>5, <2>6
  <2>8. Len(t) = IF Len(user) + 4 <= Len(s) THEN (Len(s) - Len(user)) - 3 ELSE 0
    BY <2>2, <2>3, <2>5, <2>6
  <2>9. Len(t) <= Len(s)
    BY <2>5, <2>8
  <2>10. \A i \in 1 .. Len(t) : t[i] = s[Len(user) + 3 + i]
    BY <2>6, <2>7
  <2> QED  BY <2>1, <2>6, <2>8, <2>9, <2>10, Zenon
<1> QED
  BY <1>1, <1>2

-----------------------------------------------------------------------------
(* The user of a string. *)

\* The position of the first ch from a position on, or 0.
FirstFrom(s, from, ch) ==
  LET I == {i \in from .. Len(s) : s[i] = ch}
  IN  IF I # {} THEN Min(I) ELSE 0

\* The brackets that Message_getUser() looks for.
LEMMA UserIs ==
  ASSUME NEW s, NEW type, NEW open, NEW close,
         open = FirstFrom(s, 1, "["), close = FirstFrom(s, open + 1, "]")
  PROVE  Message_getUser(s, type) =
           IF /\ type \in {"/msg", "/log"}
              /\ open # 0 /\ close # 0
              /\ close - open - 1 \in 1 .. MaxNick
           THEN SubSeq(s, open + 1, close - 1) ELSE <<>>
  BY Zenon DEF Message_getUser, SelectInSeq, SelectInSubSeq, FirstFrom

\* The first character of a kind in a part of a string.
LEMMA FirstIs ==
  ASSUME NEW s \in Seq(Char), NEW from \in Nat, NEW k \in from .. Len(s), NEW ch,
         s[k] = ch, \A i \in from .. Len(s) : i < k => s[i] # ch
  PROVE  FirstFrom(s, from, ch) = k
<1> DEFINE I == {i \in from .. Len(s) : s[i] = ch}
<1>1. FirstFrom(s, from, ch) = IF I # {} THEN Min(I) ELSE 0
  BY Zenon DEF FirstFrom
<1>2. I \subseteq Nat /\ k \in I /\ I # {} /\ \A y \in I : k <= y
  OBVIOUS
<1>3. Min(I) = k
  <2> HIDE DEF I
  <2> QED  BY <1>2, SmallestIs, Zenon
<1> QED
  BY <1>1, <1>2, <1>3, Zenon

\* A position that is found is one of those looked at.
LEMMA FoundIsMember ==
  ASSUME NEW s \in Seq(Char), NEW from \in Nat, NEW ch
  PROVE  \/ FirstFrom(s, from, ch) = 0
         \/ FirstFrom(s, from, ch) \in from .. Len(s)
<1> DEFINE I == {i \in from .. Len(s) : s[i] = ch}
<1>1. FirstFrom(s, from, ch) = IF I # {} THEN Min(I) ELSE 0
  BY Zenon DEF FirstFrom
<1>2. I \subseteq Nat /\ I \subseteq from .. Len(s)
  OBVIOUS
<1>3. I # {} => Min(I) \in I
  <2> HIDE DEF I
  <2> QED  BY <1>2, SmallestOf, Zenon
<1> QED
  BY <1>1, <1>2, <1>3, Zenon

\* The user has room in the field of the message.
LEMMA UserProperties ==
  ASSUME NEW s \in Seq(Char), NEW type
  PROVE  Message_getUser(s, type) \in Seq(Char) /\ Len(Message_getUser(s, type)) <= MaxNick
<1>1. PICK open : open = FirstFrom(s, 1, "[")
  OBVIOUS
<1>2. PICK close : close = FirstFrom(s, open + 1, "]")
  OBVIOUS
<1>3. PICK u : u = Message_getUser(s, type)
  OBVIOUS
<1>4. u = IF /\ type \in {"/msg", "/log"}
             /\ open # 0 /\ close # 0
             /\ close - open - 1 \in 1 .. MaxNick
          THEN SubSeq(s, open + 1, close - 1) ELSE <<>>
  BY <1>1, <1>2, <1>3, UserIs, Zenon
<1>5. open = 0 \/ open \in 1 .. Len(s)
  <2>1. 1 \in Nat
    OBVIOUS
  <2> QED  BY <1>1, <2>1, FoundIsMember, Zenon
<1>6. open \in Nat /\ open + 1 \in Nat /\ MaxNick \in Nat /\ Len(s) \in Nat
  BY <1>5, NickAssumption
<1>7. close = 0 \/ close \in open + 1 .. Len(s)
  BY <1>2, <1>6, FoundIsMember, Zenon
<1>8. CASE open # 0 /\ close # 0 /\ close - open - 1 \in 1 .. MaxNick
  <2>1. open + 1 \in Nat \ {0} /\ close - 1 \in 0 .. Len(s)
    BY <1>5, <1>6, <1>7, <1>8
  <2>2. PICK m, n : m = open + 1 /\ n = close - 1
    OBVIOUS
  <2>3. /\ SubSeq(s, m, n) \in Seq(Char)
        /\ Len(SubSeq(s, m, n)) = IF m <= n THEN (n - m) + 1 ELSE 0
    BY <2>1, <2>2, PartOf
  <2>4. PICK t : t = SubSeq(s, m, n)
    OBVIOUS
  <2>5. t \in Seq(Char) /\ Len(t) <= MaxNick
    <3>1. (n - m) + 1 <= MaxNick /\ m \in Nat /\ n \in Nat
      BY <1>6, <1>7, <1>8, <2>1, <2>2
    <3> QED  BY <1>6, <2>3, <2>4, <3>1
  <2>6. u = t \/ u = <<>>
    BY <1>4, <2>2, <2>4, Zenon
  <2>7. <<>> \in Seq(Char) /\ Len(<<>>) <= MaxNick
    BY <1>6
  <2> QED  BY <1>3, <2>5, <2>6, <2>7, Zenon
<1>9. CASE ~(open # 0 /\ close # 0 /\ close - open - 1 \in 1 .. MaxNick)
  <2>1. u = <<>>
    BY <1>4, <1>9, Zenon
  <2> QED  BY <1>3, <1>6, <2>1
<1> QED
  BY <1>8, <1>9, Zenon

\* A string without an opening bracket has no user.
LEMMA NoUser ==
  ASSUME NEW s \in Seq(Char), NEW type, \A i \in 1 .. Len(s) : s[i] # "["
  PROVE  Message_getUser(s, type) = <<>>
<1>1. {i \in 1 .. Len(s) : s[i] = "["} = {}
  OBVIOUS
<1>2. FirstFrom(s, 1, "[") = 0
  BY <1>1, Zenon DEF FirstFrom
<1> QED
  BY <1>2, UserIs, Zenon

\* Nick in brackets from position k on, and no opening bracket before.
IsTagged(s, k) ==
  /\ k \in Nat \ {0} /\ k + Len(Nick) + 1 <= Len(s)
  /\ s[k] = "[" /\ s[k + Len(Nick) + 1] = "]"
  /\ \A i \in 1 .. Len(s) : i < k => s[i] # "["
  /\ \A i \in 1 .. Len(Nick) : s[k + i] = Nick[i]

\* There is no bracket and no space in a nickname.
LEMMA NickProperties ==
  /\ Nick \in Seq(Char) /\ Len(Nick) \in 1 .. MaxNick /\ Nick # <<>> /\ Len(Nick) # MaxNick
  /\ MaxNick \in Nat /\ Size \in Nat /\ Size > MaxNick + 6 /\ Len(Nick) \in Nat
  /\ \A i \in 1 .. Len(Nick) : Nick[i] # "[" /\ Nick[i] # "]" /\ Nick[i] # Space
<1>1. /\ Nick \in Seq(Char) /\ Len(Nick) \in 1 .. MaxNick /\ Len(Nick) # MaxNick
      /\ MaxNick \in Nat /\ Size \in Nat /\ Size > MaxNick + 6
      /\ Chars(Nick) \cap {"[", "]", Space} = {}
  BY NickAssumption
<1>2. \A i \in DOMAIN Nick : Nick[i] \in Chars(Nick)
  BY Zenon DEF Chars
<1>3. DOMAIN Nick = 1 .. Len(Nick) /\ Len(Nick) \in Nat /\ Nick # <<>>
  BY <1>1
<1>4. \A i \in 1 .. Len(Nick) : Nick[i] \notin {"[", "]", Space}
  BY <1>1, <1>2, <1>3, Zenon
<1> QED
  BY <1>1, <1>3, <1>4

\* The first word in brackets is Nick, and so is the user.
LEMMA TaggedUser ==
  ASSUME NEW s \in Seq(Char), NEW k, IsTagged(s, k)
  PROVE  Message_getUser(s, "/msg") = Nick
<1>1. PICK n : n = Len(Nick)
  OBVIOUS
<1>2. PICK e : e = k + n + 1
  OBVIOUS
<1>3. n \in 1 .. MaxNick /\ n \in Nat /\ MaxNick \in Nat /\ Nick \in Seq(Char)
  BY <1>1, NickProperties
<1>4. /\ k \in Nat /\ k >= 1 /\ e \in Nat /\ e <= Len(s) /\ Len(s) \in Nat
      /\ s[k] = "[" /\ s[e] = "]"
      /\ \A i \in 1 .. Len(s) : i < k => s[i] # "["
      /\ \A i \in 1 .. n : s[k + i] = Nick[i]
  BY <1>1, <1>2, <1>3 DEF IsTagged
<1>5. FirstFrom(s, 1, "[") = k
  <2>1. 1 \in Nat /\ k \in 1 .. Len(s)
    BY <1>2, <1>3, <1>4
  <2> QED  BY <1>4, <2>1, FirstIs
<1>6. FirstFrom(s, k + 1, "]") = e
  <2>1. k + 1 \in Nat /\ e \in k + 1 .. Len(s)
    BY <1>2, <1>3, <1>4
  <2>2. ASSUME NEW i \in k + 1 .. Len(s), i < e
        PROVE  s[i] # "]"
    <3>1. PICK j : j = i - k
      OBVIOUS
    <3>2. j \in 1 .. n /\ k + j = i
      BY <1>2, <1>3, <1>4, <2>1, <2>2, <3>1
    <3>3. s[i] = Nick[j]
      BY <1>4, <3>2
    <3> QED  BY <1>1, <3>2, <3>3, NickProperties
  <2> QED  BY <1>4, <2>1, <2>2, FirstIs
<1>7. (e - k) - 1 = n /\ e # 0 /\ k # 0
  BY <1>2, <1>3, <1>4
<1>8. Message_getUser(s, "/msg") = SubSeq(s, k + 1, e - 1)
  <2>1. e - k - 1 \in 1 .. MaxNick
    BY <1>3, <1>7
  <2> QED  BY <1>5, <1>6, <1>7, <2>1, UserIs, Zenon
<1>9. SubSeq(s, k + 1, e - 1) = Nick
  <2>1. PICK m, p : m = k + 1 /\ p = e - 1
    OBVIOUS
  <2>2. m \in Nat \ {0} /\ p \in 0 .. Len(s)
    BY <1>2, <1>3, <1>4, <2>1
  <2>3. PICK t : t = SubSeq(s, m, p)
    OBVIOUS
  <2>4. /\ t \in Seq(Char) /\ Len(t) = IF m <= p THEN (p - m) + 1 ELSE 0
        /\ \A i \in 1 .. Len(t) : t[i] = s[(m + i) - 1]
    BY <2>2, <2>3, PartOf
  <2>5. Len(t) = n
    BY <1>2, <1>3, <1>4, <2>1, <2>4
  <2>6. \A i \in 1 .. n : (m + i) - 1 = k + i
    BY <1>3, <1>4, <2>1
  <2>7. \A i \in 1 .. Len(t) : t[i] = Nick[i]
    BY <1>4, <2>4, <2>5, <2>6
  <2>8. t = Nick
    BY <1>1, <1>3, <2>4, <2>5, <2>7, SameString, Zenon
  <2> QED  BY <2>1, <2>3, <2>8
<1> QED
  BY <1>8, <1>9, Zenon

-----------------------------------------------------------------------------
(* The fields of messages. *)

\* A message whose fields have room for their contents, but perhaps for the
\* terminator of the user, or none.
IsGood(m) ==
  /\ m \in Message \cup {NoMessage}
  /\ Len(m.user) <= MaxNick /\ Len(m.content) < Size

\* What TypeOK asks of a message: the server's own messages have room for the user.
LEMMA GoodAtStage ==
  ASSUME NEW m, IsGood(m), NEW st,
         st \in {"queued", "broadcast", "shown"} => m.user = Nick
  PROVE  /\ Len(m.content) < Size
         /\ Len(m.user) < MaxNick \/ Overrun(m)
         /\ st \in {"queued", "broadcast", "shown"} => ~Overrun(m)
<1>1. Len(m.user) <= MaxNick /\ Len(m.user) \in Nat /\ MaxNick \in Nat
  <2>1. NoMessage.user \in Seq(Char) /\ (m \in Message => m.user \in Seq(Char))
    BY DEF NoMessage, Message
  <2>2. m.user \in Seq(Char)
    BY <2>1, Zenon DEF IsGood
  <2> QED  BY <2>2, NickAssumption DEF IsGood
<1>2. Len(m.user) < MaxNick \/ Len(m.user) = MaxNick
  BY <1>1
<1> QED
  BY <1>2, NickProperties, Zenon DEF IsGood, Overrun

\* What TypeOK says of a message, back again.
LEMMA GoodByType ==
  ASSUME TypeOK
  PROVE  IsGood(message)
<1>1. Len(message.user) < MaxNick \/ Len(message.user) = MaxNick
  BY Zenon DEF TypeOK, Overrun
<1>2. MaxNick \in Nat
  BY NickAssumption
<1>3. NoMessage.user \in Seq(Char) /\ (message \in Message => message.user \in Seq(Char))
  BY DEF NoMessage, Message
<1>4. message.user \in Seq(Char)
  BY <1>3, Zenon DEF TypeOK
<1>5. Len(message.user) \in Nat
  BY <1>4
<1>6. Len(message.user) <= MaxNick
  BY <1>1, <1>2, <1>5
<1> QED
  BY <1>6, Zenon DEF TypeOK, IsGood

\* The user in front of the text.
LEMMA WithUserIsString ==
  ASSUME NEW user \in Seq(Char), NEW content \in Seq(Char)
  PROVE  WithUser(user, content) \in Seq(Char)
<1>1. <<"[">> \in Seq(Char) /\ <<"]", Space>> \in Seq(Char)
  BY CharacterTypes, ShortStrings, Zenon
<1>2. <<"[">> \o user \in Seq(Char)
  BY <1>1, ConcatProperties
<1>3. (<<"[">> \o user) \o <<"]", Space>> \in Seq(Char)
  BY <1>1, <1>2, ConcatProperties
<1>4. ((<<"[">> \o user) \o <<"]", Space>>) \o content \in Seq(Char)
  BY <1>3, ConcatProperties
<1> QED
  BY <1>4, Zenon DEF WithUser

\* w is Nick in brackets, a space and a text; n is the length of Nick.
HasTag(w, n, text) ==
  /\ w \in Seq(Char) /\ Len(w) = n + 3 + Len(text)
  /\ w[1] = "[" /\ w[n + 2] = "]" /\ w[n + 3] = Space
  /\ \A i \in 1 .. n : w[i + 1] = Nick[i]
  /\ \A i \in 1 .. Len(text) : w[n + 3 + i] = text[i]

\* The characters of a text with Nick in front of it.
LEMMA WithNick ==
  ASSUME NEW content \in Seq(Char)
  PROVE  HasTag(WithUser(Nick, content), Len(Nick), content)
<1>0. PICK n, w : n = Len(Nick) /\ w = WithUser(Nick, content)
  OBVIOUS
<1>1. Nick \in Seq(Char) /\ n \in Nat /\ n >= 1 /\ Nick # <<>> /\ Len(content) \in Nat
  BY <1>0, NickProperties
<1>2. PICK s1 : s1 = <<"[">>
  OBVIOUS
<1>3. PICK s2 : s2 = <<"]", Space>>
  OBVIOUS
<1>4. s1 \in Seq(Char) /\ Len(s1) = 1 /\ s1[1] = "["
  BY <1>2, CharacterTypes, ShortStrings, Zenon
<1>5. s2 \in Seq(Char) /\ Len(s2) = 2 /\ s2[1] = "]" /\ s2[2] = Space
  BY <1>3, CharacterTypes, ShortStrings, Zenon
<1>6. PICK t1 : t1 = s1 \o Nick
  OBVIOUS
<1>7. /\ t1 \in Seq(Char) /\ Len(t1) = 1 + n
      /\ \A i \in 1 .. 1 + n : t1[i] = IF i <= 1 THEN s1[i] ELSE Nick[i - 1]
  <2>1. /\ s1 \o Nick \in Seq(Char) /\ Len(s1 \o Nick) = Len(s1) + Len(Nick)
        /\ \A i \in 1 .. Len(s1) + Len(Nick) : (s1 \o Nick)[i] =
               IF i <= Len(s1) THEN s1[i] ELSE Nick[i - Len(s1)]
    BY <1>1, <1>4, ConcatProperties
  <2> QED  BY <1>0, <1>4, <1>6, <2>1
<1>8. PICK t2 : t2 = t1 \o s2
  OBVIOUS
<1>9. /\ t2 \in Seq(Char) /\ Len(t2) = n + 3
      /\ \A i \in 1 .. n + 3 : t2[i] = IF i <= 1 + n THEN t1[i] ELSE s2[i - (1 + n)]
  <2>1. /\ t1 \o s2 \in Seq(Char) /\ Len(t1 \o s2) = Len(t1) + Len(s2)
        /\ \A i \in 1 .. Len(t1) + Len(s2) : (t1 \o s2)[i] =
               IF i <= Len(t1) THEN t1[i] ELSE s2[i - Len(t1)]
    BY <1>5, <1>7, ConcatProperties
  <2>2. Len(t1) + Len(s2) = n + 3
    BY <1>1, <1>5, <1>7
  <2> QED  BY <1>7, <1>8, <2>1, <2>2
<1>10. w = t2 \o content
  BY <1>0, <1>1, <1>2, <1>3, <1>6, <1>8, Zenon DEF WithUser
<1>11. /\ w \in Seq(Char) /\ Len(w) = n + 3 + Len(content)
       /\ \A i \in 1 .. n + 3 + Len(content) :
            w[i] = IF i <= n + 3 THEN t2[i] ELSE content[i - (n + 3)]
  <2>1. /\ t2 \o content \in Seq(Char) /\ Len(t2 \o content) = Len(t2) + Len(content)
        /\ \A i \in 1 .. Len(t2) + Len(content) : (t2 \o content)[i] =
               IF i <= Len(t2) THEN t2[i] ELSE content[i - Len(t2)]
    <3>1. t2 \in Seq(Char)
      BY <1>9
    <3> QED  BY <3>1, ConcatProperties, Zenon
  <2> QED  BY <1>9, <1>10, <2>1
<1>13. \A i \in 1 .. n + 3 : i \in 1 .. n + 3 + Len(content) /\ w[i] = t2[i]
  BY <1>1, <1>11
<1>14. w[1] = "["
  BY <1>1, <1>4, <1>7, <1>9, <1>13
<1>15. w[n + 2] = "]"
  <2>1. (n + 2) - (1 + n) = 1 /\ n + 2 \in 1 .. n + 3 /\ ~(n + 2 <= 1 + n)
    BY <1>1
  <2> QED  BY <1>5, <1>9, <1>13, <2>1
<1>16. w[n + 3] = Space
  <2>1. (n + 3) - (1 + n) = 2 /\ n + 3 \in 1 .. n + 3 /\ ~(n + 3 <= 1 + n)
    BY <1>1
  <2> QED  BY <1>5, <1>9, <1>13, <2>1
<1>17. \A i \in 1 .. n : w[i + 1] = Nick[i]
  <2>1. \A i \in 1 .. n : i + 1 \in 1 .. n + 3 /\ i + 1 \in 1 .. 1 + n /\ ~(i + 1 <= 1)
                            /\ i + 1 <= 1 + n /\ (i + 1) - 1 = i
    BY <1>1
  <2> QED  BY <1>7, <1>9, <1>13, <2>1
<1>18. \A i \in 1 .. Len(content) : w[n + 3 + i] = content[i]
  <2>1. \A i \in 1 .. Len(content) :
          /\ n + 3 + i \in 1 .. n + 3 + Len(content)
          /\ ~(n + 3 + i <= n + 3) /\ (n + 3 + i) - (n + 3) = i
    BY <1>1
  <2> QED  BY <1>11, <2>1
<1> QED
  BY <1>0, <1>11, <1>14, <1>15, <1>16, <1>17, <1>18, Zenon DEF HasTag

\* A message that is created has its fields filled within their sizes.
LEMMA CreatedIsGood ==
  ASSUME NEW type \in MessageTypes, NEW s \in Seq(Char)
  PROVE  IsGood(C2HMessage_create(type, s))
<1>1. PICK t : t = Truncate(s)
  OBVIOUS
<1>2. t \in Seq(Char) /\ Len(t) < Size
  BY <1>1, TruncateProperties, NickProperties
<1>3. PICK u : u = Message_getUser(t, type)
  OBVIOUS
<1>4. u \in Seq(Char) /\ Len(u) <= MaxNick
  BY <1>2, <1>3, UserProperties
<1>5. PICK c : c = BehindUser(t, u)
  OBVIOUS
<1>6. c \in Seq(Char) /\ Len(c) < Size
  BY <1>2, <1>4, <1>5, BehindUserProperties, NickProperties
<1>7. C2HMessage_create(type, s) = [type |-> type, user |-> u, content |-> c]
  BY <1>1, <1>3, <1>5, Zenon DEF C2HMessage_create
<1>8. [type |-> type, user |-> u, content |-> c] \in Message
  BY <1>4, <1>6 DEF Message
<1> QED
  BY <1>4, <1>6, <1>7, <1>8 DEF IsGood

\* No message is within the sizes, too.
LEMMA NoMessageIsGood == IsGood(NoMessage)
<1>1. NoMessage.user = <<>> /\ NoMessage.content = <<>>
  BY DEF NoMessage
<1>2. Len(<<>>) <= MaxNick /\ Len(<<>>) < Size
  BY NickProperties
<1> QED
  BY <1>1, <1>2, Zenon DEF IsGood

\* The type of a string and the rest of it.
LEMMA TypeProperties ==
  ASSUME NEW s \in Seq(Char)
  PROVE  /\ Message_getType(s).type \in MessageTypes \cup {Null}
         /\ Message_getType(s).rest \in Seq(Char)
         /\ Len(Message_getType(s).rest) <= Len(s)
<1>1. PICK first : first = (s # <<>> /\ Head(s) \in MessageTypes)
  OBVIOUS
<1>2. PICK r : r = IF first THEN Tail(s) ELSE s
  OBVIOUS
<1>3. PICK t : t = IF first /\ (Head(s) \in {"/ok", "/quit"} \/ r # <<>>)
                   THEN Head(s) ELSE Null
  OBVIOUS
<1>4. Message_getType(s) = [type |-> t, rest |-> r]
  BY <1>1, <1>2, <1>3, Zenon DEF Message_getType
<1>5. first => Head(s) \in MessageTypes /\ s # <<>>
  BY <1>1, Zenon
<1>6. t \in MessageTypes \cup {Null}
  BY <1>3, <1>5, Zenon
<1>7. r \in Seq(Char) /\ Len(r) <= Len(s)
  <2>1. CASE first
    <3>1. r = Tail(s) /\ s # <<>>
      BY <1>2, <1>5, <2>1, Zenon
    <3> QED  BY <3>1
  <2>2. CASE ~first
    <3>1. r = s
      BY <1>2, <2>2, Zenon
    <3> QED  BY <3>1
  <2> QED  BY <2>1, <2>2
<1> QED
  BY <1>4, <1>6, <1>7

\* A string that is typed.
LEMMA EnteredIsGood ==
  ASSUME NEW s \in Seq(Char)
  PROVE  IsGood(C2HMessage_createFromString(s))
<1>1. PICK p : p = Message_getType(s)
  OBVIOUS
<1>2. p.rest \in Seq(Char)
  BY <1>1, TypeProperties
<1>3. Trim(p.rest) \in Seq(Char)
  BY <1>2, TrimProperties
<1>4. "/msg" \in MessageTypes /\ {"/msg", "/nick", "/quit"} \subseteq MessageTypes
  BY DEF MessageTypes
<1>5. IsGood(C2HMessage_create("/msg", p.rest))
  BY <1>2, <1>4, CreatedIsGood
<1>6. p.type \in {"/msg", "/nick", "/quit"} => IsGood(C2HMessage_create(p.type, Trim(p.rest)))
  BY <1>3, <1>4, CreatedIsGood, Zenon
<1>7. C2HMessage_createFromString(s) =
        CASE p.type = Null -> C2HMessage_create("/msg", p.rest)
          [] p.type \in {"/msg", "/nick", "/quit"} -> C2HMessage_create(p.type, Trim(p.rest))
          [] OTHER -> NoMessage
  BY <1>1, Zenon DEF C2HMessage_createFromString
<1>8. ~(Null \in {"/msg", "/nick", "/quit"})
  BY DEF Null
<1>9. CASE p.type = Null
  <2>1. C2HMessage_createFromString(s) = C2HMessage_create("/msg", p.rest)
    BY <1>7, <1>8, <1>9, Zenon
  <2> QED  BY <1>5, <2>1, Zenon
<1>10. CASE p.type # Null /\ p.type \in {"/msg", "/nick", "/quit"}
  <2>1. C2HMessage_createFromString(s) = C2HMessage_create(p.type, Trim(p.rest))
    BY <1>7, <1>10, Zenon
  <2> QED  BY <1>6, <1>10, <2>1, Zenon
<1>11. CASE p.type # Null /\ p.type \notin {"/msg", "/nick", "/quit"}
  <2>1. C2HMessage_createFromString(s) = NoMessage
    BY <1>7, <1>11, Zenon
  <2> QED  BY <2>1, NoMessageIsGood, Zenon
<1> QED
  BY <1>9, <1>10, <1>11, Zenon

\* What is sent has room in the buffer of the peer.
LEMMA FormattedFits ==
  ASSUME NEW m \in Message
  PROVE  C2HMessage_format(m) \in Seq(Char) /\ Len(C2HMessage_format(m)) < Size
<1>1. m.type \in Char /\ m.user \in Seq(Char) /\ m.content \in Seq(Char)
  <2>1. m.type \in MessageTypes /\ m.user \in Seq(Char) /\ m.content \in Seq(Char)
    BY DEF Message
  <2> QED  BY <2>1, CharacterTypes, Zenon
<1>2. PICK w : w = WithUser(m.user, m.content)
  OBVIOUS
<1>3. w \in Seq(Char)
  BY <1>1, <1>2, WithUserIsString, Zenon
<1>4. PICK buffer : buffer = Truncate(w)
  OBVIOUS
<1>5. buffer \in Seq(Char)
  BY <1>3, <1>4, TruncateProperties, Zenon
<1>6. PICK ty : ty = m.type
  OBVIOUS
<1>7. ty \in Char /\ Space \in Char
  BY <1>1, <1>6, CharacterTypes, Zenon
<1>8. <<ty>> \in Seq(Char) /\ Len(<<ty>>) < Size /\ <<ty, Space>> \in Seq(Char)
  <2>1. <<ty>> \in Seq(Char) /\ Len(<<ty>>) = 1 /\ <<ty, Space>> \in Seq(Char)
    BY <1>7, ShortStrings, Zenon
  <2> QED  BY <2>1, NickProperties
<1>9. <<ty, Space>> \o buffer \in Seq(Char)
  BY <1>5, <1>8, ConcatProperties
<1>10. PICK t : t = Truncate(<<ty, Space>> \o buffer)
  OBVIOUS
<1>11. t \in Seq(Char) /\ Len(t) < Size
  <2>1. PICK v : v = <<ty, Space>> \o buffer
    OBVIOUS
  <2>2. v \in Seq(Char) /\ t = Truncate(v)
    BY <1>9, <1>10, <2>1, Zenon
  <2> QED  BY <2>2, TruncateProperties, NickProperties
<1>12. C2HMessage_format(m) = IF buffer = <<>> THEN <<ty>> ELSE t
  BY <1>2, <1>4, <1>6, <1>10, Zenon DEF C2HMessage_format
<1> QED
  BY <1>8, <1>11, <1>12, Zenon

\* What is taken out of a buffer.
LEMMA TakenIsGood ==
  ASSUME NEW s \in Seq(Char), Len(s) < Size
  PROVE  IsGood(C2HMessage_get(s))
<1>1. PICK p : p = Message_getType(s)
  OBVIOUS
<1>2. p.type \in MessageTypes \cup {Null} /\ p.rest \in Seq(Char) /\ Len(p.rest) <= Len(s)
  BY <1>1, TypeProperties
<1>3. PICK cursor : cursor = Trim(p.rest)
  OBVIOUS
<1>4. cursor \in Seq(Char) /\ Len(cursor) <= Len(p.rest)
  BY <1>2, <1>3, TrimProperties
<1>5. PICK u : u = Message_getUser(s, p.type)
  OBVIOUS
<1>6. u \in Seq(Char) /\ Len(u) <= MaxNick
  BY <1>5, UserProperties
<1>7. PICK c : c = BehindUser(cursor, u)
  OBVIOUS
<1>8. c \in Seq(Char) /\ Len(c) <= Len(cursor)
  BY <1>4, <1>6, <1>7, BehindUserProperties
<1>9. Len(c) < Size
  BY <1>2, <1>4, <1>8, NickProperties
<1>10. C2HMessage_get(s) =
         IF p.type = Null THEN NoMessage ELSE [type |-> p.type, user |-> u, content |-> c]
  BY <1>1, <1>3, <1>5, <1>7, Zenon DEF C2HMessage_get
<1>11. CASE p.type = Null
  BY <1>10, <1>11, NoMessageIsGood, Zenon
<1>12. CASE p.type # Null
  <2>1. PICK t : t = p.type
    OBVIOUS
  <2>2. t \in MessageTypes
    BY <1>2, <1>12, <2>1, Zenon
  <2>3. [type |-> t, user |-> u, content |-> c] \in Message
    BY <1>6, <1>8, <2>2 DEF Message
  <2>4. C2HMessage_get(s) = [type |-> t, user |-> u, content |-> c]
    BY <1>10, <1>12, <2>1, Zenon
  <2> QED  BY <1>6, <1>9, <2>3, <2>4 DEF IsGood
<1> QED
  BY <1>11, <1>12, Zenon

-----------------------------------------------------------------------------
(* What is left of a text. *)

\* d is c, or c without some of the characters at its end.
IsStart(d, c) ==
  /\ d \in Seq(Char) /\ 1 <= Len(d) /\ Len(d) <= Len(c)
  /\ \A i \in 1 .. Len(d) : d[i] = c[i]

\* The message that Server_handleClient makes has Nick as its user and the
\* text, or as much of it as has room, as its content.
LEMMA BroadcastProperties ==
  ASSUME NEW c \in Seq(Char), Len(c) >= 1
  PROVE  LET m == Server_broadcastMessage(c)
         IN  /\ m.type = "/msg" /\ m.user = Nick /\ IsStart(m.content, c)
             /\ Len(Nick) + 3 + Len(c) < Size => Len(m.content) = Len(c)
<1>1. PICK n : n = Len(Nick)
  OBVIOUS
<1>2. /\ n \in Nat /\ n >= 1 /\ n <= MaxNick /\ MaxNick \in Nat /\ Size \in Nat
      /\ Size > MaxNick + 6 /\ Len(c) \in Nat /\ Nick \in Seq(Char) /\ Nick # <<>>
  BY <1>1, NickProperties
<1>3. PICK w : w = WithUser(Nick, c)
  OBVIOUS
<1>4. /\ w \in Seq(Char) /\ Len(w) = n + 3 + Len(c)
      /\ w[1] = "[" /\ w[n + 2] = "]" /\ w[n + 3] = Space
      /\ \A i \in 1 .. n : w[i + 1] = Nick[i]
      /\ \A i \in 1 .. Len(c) : w[n + 3 + i] = c[i]
  <2>1. HasTag(w, n, c)
    BY <1>1, <1>3, WithNick, Zenon
  <2> QED  BY <2>1, Zenon DEF HasTag
<1>5. PICK v : v = Truncate(w)
  OBVIOUS
<1>6. /\ v \in Seq(Char) /\ Len(v) = IF Len(w) <= Size - 1 THEN Len(w) ELSE Size - 1
      /\ \A i \in 1 .. Len(v) : v[i] = w[i]
  BY <1>4, <1>5, TruncateProperties, Zenon
<1>7. PICK t : t = Truncate(v)
  OBVIOUS
<1>8. /\ t \in Seq(Char) /\ Len(t) = IF Len(v) <= Size - 1 THEN Len(v) ELSE Size - 1
      /\ \A i \in 1 .. Len(t) : t[i] = v[i]
  BY <1>6, <1>7, TruncateProperties, Zenon
<1>9. PICK k : k = Len(t)
  OBVIOUS
<1>10. /\ k = IF n + 3 + Len(c) <= Size - 1 THEN n + 3 + Len(c) ELSE Size - 1
       /\ Len(v) = k
  BY <1>2, <1>4, <1>6, <1>8, <1>9
<1>11. k \in Nat /\ k >= n + 4 /\ k <= n + 3 + Len(c)
  BY <1>2, <1>10
<1>12. \A i \in 1 .. k : t[i] = w[i]
  BY <1>6, <1>8, <1>9, <1>10
<1>13. IsTagged(t, 1)
  <2>1. /\ 1 \in 1 .. k /\ n + 2 \in 1 .. k /\ 1 + n + 1 = n + 2 /\ n + 2 <= k
        /\ \A i \in 1 .. n : 1 + i = i + 1 /\ i + 1 \in 1 .. k
    BY <1>2, <1>11
  <2>2. t[1] = "[" /\ t[1 + n + 1] = "]" /\ \A i \in 1 .. n : t[1 + i] = Nick[i]
    BY <1>4, <1>12, <2>1
  <2>3. 1 \in Nat \ {0} /\ 1 + n + 1 <= Len(t) /\ \A i \in 1 .. Len(t) : ~(i < 1)
    BY <1>8, <1>9, <2>1
  <2> QED  BY <1>1, <2>2, <2>3, Zenon DEF IsTagged
<1>14. Message_getUser(t, "/msg") = Nick
  BY <1>8, <1>13, TaggedUser, Zenon
<1>15. PICK d : d = BehindUser(t, Nick)
  OBVIOUS
<1>16. /\ d \in Seq(Char)
       /\ Len(d) = IF n + 4 <= k THEN (k - n) - 3 ELSE 0
       /\ \A i \in 1 .. Len(d) : d[i] = t[n + 3 + i]
  <2>1. /\ BehindUser(t, Nick) \in Seq(Char)
        /\ Len(BehindUser(t, Nick)) =
             IF Len(Nick) + 4 <= Len(t) THEN (Len(t) - Len(Nick)) - 3 ELSE 0
        /\ \A i \in 1 .. Len(BehindUser(t, Nick)) : BehindUser(t, Nick)[i] = t[Len(Nick) + 3 + i]
    <3>1. t \in Seq(Char)
      BY <1>8
    <3> QED  BY <1>2, <3>1, BehindUserProperties, Zenon
  <2> QED  BY <1>1, <1>9, <1>15, <2>1, Zenon
<1>17. Len(d) = (k - n) - 3 /\ Len(d) >= 1 /\ Len(d) <= Len(c)
  BY <1>2, <1>11, <1>16
<1>18. \A i \in 1 .. Len(d) : d[i] = c[i]
  <2>1. \A i \in 1 .. Len(d) : n + 3 + i \in 1 .. k /\ i \in 1 .. Len(c)
    BY <1>2, <1>11, <1>17
  <2> QED  BY <1>4, <1>12, <1>16, <2>1
<1>19. n + 3 + Len(c) < Size => Len(d) = Len(c)
  BY <1>2, <1>10, <1>17
<1>20. Server_broadcastMessage(c) = [type |-> "/msg", user |-> Nick, content |-> d]
  BY <1>3, <1>5, <1>7, <1>14, <1>15, Zenon DEF Server_broadcastMessage, C2HMessage_create
<1>21. IsStart(d, c)
  BY <1>16, <1>17, <1>18 DEF IsStart
<1> QED
  BY <1>1, <1>19, <1>20, <1>21

\* The string that a message with a text formats to: the type, a space and
\* the text, as far as there is room.
LEMMA FormatOf ==
  ASSUME NEW m \in Message, m.type = "/msg",
         NEW w \in Seq(Char), w = WithUser(m.user, m.content), Len(w) >= 1
  PROVE  LET f == C2HMessage_format(m)
         IN  /\ f \in Seq(Char)
             /\ Len(f) = IF Len(w) + 2 <= Size - 1 THEN Len(w) + 2 ELSE Size - 1
             /\ f[1] = "/msg" /\ f[2] = Space
             /\ \A i \in 3 .. Len(f) : f[i] = w[i - 2]
<1>1. Size \in Nat /\ Size > 6 /\ Len(w) \in Nat
  BY NickProperties
<1>2. PICK v : v = Truncate(w)
  OBVIOUS
<1>3. /\ v \in Seq(Char) /\ Len(v) = IF Len(w) <= Size - 1 THEN Len(w) ELSE Size - 1
      /\ \A i \in 1 .. Len(v) : v[i] = w[i]
  BY <1>2, TruncateProperties, Zenon
<1>4. v # <<>> /\ Len(v) \in Nat /\ Len(v) >= 1
  BY <1>1, <1>3
<1>5. PICK h : h = <<"/msg", Space>>
  OBVIOUS
<1>6. h \in Seq(Char) /\ Len(h) = 2 /\ h[1] = "/msg" /\ h[2] = Space
  BY <1>5, CharacterTypes, ShortStrings, Zenon
<1>7. PICK g : g = h \o v
  OBVIOUS
<1>8. /\ g \in Seq(Char) /\ Len(g) = 2 + Len(v)
      /\ \A i \in 1 .. 2 + Len(v) : g[i] = IF i <= 2 THEN h[i] ELSE v[i - 2]
  <2>1. /\ h \o v \in Seq(Char) /\ Len(h \o v) = Len(h) + Len(v)
        /\ \A i \in 1 .. Len(h) + Len(v) : (h \o v)[i] =
               IF i <= Len(h) THEN h[i] ELSE v[i - Len(h)]
    BY <1>3, <1>6, ConcatProperties, ZenonT(60)
  <2> QED  BY <1>6, <1>7, <2>1
<1>9. PICK f : f = Truncate(g)
  OBVIOUS
<1>10. /\ f \in Seq(Char) /\ Len(f) = IF Len(g) <= Size - 1 THEN Len(g) ELSE Size - 1
       /\ \A i \in 1 .. Len(f) : f[i] = g[i]
  BY <1>8, <1>9, TruncateProperties, Zenon
<1>11. f = C2HMessage_format(m)
  BY <1>2, <1>4, <1>5, <1>7, <1>9, Zenon DEF C2HMessage_format
<1>12. Len(f) = IF Len(w) + 2 <= Size - 1 THEN Len(w) + 2 ELSE Size - 1
  BY <1>1, <1>3, <1>8, <1>10
<1>13. Len(f) \in Nat /\ Len(f) >= 3 /\ Len(f) <= Len(g)
  BY <1>1, <1>8, <1>10, <1>12
<1>14. f[1] = "/msg" /\ f[2] = Space
  <2>1. 1 \in 1 .. Len(f) /\ 2 \in 1 .. Len(f) /\ 1 \in 1 .. 2 + Len(v) /\ 2 \in 1 .. 2 + Len(v)
    BY <1>4, <1>13
  <2> QED  BY <1>6, <1>8, <1>10, <2>1
<1>15. \A i \in 3 .. Len(f) : f[i] = w[i - 2]
  <2>1. \A i \in 3 .. Len(f) : /\ i \in 1 .. Len(f) /\ i \in 1 .. 2 + Len(v) /\ ~(i <= 2)
                               /\ i - 2 \in 1 .. Len(v)
    BY <1>4, <1>8, <1>13
  <2> QED  BY <1>3, <1>8, <1>10, <2>1
<1> QED
  BY <1>10, <1>11, <1>12, <1>14, <1>15, Zenon

\* What the peer takes for the type and the rest of such a string.
LEMMA TypeOf ==
  ASSUME NEW f \in Seq(Char), Len(f) >= 3, f[1] = "/msg"
  PROVE  /\ Message_getType(f).type = "/msg"
         /\ Message_getType(f).rest \in Seq(Char)
         /\ Len(Message_getType(f).rest) = Len(f) - 1
         /\ \A i \in 1 .. Len(f) - 1 : Message_getType(f).rest[i] = f[i + 1]
<1>1. f # <<>> /\ Head(f) = "/msg" /\ Len(f) \in Nat
  OBVIOUS
<1>2. "/msg" \in MessageTypes
  BY DEF MessageTypes
<1>3. PICK r : r = Tail(f)
  OBVIOUS
<1>4. r \in Seq(Char) /\ Len(r) = Len(f) - 1 /\ \A i \in 1 .. Len(r) : r[i] = f[i + 1]
  BY <1>1, <1>3, HeadTailProperties, Zenon
<1>5. r # <<>>
  BY <1>1, <1>4
<1>6. Message_getType(f) = [type |-> "/msg", rest |-> r]
  BY <1>1, <1>2, <1>3, <1>5, Zenon DEF Message_getType
<1> QED
  BY <1>1, <1>4, <1>6

\* A string that is a space and a text is trimmed to the text, or to the part
\* of it before the spaces at its end.
LEMMA TrimBehindSpace ==
  ASSUME NEW r \in Seq(Char), NEW q \in 2 .. Len(r),
         r[1] = Space, r[2] # Space, r[q] # Space
  PROVE  /\ Trim(r) \in Seq(Char)
         /\ q - 1 <= Len(Trim(r)) /\ Len(Trim(r)) <= Len(r) - 1
         /\ \A i \in 1 .. Len(Trim(r)) : Trim(r)[i] = r[i + 1]
         /\ r[Len(r)] # Space => Len(Trim(r)) = Len(r) - 1
<1>1. Len(r) \in Nat /\ q \in Nat /\ q >= 2 /\ q <= Len(r)
  OBVIOUS
<1>2. ~\A i \in 1 .. Len(r) : r[i] = Space
  BY <1>1
<1>3. PICK a, b : IsSpan(r, a, b)
  BY <1>2, SpanExists, Zenon
<1>4. /\ a \in Nat /\ b \in Nat /\ 1 <= a /\ a <= b /\ b <= Len(r) /\ r[a] # Space
      /\ \A i \in 1 .. Len(r) : i < a \/ i > b => r[i] = Space
  BY <1>1, <1>3 DEF IsSpan
<1>5. a = 2
  BY <1>1, <1>4
<1>6. b >= q
  BY <1>1, <1>4
<1>7. r[Len(r)] # Space => b = Len(r)
  BY <1>1, <1>4
<1>8. PICK t : t = Trim(r)
  OBVIOUS
<1>9. t = SubSeq(r, 2, b)
  BY <1>3, <1>5, <1>8, TrimIsSpan, Zenon
<1>10. 2 \in Nat \ {0} /\ b \in 0 .. Len(r)
  BY <1>1, <1>4
<1>11. /\ t \in Seq(Char) /\ Len(t) = IF 2 <= b THEN (b - 2) + 1 ELSE 0
       /\ \A i \in 1 .. Len(t) : t[i] = r[(2 + i) - 1]
  BY <1>9, <1>10, PartOf
<1>12. Len(t) = b - 1 /\ \A i \in 1 .. Len(t) : (2 + i) - 1 = i + 1
  BY <1>1, <1>4, <1>6, <1>11
<1>13. \A i \in 1 .. Len(t) : t[i] = r[i + 1]
  BY <1>11, <1>12
<1>14. /\ q - 1 <= Len(t) /\ Len(t) <= Len(r) - 1
       /\ r[Len(r)] # Space => Len(t) = Len(r) - 1
  BY <1>1, <1>4, <1>6, <1>7, <1>12
<1> QED
  BY <1>8, <1>11, <1>13, <1>14, Zenon

\* A message of the server on its way to a client: whatever its text, the user
\* that the client finds is Nick.
LEMMA TaggedArrives ==
  ASSUME NEW m \in Message, m.type = "/msg", m.user = Nick
  PROVE  LET g == C2HMessage_get(C2HMessage_format(m))
             c == m.content
         IN  /\ g.type = "/msg" /\ g.user = Nick
             /\ Len(c) >= 1 /\ c[1] # Space => IsStart(g.content, c)
             /\ /\ Len(c) >= 1 /\ c[1] # Space /\ c[Len(c)] # Space
                /\ Len(Nick) + 5 + Len(c) < Size
                => Len(g.content) = Len(c)
<1>1. PICK n, c : n = Len(Nick) /\ c = m.content
  OBVIOUS
<1>2. /\ n \in Nat /\ n >= 1 /\ n <= MaxNick /\ MaxNick \in Nat /\ Size \in Nat
      /\ Size > MaxNick + 6 /\ Nick \in Seq(Char) /\ Nick # <<>>
  BY <1>1, NickProperties
<1>3. c \in Seq(Char) /\ Len(c) \in Nat
  BY <1>1 DEF Message
<1>4. PICK w : w = WithUser(Nick, c)
  OBVIOUS
<1>5. /\ w \in Seq(Char) /\ Len(w) = n + 3 + Len(c)
      /\ w[1] = "[" /\ w[n + 2] = "]" /\ w[n + 3] = Space
      /\ \A i \in 1 .. n : w[i + 1] = Nick[i]
      /\ \A i \in 1 .. Len(c) : w[n + 3 + i] = c[i]
  <2>1. HasTag(w, n, c)
    BY <1>1, <1>3, <1>4, WithNick, Zenon
  <2> QED  BY <2>1, Zenon DEF HasTag
<1>6. PICK f : f = C2HMessage_format(m)
  OBVIOUS
<1>7. PICK k : k = Len(f)
  OBVIOUS
<1>8. /\ f \in Seq(Char) /\ k = IF Len(w) + 2 <= Size - 1 THEN Len(w) + 2 ELSE Size - 1
      /\ f[1] = "/msg" /\ f[2] = Space /\ \A i \in 3 .. k : f[i] = w[i - 2]
  <2>1. w = WithUser(m.user, m.content)
    BY <1>1, <1>4
  <2>2. Len(w) >= 1
    BY <1>2, <1>3, <1>5
  <2> QED  BY <1>5, <1>6, <1>7, <2>1, <2>2, FormatOf, Zenon
<1>9. /\ k = IF n + 5 + Len(c) <= Size - 1 THEN n + 5 + Len(c) ELSE Size - 1
      /\ k \in Nat /\ k >= n + 5 /\ k <= n + 5 + Len(c) /\ (Len(c) >= 1 => k >= n + 6)
  BY <1>2, <1>3, <1>5, <1>8, SMTT(30)
<1>10. IsTagged(f, 3)
  <2>1. /\ 3 \in 3 .. k /\ 3 - 2 = 1 /\ n + 4 \in 3 .. k /\ 3 + n + 1 = n + 4 /\ (n + 4) - 2 = n + 2
        /\ \A i \in 1 .. n : 3 + i \in 3 .. k /\ (3 + i) - 2 = i + 1
    BY <1>2, <1>9
  <2>2. f[3] = "[" /\ f[3 + n + 1] = "]" /\ \A i \in 1 .. n : f[3 + i] = Nick[i]
    BY <1>5, <1>8, <2>1, SMTT(30)
  <2>3. \A i \in 1 .. Len(f) : i < 3 => f[i] # "["
    <3>1. \A i \in 1 .. Len(f) : i < 3 => i = 1 \/ i = 2
      BY <1>7, <1>9
    <3> QED  BY <1>8, <3>1, CharactersDiffer, Zenon
  <2>4. 3 \in Nat \ {0} /\ 3 + n + 1 <= Len(f)
    BY <1>2, <1>7, <1>9
  <2> QED  BY <1>1, <2>2, <2>3, <2>4, Zenon DEF IsTagged
<1>11. Message_getUser(f, "/msg") = Nick
  BY <1>8, <1>10, TaggedUser, Zenon
<1>12. PICK p : p = Message_getType(f)
  OBVIOUS
<1>13. PICK r : r = p.rest
  OBVIOUS
<1>14. /\ p.type = "/msg" /\ r \in Seq(Char) /\ Len(r) = k - 1
       /\ \A i \in 1 .. k - 1 : r[i] = f[i + 1]
  <2>1. Len(f) >= 3
    BY <1>2, <1>7, <1>9
  <2> QED  BY <1>7, <1>8, <1>12, <1>13, <2>1, TypeOf, Zenon
<1>15. PICK cursor : cursor = Trim(r)
  OBVIOUS
<1>16. PICK d : d = BehindUser(cursor, Nick)
  OBVIOUS
<1>17. C2HMessage_get(f) = [type |-> "/msg", user |-> Nick, content |-> d]
  <2>1. "/msg" # Null
    BY DEF Null
  <2> QED  BY <1>11, <1>12, <1>13, <1>14, <1>15, <1>16, <2>1, Zenon DEF C2HMessage_get
<1>18. ASSUME Len(c) >= 1, c[1] # Space
       PROVE  /\ IsStart(d, c)
              /\ c[Len(c)] # Space /\ n + 5 + Len(c) < Size => Len(d) = Len(c)
  <2>1. k >= n + 6
    BY <1>9, <1>18
  <2>2. \A i \in 2 .. k - 1 : r[i] = w[i - 1]
    <3>1. \A i \in 2 .. k - 1 : i \in 1 .. k - 1 /\ i + 1 \in 3 .. k /\ (i + 1) - 2 = i - 1
      BY <1>9
    <3> QED  BY <1>8, <1>14, <3>1
  <2>3. r[1] = Space /\ r[2] # Space
    <3>1. 1 \in 1 .. k - 1 /\ 2 \in 2 .. k - 1 /\ 2 - 1 = 1 /\ 1 + 1 = 2
      BY <1>2, <1>9, <2>1
    <3>2. r[1] = f[2] /\ r[2] = w[1]
      BY <1>14, <2>2, <3>1
    <3> QED  BY <1>5, <1>8, <3>2, CharactersDiffer, Zenon
  <2>4. PICK q : q = n + 5
    OBVIOUS
  <2>5. q \in 2 .. Len(r) /\ r[q] # Space
    <3>1. q \in 2 .. k - 1 /\ q - 1 = n + 3 + 1 /\ 1 \in 1 .. Len(c) /\ k - 1 = Len(r)
      BY <1>2, <1>3, <1>9, <1>14, <1>18, <2>1, <2>4, SMTT(30)
    <3>2. r[q] = c[1]
      BY <1>5, <2>2, <3>1
    <3> QED  BY <1>18, <3>1, <3>2
  <2>6. /\ cursor \in Seq(Char) /\ q - 1 <= Len(cursor) /\ Len(cursor) <= Len(r) - 1
        /\ \A i \in 1 .. Len(cursor) : cursor[i] = r[i + 1]
        /\ r[Len(r)] # Space => Len(cursor) = Len(r) - 1
    BY <1>14, <1>15, <2>3, <2>5, TrimBehindSpace, Zenon
  <2>7. PICK z : z = Len(cursor)
    OBVIOUS
  <2>8. z \in Nat /\ z >= n + 4 /\ z <= k - 2
    BY <1>2, <1>9, <1>14, <2>4, <2>6, <2>7
  <2>9. \A i \in 1 .. z : cursor[i] = w[i]
    <3>1. \A i \in 1 .. z : i + 1 \in 2 .. k - 1 /\ (i + 1) - 1 = i
      BY <1>9, <2>8
    <3> QED  BY <2>2, <2>6, <2>7, <3>1
  <2>10. /\ d \in Seq(Char) /\ Len(d) = IF n + 4 <= z THEN (z - n) - 3 ELSE 0
         /\ \A i \in 1 .. Len(d) : d[i] = cursor[n + 3 + i]
    <3>1. /\ BehindUser(cursor, Nick) \in Seq(Char)
          /\ Len(BehindUser(cursor, Nick)) =
               IF Len(Nick) + 4 <= Len(cursor) THEN (Len(cursor) - Len(Nick)) - 3 ELSE 0
          /\ \A i \in 1 .. Len(BehindUser(cursor, Nick)) :
               BehindUser(cursor, Nick)[i] = cursor[Len(Nick) + 3 + i]
      <4>1. cursor \in Seq(Char)
        BY <2>6
      <4> QED  BY <1>2, <4>1, BehindUserProperties, Zenon
    <3> QED  BY <1>1, <1>16, <2>7, <3>1, Zenon
  <2>11. Len(d) = (z - n) - 3 /\ Len(d) >= 1 /\ Len(d) <= Len(c)
    BY <1>2, <1>3, <1>9, <2>8, <2>10
  <2>12. \A i \in 1 .. Len(d) : d[i] = c[i]
    <3>1. \A i \in 1 .. Len(d) : n + 3 + i \in 1 .. z /\ i \in 1 .. Len(c)
      BY <1>2, <1>3, <2>8, <2>11
    <3> QED  BY <1>5, <2>9, <2>10, <3>1
  <2>13. IsStart(d, c)
    BY <2>10, <2>11, <2>12 DEF IsStart
  <2>14. ASSUME c[Len(c)] # Space, n + 5 + Len(c) < Size
         PROVE  Len(d) = Len(c)
    <3>1. k = n + 5 + Len(c)
      BY <1>2, <1>3, <1>9, <2>14
    <3>2. /\ Len(r) \in 2 .. k - 1 /\ Len(r) - 1 = n + 3 + Len(c) /\ Len(c) \in 1 .. Len(c)
      BY <1>2, <1>3, <1>14, <1>18, <3>1
    <3>3. r[Len(r)] = c[Len(c)]
      BY <1>5, <2>2, <3>2
    <3>4. z = Len(r) - 1
      BY <2>6, <2>7, <2>14, <3>3
    <3> QED  BY <1>2, <1>3, <2>11, <3>2, <3>4
  <2> QED  BY <2>13, <2>14, Zenon
<1>19. PICK g : g = C2HMessage_get(f)
  OBVIOUS
<1>20. g.type = "/msg" /\ g.user = Nick /\ g.content = d
  BY <1>17, <1>19
<1> QED
  BY <1>1, <1>6, <1>18, <1>19, <1>20, Zenon

\* A message of a client on its way to the server, with a text that has no
\* opening bracket.
LEMMA PlainArrives ==
  ASSUME NEW m \in Message, m.type = "/msg", m.user = <<>>,
         NEW c, c = m.content, Len(c) >= 1, c[1] # Space,
         \A i \in 1 .. Len(c) : c[i] # "["
  PROVE  LET g == C2HMessage_get(C2HMessage_format(m))
         IN  /\ g.type = "/msg" /\ IsStart(g.content, c)
             /\ c[Len(c)] # Space /\ 2 + Len(c) < Size => Len(g.content) = Len(c)
<1>1. c \in Seq(Char) /\ Len(c) \in Nat /\ Size \in Nat /\ Size > 6
  BY NickProperties DEF Message
<1>2. c = WithUser(m.user, m.content)
  BY Zenon DEF WithUser
<1>3. PICK f : f = C2HMessage_format(m)
  OBVIOUS
<1>4. PICK k : k = Len(f)
  OBVIOUS
<1>5. /\ f \in Seq(Char) /\ k = IF Len(c) + 2 <= Size - 1 THEN Len(c) + 2 ELSE Size - 1
      /\ f[1] = "/msg" /\ f[2] = Space /\ \A i \in 3 .. k : f[i] = c[i - 2]
  BY <1>1, <1>2, <1>3, <1>4, FormatOf, Zenon
<1>6. k \in Nat /\ k >= 3 /\ k <= Len(c) + 2 /\ (2 + Len(c) < Size => k = Len(c) + 2)
  BY <1>1, <1>5
<1>7. Message_getUser(f, "/msg") = <<>>
  <2>1. \A i \in 3 .. k : f[i] # "["
    <3>1. \A i \in 3 .. k : i - 2 \in 1 .. Len(c)
      BY <1>1, <1>6
    <3> QED  BY <1>5, <3>1
  <2>2. \A i \in 1 .. Len(f) : i = 1 \/ i = 2 \/ i \in 3 .. k
    BY <1>4, <1>6
  <2>3. \A i \in 1 .. Len(f) : f[i] # "["
    BY <1>5, <2>1, <2>2, CharactersDiffer, Zenon
  <2> QED  BY <1>5, <2>3, NoUser, Zenon
<1>8. PICK p : p = Message_getType(f)
  OBVIOUS
<1>9. PICK r : r = p.rest
  OBVIOUS
<1>10. /\ p.type = "/msg" /\ r \in Seq(Char) /\ Len(r) = k - 1
       /\ \A i \in 1 .. k - 1 : r[i] = f[i + 1]
  <2>1. Len(f) >= 3
    BY <1>4, <1>6
  <2> QED  BY <1>4, <1>5, <1>8, <1>9, <2>1, TypeOf, Zenon
<1>11. \A i \in 2 .. k - 1 : r[i] = c[i - 1]
  <2>1. \A i \in 2 .. k - 1 : i \in 1 .. k - 1 /\ i + 1 \in 3 .. k /\ (i + 1) - 2 = i - 1
    BY <1>6
  <2> QED  BY <1>5, <1>10, <2>1
<1>12. r[1] = Space /\ r[2] # Space /\ 2 \in 2 .. Len(r)
  <2>1. 1 \in 1 .. k - 1 /\ 2 \in 2 .. k - 1 /\ 2 - 1 = 1 /\ 1 + 1 = 2
    BY <1>6
  <2> QED  BY <1>5, <1>10, <1>11, <2>1
<1>13. PICK d : d = Trim(r)
  OBVIOUS
<1>14. /\ d \in Seq(Char) /\ 2 - 1 <= Len(d) /\ Len(d) <= Len(r) - 1
       /\ \A i \in 1 .. Len(d) : d[i] = r[i + 1]
       /\ r[Len(r)] # Space => Len(d) = Len(r) - 1
  BY <1>10, <1>12, <1>13, TrimBehindSpace, Zenon
<1>15. BehindUser(d, <<>>) = d
  BY Zenon DEF BehindUser
<1>16. C2HMessage_get(f) = [type |-> "/msg", user |-> <<>>, content |-> d]
  <2>1. "/msg" # Null
    BY DEF Null
  <2> QED  BY <1>7, <1>8, <1>9, <1>10, <1>13, <1>15, <2>1, Zenon DEF C2HMessage_get
<1>17. Len(d) >= 1 /\ Len(d) <= Len(c) /\ Len(d) <= k - 2 /\ Len(d) \in Nat
  BY <1>6, <1>10, <1>14
<1>18. \A i \in 1 .. Len(d) : d[i] = c[i]
  <2>1. \A i \in 1 .. Len(d) : i + 1 \in 2 .. k - 1 /\ (i + 1) - 1 = i
    BY <1>6, <1>17
  <2> QED  BY <1>11, <1>14, <2>1
<1>19. IsStart(d, c)
  BY <1>14, <1>17, <1>18 DEF IsStart
<1>20. ASSUME c[Len(c)] # Space, 2 + Len(c) < Size
       PROVE  Len(d) = Len(c)
  <2>1. k = Len(c) + 2 /\ Len(r) = Len(c) + 1 /\ Len(r) \in 2 .. k - 1 /\ Len(r) - 1 = Len(c)
    BY <1>1, <1>6, <1>10, <1>20
  <2>2. r[Len(r)] = c[Len(c)]
    BY <1>11, <2>1
  <2> QED  BY <1>14, <1>20, <2>1, <2>2
<1>21. PICK g : g = C2HMessage_get(f)
  OBVIOUS
<1>22. g.type = "/msg" /\ g.content = d
  BY <1>16, <1>21
<1> QED
  BY <1>3, <1>19, <1>20, <1>21, <1>22, Zenon

\* A message that the client creates from such a text.
LEMMA PlainCreated ==
  ASSUME NEW c \in Seq(Char), Len(c) >= 1, \A i \in 1 .. Len(c) : c[i] # "["
  PROVE  LET m == C2HMessage_create("/msg", c)
         IN  /\ m.type = "/msg" /\ m.user = <<>> /\ IsStart(m.content, c)
             /\ Len(c) < Size => Len(m.content) = Len(c)
<1>1. PICK t : t = Truncate(c)
  OBVIOUS
<1>2. /\ t \in Seq(Char) /\ Len(t) = IF Len(c) <= Size - 1 THEN Len(c) ELSE Size - 1
      /\ \A i \in 1 .. Len(t) : t[i] = c[i]
  BY <1>1, TruncateProperties, Zenon
<1>3. /\ Len(t) >= 1 /\ Len(t) <= Len(c) /\ Len(t) \in Nat /\ Len(c) \in Nat
      /\ Len(c) < Size => Len(t) = Len(c)
  BY <1>2, NickProperties
<1>4. Message_getUser(t, "/msg") = <<>>
  <2>1. \A i \in 1 .. Len(t) : t[i] # "["
    BY <1>2, <1>3
  <2> QED  BY <1>2, <2>1, NoUser, Zenon
<1>5. C2HMessage_create("/msg", c) = [type |-> "/msg", user |-> <<>>, content |-> t]
  BY <1>1, <1>4, Zenon DEF C2HMessage_create, BehindUser
<1>6. IsStart(t, c)
  BY <1>2, <1>3 DEF IsStart
<1>7. PICK m : m = C2HMessage_create("/msg", c)
  OBVIOUS
<1>8. m.type = "/msg" /\ m.user = <<>> /\ m.content = t
  BY <1>5, <1>7
<1> QED
  BY <1>3, <1>6, <1>7, <1>8, Zenon

\* What is said in a plain line has no opening bracket, and no space at its
\* ends.
LEMMA SaidProperties ==
  ASSUME NEW text \in Seq(Char)
  PROVE  /\ Said(text) \in Seq(Char)
         /\ Said(text) # <<>> =>
              Len(Said(text)) >= 1 /\ Said(text)[1] # Space /\ Said(text)[Len(Said(text))] # Space
         /\ IsPlain(text) => \A i \in 1 .. Len(Said(text)) : Said(text)[i] # "["
<1>1. PICK s : s = Trim(text)
  OBVIOUS
<1>2. /\ s \in Seq(Char)
      /\ s # <<>> => Len(s) >= 1 /\ s[1] # Space /\ s[Len(s)] # Space
      /\ \A i \in 1 .. Len(s) : \E j \in 1 .. Len(text) : s[i] = text[j]
  BY <1>1, TrimProperties, Zenon
<1>3. ASSUME IsPlain(text)
      PROVE  \A i \in 1 .. Len(s) : s[i] # "["
  <2>1. Chars(text) \cap Brackets = {}
    BY <1>3, Zenon DEF IsPlain
  <2>2. \A j \in DOMAIN text : text[j] \in Chars(text)
    BY Zenon DEF Chars
  <2>3. DOMAIN text = 1 .. Len(text) /\ "[" \in Brackets
    BY DEF Brackets
  <2>4. \A j \in 1 .. Len(text) : text[j] # "["
    BY <2>1, <2>2, <2>3, Zenon
  <2> QED  BY <1>2, <2>4, Zenon
<1>4. PICK x : x = Said(text)
  OBVIOUS
<1>5. CASE s # <<>> /\ Head(s) = "/msg"
  <2>1. x = Trim(Tail(s))
    BY <1>1, <1>4, <1>5, Zenon DEF Said
  <2>2. PICK t : t = Tail(s)
    OBVIOUS
  <2>3. t \in Seq(Char) /\ Len(t) = Len(s) - 1 /\ \A i \in 1 .. Len(t) : t[i] = s[i + 1]
    BY <1>2, <1>5, <2>2, HeadTailProperties, Zenon
  <2>4. /\ x \in Seq(Char) /\ (x # <<>> => Len(x) >= 1 /\ x[1] # Space /\ x[Len(x)] # Space)
        /\ \A i \in 1 .. Len(x) : \E j \in 1 .. Len(t) : x[i] = t[j]
    BY <2>1, <2>2, <2>3, TrimProperties, Zenon
  <2>5. IsPlain(text) => \A i \in 1 .. Len(t) : t[i] # "["
    <3>1. \A i \in 1 .. Len(t) : i + 1 \in 1 .. Len(s)
      BY <1>2, <2>3
    <3> QED  BY <1>3, <2>3, <3>1, Zenon
  <2>6. IsPlain(text) => \A i \in 1 .. Len(x) : x[i] # "["
    BY <2>4, <2>5, Zenon
  <2> QED  BY <1>4, <2>4, <2>6, Zenon
<1>6. CASE ~(s # <<>> /\ Head(s) = "/msg")
  <2>1. x = s
    BY <1>1, <1>4, <1>6, Zenon DEF Said
  <2> QED  BY <1>2, <1>3, <1>4, <2>1, Zenon
<1> QED
  BY <1>5, <1>6, Zenon

\* What is left of a line, character by character.
LEMMA CutIsStart ==
  ASSUME NEW text \in Seq(Char), NEW d \in Seq(Char)
  PROVE  IsCutOf(d, text) <=>
           /\ IsStart(d, Said(text))
           /\ Fits(text) => Len(d) = Len(Said(text))
<1>1. PICK x : x = Said(text)
  OBVIOUS
<1>2. x \in Seq(Char) /\ Len(x) \in Nat /\ Len(d) \in Nat /\ (d # <<>> <=> 1 <= Len(d))
  <2>1. x \in Seq(Char)
    BY <1>1, SaidProperties
  <2> QED  BY <2>1
<1>3. IsPrefix(d, x) <=> Len(d) <= Len(x) /\ \A i \in 1 .. Len(d) : d[i] = x[i]
  <2>1. SubSeq(d, 1, Len(d)) = d
    BY SubSeqFull
  <2>2. CASE Len(d) <= Len(x)
    <3>1. 1 \in Nat \ {0} /\ Len(d) \in 0 .. Len(x)
      BY <1>2, <2>2
    <3>2. PICK y : y = SubSeq(x, 1, Len(d))
      OBVIOUS
    <3>3. y \in Seq(Char) /\ Len(y) = Len(d) /\ \A i \in 1 .. Len(y) : y[i] = x[i]
      <4>1. PICK z : z = Len(d)
        OBVIOUS
      <4>2. /\ y \in Seq(Char) /\ Len(y) = IF 1 <= z THEN (z - 1) + 1 ELSE 0
            /\ \A i \in 1 .. Len(y) : y[i] = x[(1 + i) - 1]
        BY <1>2, <3>1, <3>2, <4>1, PartOf
      <4> QED  BY <1>2, <4>1, <4>2
    <3>4. d = y <=> \A i \in 1 .. Len(d) : d[i] = x[i]
      <4>1. ASSUME \A i \in 1 .. Len(d) : d[i] = x[i]
            PROVE  d = y
        <5>1. \A i \in 1 .. Len(d) : d[i] = y[i]
          BY <3>3, <4>1
        <5> QED  BY <3>3, <5>1, SameString, Zenon
      <4>2. ASSUME d = y
            PROVE  \A i \in 1 .. Len(d) : d[i] = x[i]
        BY <3>3, <4>2
      <4> QED  BY <4>1, <4>2
    <3> QED  BY <2>1, <2>2, <3>2, <3>4, Zenon DEF IsPrefix
  <2>3. CASE ~(Len(d) <= Len(x))
    BY <2>3, Zenon DEF IsPrefix
  <2> QED  BY <2>2, <2>3, Zenon
<1>4. IsPrefix(d, x) => (d = x <=> Len(d) = Len(x))
  <2>1. ASSUME IsPrefix(d, x), Len(d) = Len(x)
        PROVE  d = x
    <3>1. \A i \in 1 .. Len(d) : d[i] = x[i]
      BY <1>3, <2>1, Zenon
    <3> QED  BY <1>2, <2>1, <3>1, SameString, Zenon
  <2> QED  BY <2>1, Zenon
<1> QED
  BY <1>1, <1>2, <1>3, <1>4, Zenon DEF IsCutOf, IsStart

\* A cut of a cut is a cut.
LEMMA StartOfStart ==
  ASSUME NEW d, NEW c, NEW e, e \in Seq(Char), IsStart(d, c), IsStart(c, e)
  PROVE  IsStart(d, e)
<1>1. d \in Seq(Char) /\ c \in Seq(Char) /\ Len(d) \in Nat /\ Len(c) \in Nat /\ Len(e) \in Nat
  BY DEF IsStart
<1>2. Len(d) <= Len(c) /\ Len(c) <= Len(e) /\ 1 <= Len(d)
  BY DEF IsStart
<1>3. \A i \in 1 .. Len(d) : i \in 1 .. Len(c)
  BY <1>1, <1>2
<1>4. \A i \in 1 .. Len(d) : d[i] = e[i]
  BY <1>3, Zenon DEF IsStart
<1>5. Len(d) <= Len(e)
  BY <1>1, <1>2
<1> QED
  BY <1>1, <1>2, <1>4, <1>5, Zenon DEF IsStart

\* The client makes a message of a plain line.
LEMMA EnteredPlain ==
  ASSUME NEW text \in Seq(Char), IsPlain(text)
  PROVE  LET m == C2HMessage_createFromString(Trim(text))
         IN  /\ m = C2HMessage_create("/msg", Said(text))
             /\ m.type = "/msg" /\ m.user = <<>> /\ IsCutOf(m.content, text)
<1>1. PICK s, x : s = Trim(text) /\ x = Said(text)
  OBVIOUS
<1>2. s \in Seq(Char) /\ x \in Seq(Char)
  BY <1>1, TrimProperties, SaidProperties
<1>3. x # <<>> /\ Head(s) \notin MessageTypes \ {"/msg"}
  BY <1>1, Zenon DEF IsPlain, IsChat
<1>4. Trim(<<>>) = <<>>
  <2>1. <<>> \in Seq(Char) /\ \A i \in 1 .. Len(<<>>) : <<>>[i] = Space
    OBVIOUS
  <2> QED  BY <2>1, TrimOfBlank, Zenon
<1>5. PICK p : p = Message_getType(s)
  OBVIOUS
<1>6. PICK m : m = C2HMessage_createFromString(s)
  OBVIOUS
<1>7. "/msg" \in MessageTypes /\ Null # "/msg"
  BY DEF MessageTypes, Null
<1>8. m = C2HMessage_create("/msg", x)
  <2>1. CASE s # <<>> /\ Head(s) = "/msg"
    <3>1. x = Trim(Tail(s))
      BY <1>1, <2>1, Zenon DEF Said
    <3>2. Tail(s) # <<>>
      BY <1>3, <1>4, <3>1, Zenon
    <3>3. p = [type |-> "/msg", rest |-> Tail(s)]
      BY <1>5, <1>7, <2>1, <3>2, Zenon DEF Message_getType
    <3>4. p.type = "/msg" /\ p.rest = Tail(s)
      BY <3>3
    <3> QED  BY <1>5, <1>6, <1>7, <3>1, <3>4, Zenon DEF C2HMessage_createFromString
  <2>2. CASE ~(s # <<>> /\ Head(s) = "/msg")
    <3>1. x = s
      BY <1>1, <2>2, Zenon DEF Said
    <3>2. Head(s) \notin MessageTypes
      BY <1>3, <2>2, <3>1, Zenon
    <3>3. p = [type |-> Null, rest |-> s]
      BY <1>5, <3>2, Zenon DEF Message_getType
    <3>4. p.type = Null /\ p.rest = s
      BY <3>3
    <3>5. Null \notin {"/msg", "/nick", "/quit"}
      BY DEF Null
    <3> QED  BY <1>5, <1>6, <3>1, <3>4, <3>5, Zenon DEF C2HMessage_createFromString
  <2> QED  BY <2>1, <2>2, Zenon
<1>9. Len(x) >= 1 /\ \A i \in 1 .. Len(x) : x[i] # "["
  BY <1>1, <1>3, SaidProperties, Zenon
<1>10. /\ m.type = "/msg" /\ m.user = <<>> /\ IsStart(m.content, x)
       /\ Len(x) < Size => Len(m.content) = Len(x)
  BY <1>2, <1>8, <1>9, PlainCreated, Zenon
<1>11. m.content \in Seq(Char)
  BY <1>10, Zenon DEF IsStart
<1>12. Fits(text) => Len(x) < Size
  BY <1>1, <1>2, NickProperties DEF Fits
<1>13. IsCutOf(m.content, text)
  BY <1>1, <1>10, <1>11, <1>12, CutIsStart, Zenon
<1> QED
  BY <1>1, <1>6, <1>8, <1>10, <1>13, Zenon

\* What is left of a plain line starts with a character that is no space and
\* has no opening bracket; if the line fits it ends with no space either.
LEMMA CutProperties ==
  ASSUME NEW text \in Seq(Char), IsPlain(text), NEW c \in Seq(Char), IsCutOf(c, text)
  PROVE  /\ IsStart(c, Said(text)) /\ Len(c) >= 1 /\ c[1] # Space
         /\ \A i \in 1 .. Len(c) : c[i] # "["
         /\ Fits(text) => /\ Len(c) = Len(Said(text)) /\ c[Len(c)] # Space
                          /\ Len(Nick) + 5 + Len(c) < Size
<1>1. PICK x : x = Said(text)
  OBVIOUS
<1>2. x \in Seq(Char) /\ x # <<>>
  BY <1>1, SaidProperties, Zenon DEF IsPlain, IsChat
<1>3. /\ Len(x) >= 1 /\ x[1] # Space /\ x[Len(x)] # Space
      /\ \A i \in 1 .. Len(x) : x[i] # "["
  BY <1>1, <1>2, SaidProperties, Zenon
<1>4. IsStart(c, x) /\ (Fits(text) => Len(c) = Len(x))
  BY <1>1, CutIsStart, Zenon
<1>5. /\ Len(c) \in Nat /\ Len(x) \in Nat /\ 1 <= Len(c) /\ Len(c) <= Len(x)
      /\ \A i \in 1 .. Len(c) : c[i] = x[i]
  BY <1>2, <1>4 DEF IsStart
<1>6. c[1] # Space /\ \A i \in 1 .. Len(c) : c[i] # "["
  <2>1. 1 \in 1 .. Len(c) /\ \A i \in 1 .. Len(c) : i \in 1 .. Len(x)
    BY <1>5
  <2> QED  BY <1>3, <1>5, <2>1
<1>7. ASSUME Fits(text)
      PROVE  Len(c) = Len(x) /\ c[Len(c)] # Space /\ Len(Nick) + 5 + Len(c) < Size
  <2>1. Len(c) = Len(x)
    BY <1>4, <1>7
  <2>2. Len(c) \in 1 .. Len(c)
    BY <1>5
  <2>3. c[Len(c)] = x[Len(x)]
    BY <1>5, <2>1, <2>2
  <2>4. 2 + Len(Nick) + 3 + Len(x) < Size
    BY <1>1, <1>7, Zenon DEF Fits
  <2> QED  BY <1>3, <1>5, <2>1, <2>3, <2>4, NickProperties
<1> QED
  BY <1>1, <1>4, <1>5, <1>6, <1>7, Zenon

-----------------------------------------------------------------------------
(* The invariant. *)

\* A line that nobody has entered yet.
LEMMA InitKeepsText == Init => TextInvariant
<1> SUFFICES ASSUME Init PROVE TextInvariant
  OBVIOUS
<1>1. stage = "typing" /\ typed \in Seq(Char) /\ wire = <<>> /\ message = NoMessage
  BY TextsAssumption, Zenon DEF Init
<1>2. wire \in Seq(Char) /\ Len(wire) < Size
  BY <1>1, NickProperties
<1>3. IsGood(message)
  BY <1>1, NoMessageIsGood, Zenon
<1>4. TypeOK
  <2>1. stage \notin {"queued", "broadcast", "shown"}
    BY <1>1
  <2> QED  BY <1>1, <1>2, <1>3, <2>1, GoodAtStage, Zenon DEF TypeOK, IsGood
<1>5. stage \notin {"sent", "queued", "broadcast", "shown", "dropped", "left"}
  BY <1>1
<1> QED
  BY <1>1, <1>4, <1>5, Zenon DEF TextInvariant, MessageIsSent, AuthorIsSender, TextIsKept

\* The fields of a good message, in one place.
LEMMA GoodFields ==
  ASSUME NEW m, IsGood(m)
  PROVE  /\ m \in Message \cup {NoMessage} /\ m.content \in Seq(Char)
         /\ m.type # Null => m \in Message
<1>1. m \in Message \cup {NoMessage}
  BY Zenon DEF IsGood
<1>2. NoMessage.type = Null /\ NoMessage.content = <<>> /\ <<>> \in Seq(Char)
  BY DEF NoMessage
<1>3. m \in Message => m.content \in Seq(Char)
  BY DEF Message
<1> QED
  BY <1>1, <1>2, <1>3, Zenon

\* The client makes a message of the line and sends it, unless it is not
\* something to send.
LEMMA EnterKeepsText ==
  ASSUME TextInvariant, Client_Enter
  PROVE  TextInvariant'
<1>1. PICK m : m = C2HMessage_createFromString(Trim(typed))
  OBVIOUS
<1>2. typed \in Seq(Char) /\ wire \in Seq(Char) /\ Len(wire) < Size
  BY Zenon DEF TextInvariant, TypeOK
<1>3. Trim(typed) \in Seq(Char)
  BY <1>2, TrimProperties
<1>4. IsGood(m) /\ message' = m /\ typed' = typed
  BY <1>1, <1>3, EnteredIsGood, Zenon DEF Client_Enter
<1>5. \/ m = NoMessage /\ stage' = "dropped" /\ wire' = wire
      \/ m.type = "/quit" /\ stage' = "left" /\ wire' = wire
      \/ m # NoMessage /\ stage' = "sent" /\ wire' = C2HMessage_format(m)
  BY <1>1, Zenon DEF Client_Enter
<1>6. m # NoMessage => m \in Message
  BY <1>4, Zenon DEF IsGood
<1>7. wire' \in Seq(Char) /\ Len(wire') < Size
  <2>1. m # NoMessage => C2HMessage_format(m) \in Seq(Char) /\ Len(C2HMessage_format(m)) < Size
    BY <1>6, FormattedFits, Zenon
  <2> QED  BY <1>2, <1>5, <2>1, Zenon
<1>8. stage' \in {"dropped", "left", "sent"}
  BY <1>5, Zenon
<1>9. TypeOK'
  <2>1. typed' \in Seq(Char) /\ IsGood(message')
    BY <1>2, <1>4, Zenon
  <2>2. stage' \in {"typing", "sent", "queued", "broadcast", "shown", "dropped", "left"}
    BY <1>8, Zenon
  <2>3. stage' \notin {"queued", "broadcast", "shown"}
    BY <1>8
  <2>4. IsGood(m) /\ message' = m
    BY <1>4, Zenon
  <2>5. /\ Len(m.content) < Size /\ (Len(m.user) < MaxNick \/ Overrun(m))
        /\ m \in Message \cup {NoMessage}
    BY <2>3, <2>4, GoodAtStage, Zenon DEF IsGood
  <2> QED  BY <1>7, <2>1, <2>2, <2>3, <2>4, <2>5, Zenon DEF TypeOK, Overrun
<1>10. MessageIsSent' /\ AuthorIsSender'
  <2>1. stage' \notin {"queued", "broadcast", "shown"}
    BY <1>8
  <2>2. stage' = "sent" => wire' = C2HMessage_format(message')
    BY <1>4, <1>5
  <2> QED  BY <2>1, <2>2, Zenon DEF MessageIsSent, AuthorIsSender
<1>11. TextIsKept'
  <2>1. ASSUME IsPlain(typed)
        PROVE  m.type = "/msg" /\ m.user = <<>> /\ IsCutOf(m.content, typed)
    BY <1>1, <1>2, <2>1, EnteredPlain, Zenon
  <2>2. NoMessage.type = Null /\ Null # "/msg" /\ "/quit" # "/msg"
    BY DEF NoMessage, Null
  <2>3. IsPlain(typed) => stage' = "sent"
    BY <1>5, <2>1, <2>2, Zenon
  <2>4. "sent" \notin {"dropped", "left"}
    OBVIOUS
  <2> QED  BY <1>4, <2>1, <2>3, <2>4, Zenon DEF TextIsKept
<1> QED
  BY <1>9, <1>10, <1>11, Zenon DEF TextInvariant

\* The server takes the message out of its buffer and tags the text.
LEMMA HandleKeepsText ==
  ASSUME TextInvariant, Server_Handle
  PROVE  TextInvariant'
<1>1. PICK g : g = C2HMessage_get(wire)
  OBVIOUS
<1>2. /\ stage = "sent" /\ typed \in Seq(Char) /\ wire \in Seq(Char) /\ Len(wire) < Size
      /\ wire = C2HMessage_format(message) /\ IsGood(message)
  BY GoodByType, Zenon DEF TextInvariant, TypeOK, MessageIsSent, Server_Handle
<1>3. IsGood(g) /\ g.content \in Seq(Char)
  BY <1>1, <1>2, TakenIsGood, GoodFields, Zenon
<1>4. typed' = typed /\ wire' = wire
  BY Zenon DEF Server_Handle
<1>5. \/ /\ g.type = "/msg" /\ g.content # <<>>
         /\ stage' = "queued" /\ message' = Server_broadcastMessage(g.content)
      \/ ~(g.type = "/msg" /\ g.content # <<>>) /\ stage' = "dropped" /\ message' = g
  BY <1>1, Zenon DEF Server_Handle
<1>6. PICK b : b = Server_broadcastMessage(g.content)
  OBVIOUS
<1>7. IsGood(b)
  <2>1. "/msg" \in MessageTypes
    BY DEF MessageTypes
  <2>2. Nick \in Seq(Char)
    BY NickProperties
  <2>3. WithUser(Nick, g.content) \in Seq(Char)
    BY <1>3, <2>2, WithUserIsString, Zenon
  <2>4. Truncate(WithUser(Nick, g.content)) \in Seq(Char)
    BY <2>3, TruncateProperties, Zenon
  <2> QED  BY <1>6, <2>1, <2>4, CreatedIsGood, Zenon DEF Server_broadcastMessage
<1>8. PICK c : c = g.content
  OBVIOUS
<1>9. c # <<>> => /\ b.type = "/msg" /\ b.user = Nick /\ IsStart(b.content, c)
                  /\ Len(Nick) + 3 + Len(c) < Size => Len(b.content) = Len(c)
  <2>1. c \in Seq(Char)
    BY <1>3, <1>8, Zenon
  <2>2. c # <<>> => Len(c) >= 1
    BY <2>1
  <2> QED  BY <1>6, <1>8, <2>1, <2>2, BroadcastProperties, Zenon
<1>10. TypeOK'
  <2>1. stage' \in {"queued", "dropped"} /\ IsGood(message')
    BY <1>3, <1>5, <1>6, <1>7, Zenon
  <2>2. stage' \in {"typing", "sent", "queued", "broadcast", "shown", "dropped", "left"}
    BY <2>1, Zenon
  <2>3. PICK m, st : m = message' /\ st = stage'
    OBVIOUS
  <2>4. st \in {"queued", "broadcast", "shown"} => m.user = Nick
    <3>1. "dropped" \notin {"queued", "broadcast", "shown"}
      OBVIOUS
    <3> QED  BY <1>5, <1>6, <1>8, <1>9, <2>3, <3>1, Zenon
  <2>5. /\ Len(m.content) < Size /\ (Len(m.user) < MaxNick \/ Overrun(m))
        /\ st \in {"queued", "broadcast", "shown"} => ~Overrun(m)
        /\ m \in Message \cup {NoMessage}
    BY <2>1, <2>3, <2>4, GoodAtStage, Zenon DEF IsGood
  <2> QED  BY <1>2, <1>4, <2>2, <2>3, <2>5, Zenon DEF TypeOK, Overrun
<1>11. MessageIsSent' /\ AuthorIsSender'
  <2>1. stage' \in {"queued", "dropped"}
    BY <1>5, Zenon
  <2>2. stage' \notin {"sent", "broadcast", "shown"}
    BY <2>1
  <2>3. stage' \in {"queued", "broadcast"} => message'.type = "/msg" /\ message'.user = Nick
    <3>1. "dropped" \notin {"queued", "broadcast"}
      OBVIOUS
    <3> QED  BY <1>5, <1>6, <1>8, <1>9, <3>1, Zenon
  <2> QED  BY <2>2, <2>3, Zenon DEF MessageIsSent, AuthorIsSender
<1>12. TextIsKept'
  <2>1. ASSUME IsPlain(typed)
        PROVE  stage' = "queued" /\ IsCutOf(message'.content, typed)
    <3>1. /\ message.type = "/msg" /\ message.user = <<>>
          /\ IsCutOf(message.content, typed)
      BY <1>2, <2>1, Zenon DEF TextInvariant, TextIsKept
    <3>2. PICK e : e = message.content
      OBVIOUS
    <3>3. e \in Seq(Char) /\ message \in Message
      <4>1. "/msg" # Null
        BY DEF Null
      <4> QED  BY <1>2, <3>1, <3>2, <4>1, GoodFields, Zenon
    <3>4. /\ IsStart(e, Said(typed)) /\ Len(e) >= 1 /\ e[1] # Space
          /\ \A i \in 1 .. Len(e) : e[i] # "["
          /\ Fits(typed) => /\ Len(e) = Len(Said(typed)) /\ e[Len(e)] # Space
                            /\ Len(Nick) + 5 + Len(e) < Size
      BY <1>2, <2>1, <3>1, <3>2, <3>3, CutProperties, Zenon
    <3>5. /\ g.type = "/msg" /\ IsStart(c, e)
          /\ e[Len(e)] # Space /\ 2 + Len(e) < Size => Len(c) = Len(e)
      BY <1>1, <1>2, <1>8, <3>1, <3>2, <3>3, <3>4, PlainArrives, Zenon
    <3>6. c # <<>> /\ Len(c) \in Nat /\ Len(e) \in Nat /\ Len(Nick) \in Nat /\ Size \in Nat
      BY <3>3, <3>5, NickProperties DEF IsStart
    <3>7. stage' = "queued" /\ message' = b
      BY <1>5, <1>6, <1>8, <3>5, <3>6, Zenon
    <3>8. Said(typed) \in Seq(Char)
      BY <1>2, SaidProperties
    <3>9. IsStart(b.content, Said(typed))
      BY <1>9, <3>4, <3>5, <3>6, <3>8, StartOfStart, Zenon
    <3>10. ASSUME Fits(typed)
           PROVE  Len(b.content) = Len(Said(typed))
      <4>1. Len(e) = Len(Said(typed)) /\ e[Len(e)] # Space /\ Len(Nick) + 5 + Len(e) < Size
        BY <3>4, <3>10, Zenon
      <4>2. 2 + Len(e) < Size /\ Len(Nick) + 3 + Len(e) < Size
        BY <3>6, <4>1
      <4>3. Len(c) = Len(e)
        BY <3>5, <4>1, <4>2, Zenon
      <4> QED  BY <1>9, <3>6, <4>1, <4>2, <4>3, Zenon
    <3>11. b.content \in Seq(Char)
      BY <3>9, Zenon DEF IsStart
    <3>12. IsCutOf(b.content, typed)
      BY <1>2, <3>9, <3>10, <3>11, CutIsStart, Zenon
    <3> QED  BY <3>7, <3>12, Zenon
  <2>2. "queued" \notin {"dropped", "left"} /\ "queued" # "sent"
    OBVIOUS
  <2> QED  BY <1>4, <2>1, <2>2, Zenon DEF TextIsKept
<1> QED
  BY <1>10, <1>11, <1>12, Zenon DEF TextInvariant

\* The message is sent to a client.
LEMMA SendKeepsText ==
  ASSUME TextInvariant, Server_Send
  PROVE  TextInvariant'
<1>1. /\ stage = "queued" /\ stage' = "broadcast" /\ typed' = typed /\ message' = message
      /\ wire' = C2HMessage_format(message)
      /\ TypeOK /\ message.type = "/msg" /\ message.user = Nick
  BY Zenon DEF TextInvariant, MessageIsSent, Server_Send
<1>2. message \in Message
  <2>1. "/msg" # Null /\ IsGood(message)
    BY <1>1, GoodByType, Zenon DEF Null
  <2> QED  BY <1>1, <2>1, GoodFields, Zenon
<1>3. wire' \in Seq(Char) /\ Len(wire') < Size
  BY <1>1, <1>2, FormattedFits, Zenon
<1>4. "broadcast" \notin {"dropped", "left", "sent", "shown", "typing"} /\ "queued" # "typing"
  OBVIOUS
<1>5. TypeOK'
  <2>1. "queued" \in {"queued", "broadcast", "shown"}
    OBVIOUS
  <2>2. ~Overrun(message)
    BY <1>1, <2>1, Zenon DEF TypeOK
  <2> QED  BY <1>1, <1>3, <2>2, Zenon DEF TypeOK, Overrun
<1>6. MessageIsSent' /\ AuthorIsSender'
  BY <1>1, <1>4, Zenon DEF MessageIsSent, AuthorIsSender
<1>7. TextIsKept'
  <2>1. IsPlain(typed) => IsCutOf(message.content, typed)
    BY <1>1, <1>4, Zenon DEF TextInvariant, TextIsKept
  <2> QED  BY <1>1, <1>4, <2>1, Zenon DEF TextIsKept
<1> QED
  BY <1>5, <1>6, <1>7, Zenon DEF TextInvariant

\* The client takes it out of its buffer and shows it.
LEMMA ShowKeepsText ==
  ASSUME TextInvariant, Client_Show
  PROVE  TextInvariant'
<1>1. /\ stage = "broadcast" /\ stage' = "shown" /\ typed' = typed /\ wire' = wire
      /\ message' = C2HMessage_get(wire) /\ wire = C2HMessage_format(message)
      /\ TypeOK /\ message.type = "/msg" /\ message.user = Nick
  BY Zenon DEF TextInvariant, MessageIsSent, Client_Show
<1>2. /\ typed \in Seq(Char) /\ wire \in Seq(Char) /\ Len(wire) < Size
      /\ IsGood(message)
  BY <1>1, GoodByType, Zenon DEF TypeOK
<1>3. message \in Message
  <2>1. "/msg" # Null
    BY DEF Null
  <2> QED  BY <1>1, <1>2, <2>1, GoodFields, Zenon
<1>4. IsGood(message') /\ message'.content \in Seq(Char)
  BY <1>1, <1>2, TakenIsGood, GoodFields, Zenon
<1>5. PICK c, d : c = message.content /\ d = message'.content
  OBVIOUS
<1>6. /\ message'.type = "/msg" /\ message'.user = Nick
      /\ Len(c) >= 1 /\ c[1] # Space => IsStart(d, c)
      /\ /\ Len(c) >= 1 /\ c[1] # Space /\ c[Len(c)] # Space
         /\ Len(Nick) + 5 + Len(c) < Size
         => Len(d) = Len(c)
  BY <1>1, <1>3, <1>5, TaggedArrives, Zenon
<1>7. "shown" \notin {"sent", "queued", "broadcast", "dropped", "left"}
      /\ "broadcast" \notin {"typing", "dropped", "left"}
  OBVIOUS
<1>8. TypeOK'
  <2>1. PICK m : m = message'
    OBVIOUS
  <2>2. /\ Len(m.content) < Size /\ (Len(m.user) < MaxNick \/ Overrun(m))
        /\ stage' \in {"queued", "broadcast", "shown"} => ~Overrun(m)
        /\ m \in Message \cup {NoMessage}
    BY <1>4, <1>6, <2>1, GoodAtStage, Zenon DEF IsGood
  <2> QED  BY <1>1, <1>2, <2>1, <2>2, Zenon DEF TypeOK, Overrun
<1>9. MessageIsSent' /\ AuthorIsSender'
  BY <1>1, <1>6, <1>7, Zenon DEF MessageIsSent, AuthorIsSender
<1>10. TextIsKept'
  <2>1. ASSUME IsPlain(typed)
        PROVE  IsCutOf(d, typed)
    <3>1. IsCutOf(c, typed)
      BY <1>1, <1>5, <1>7, <2>1, Zenon DEF TextInvariant, TextIsKept
    <3>2. c \in Seq(Char) /\ d \in Seq(Char)
      BY <1>2, <1>4, <1>5, GoodFields, Zenon
    <3>3. /\ IsStart(c, Said(typed)) /\ Len(c) >= 1 /\ c[1] # Space
          /\ Fits(typed) => /\ Len(c) = Len(Said(typed)) /\ c[Len(c)] # Space
                            /\ Len(Nick) + 5 + Len(c) < Size
      BY <1>2, <2>1, <3>1, <3>2, CutProperties, Zenon
    <3>4. Said(typed) \in Seq(Char)
      BY <1>2, SaidProperties
    <3>5. IsStart(d, Said(typed))
      BY <1>6, <3>3, <3>4, StartOfStart, Zenon
    <3>6. Fits(typed) => Len(d) = Len(Said(typed))
      BY <1>6, <3>3, Zenon
    <3> QED  BY <1>2, <3>2, <3>5, <3>6, CutIsStart, Zenon
  <2> QED  BY <1>1, <1>5, <1>7, <2>1, Zenon DEF TextIsKept
<1> QED
  BY <1>8, <1>9, <1>10, Zenon DEF TextInvariant

\* The inductive invariant: a message between two stations is what its sender
\* formatted, those of the server carry the nickname of the user who typed the
\* line, and of a plain line nothing but its end may be missing.
THEOREM TextInvariantHolds == Spec => []TextInvariant
<1>1. Init => TextInvariant
  BY InitKeepsText
<1>2. TextInvariant /\ [Next]_vars => TextInvariant'
  <2> SUFFICES ASSUME TextInvariant, [Next]_vars PROVE TextInvariant'
    OBVIOUS
  <2>1. CASE Client_Enter
    BY <2>1, EnterKeepsText
  <2>2. CASE Server_Handle
    BY <2>2, HandleKeepsText
  <2>3. CASE Server_Send
    BY <2>3, SendKeepsText
  <2>4. CASE Client_Show
    BY <2>4, ShowKeepsText
  <2>5. CASE UNCHANGED vars
    <3>1. typed' = typed /\ wire' = wire /\ message' = message /\ stage' = stage
      BY <2>5 DEF vars
    <3> QED  BY <3>1, Zenon DEF TextInvariant, TypeOK, Overrun, MessageIsSent,
                                AuthorIsSender, TextIsKept
  <2> QED  BY <2>1, <2>2, <2>3, <2>4, <2>5, Zenon DEF Next
<1> QED
  BY <1>1, <1>2, PTL DEF Spec

\* No string outgrows its buffer (snprintf() of message.c), and where a user outgrows
\* its field by the terminator (Message_getUser()) the message is not one that the
\* server broadcasts or a client shows.
THEOREM TextTypesHold == Spec => []TypeOK
<1>1. TextInvariant => TypeOK
  BY DEF TextInvariant
<1> QED
  BY <1>1, TextInvariantHolds, PTL

\* Whatever brackets a user types, the author that is shown is the nickname
\* that the server put in front of the text.
THEOREM AuthorsAreTrue == Spec => []AuthorIsSender
<1>1. TextInvariant => AuthorIsSender
  BY DEF TextInvariant
<1> QED
  BY <1>1, TextInvariantHolds, PTL

\* A line without brackets reaches the screen of the others, whole if it has
\* room in the buffers and cut at its end otherwise.
THEOREM PlainTextIsShown == Spec => []PlainTextArrives
<1>1. TextInvariant => PlainTextArrives
  <2>1. "shown" # "typing"
    OBVIOUS
  <2> QED  BY <2>1, Zenon DEF TextInvariant, TextIsKept, PlainTextArrives
<1> QED
  BY <1>1, TextInvariantHolds, PTL
=============================================================================
