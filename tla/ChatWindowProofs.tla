-------------------------- MODULE ChatWindowProofs --------------------------
(* Theorems about the log, the pages and the colours of ChatWindow, for every *)
(* limit of the cache, every size of the window, any nicknames and colours    *)
(* and any number of messages.                                                *)
EXTENDS ChatWindow, SequenceTheorems, FiniteSetTheorems, WellFoundedInduction,
        TLAPS

\* The smaller of two numbers.
LEMMA SmallerOfTwo ==
  ASSUME NEW a \in Int, NEW b \in Int
  PROVE  Min({a, b}) = IF a <= b THEN a ELSE b
<1>1. \E m \in {a, b} : \A n \in {a, b} : m <= n
  OBVIOUS
<1>2. Min({a, b}) \in {a, b} /\ \A n \in {a, b} : Min({a, b}) <= n
  BY <1>1, Zenon DEF Min
<1> QED
  BY <1>2

\* The length of the log, in numbers.
LEMMA LengthOfLog ==
  ASSUME LogInvariant
  PROVE  /\ Len(chatlog) \in Nat /\ logged \in Nat
         /\ Len(chatlog) = IF logged <= kMaxCachedLines THEN logged ELSE kMaxCachedLines
         /\ \A i \in 1 .. Len(chatlog) : chatlog[i].id = (logged - Len(chatlog)) + i
<1>1. chatlog \in Seq(Entry) /\ logged \in Nat /\ LogIsTail
  BY DEF LogInvariant
<1>2. DOMAIN chatlog = 1 .. Len(chatlog) /\ Len(chatlog) \in Nat
  BY <1>1
<1>3. Min({logged, kMaxCachedLines}) =
        IF logged <= kMaxCachedLines THEN logged ELSE kMaxCachedLines
  BY <1>1, SmallerOfTwo, CacheAssumption
<1> QED
  BY <1>1, <1>2, <1>3 DEF LogIsTail, Evicted

\* UIChatWin_logMessage, at the limit and below it.
LEMMA LoggingKeepsLog ==
  ASSUME LogInvariant, NEW content \in Content, LogMessage(content)
  PROVE  LogInvariant'
<1> DEFINE entry == [id |-> logged + 1, content |-> content]
           longer == Append(chatlog, entry)
<1>1. /\ lines > 0 /\ logged < MaxLogged
      /\ chatlog' = Cache(entry) /\ logged' = entry.id
      /\ currentLine' = currentLine /\ lines' = lines
  BY DEF LogMessage, displayVars
<1>2. /\ chatlog \in Seq(Entry) /\ logged \in 0 .. MaxLogged
      /\ currentLine \in Nat /\ lines \in Heights \cup {0}
      /\ currentLine = 0 \/ currentLine < Len(chatlog)
  BY DEF LogInvariant, LineIsInLog
<1>3. entry \in Entry /\ entry.id = logged + 1
  <2>1. logged + 1 \in 1 .. MaxLogged
    BY <1>1, <1>2, LoggedAssumption
  <2> QED
    BY <2>1 DEF Entry
<1>4. chatlog' = IF Len(longer) > kMaxCachedLines THEN Tail(longer) ELSE longer
  BY <1>1 DEF Cache
<1> HIDE DEF entry
<1>5. /\ Len(chatlog) \in Nat /\ logged \in Nat
      /\ Len(chatlog) = IF logged <= kMaxCachedLines THEN logged ELSE kMaxCachedLines
      /\ \A i \in 1 .. Len(chatlog) : chatlog[i].id = (logged - Len(chatlog)) + i
  BY LengthOfLog
<1>6. /\ longer \in Seq(Entry) /\ Len(longer) = Len(chatlog) + 1
      /\ \A i \in 1 .. Len(chatlog) : longer[i] = chatlog[i]
      /\ longer[Len(chatlog) + 1] = entry
  BY <1>2, <1>3
<1> HIDE DEF longer
<1>7. \A i \in 1 .. Len(longer) : longer[i].id = (logged - Len(chatlog)) + i
  BY <1>3, <1>5, <1>6
<1>8. /\ chatlog' \in Seq(Entry) /\ Len(chatlog') >= Len(chatlog) /\ Len(chatlog') > 0
      /\ Len(chatlog') = IF logged + 1 <= kMaxCachedLines THEN logged + 1
                                                          ELSE kMaxCachedLines
      /\ \A i \in 1 .. Len(chatlog') :
           chatlog'[i].id = (logged + 1 - Len(chatlog')) + i
  <2>1. CASE Len(longer) > kMaxCachedLines
    <3>1. chatlog' = Tail(longer)
      BY <1>4, <2>1
    <3>2. Len(chatlog) = kMaxCachedLines /\ kMaxCachedLines <= logged
      BY <1>5, <1>6, <2>1, CacheAssumption
    <3>3. /\ chatlog' \in Seq(Entry) /\ Len(chatlog') = Len(chatlog)
          /\ \A i \in 1 .. Len(chatlog') : chatlog'[i] = longer[i + 1]
      BY <1>5, <1>6, <3>1
    <3>4. \A i \in 1 .. Len(chatlog') :
            chatlog'[i].id = (logged - Len(chatlog)) + (i + 1)
      <4> SUFFICES ASSUME NEW i \in 1 .. Len(chatlog')
                   PROVE  chatlog'[i].id = (logged - Len(chatlog)) + (i + 1)
        OBVIOUS
      <4>1. i + 1 \in 1 .. Len(longer)
        BY <1>5, <1>6, <3>3
      <4> QED
        BY <1>7, <3>3, <4>1
    <3> QED
      BY <1>5, <3>2, <3>3, <3>4, CacheAssumption
  <2>2. CASE ~(Len(longer) > kMaxCachedLines)
    <3>1. chatlog' = longer
      BY <1>4, <2>2
    <3>2. Len(chatlog) = logged /\ logged + 1 <= kMaxCachedLines
      BY <1>5, <1>6, <2>2, CacheAssumption
    <3> QED
      BY <1>5, <1>6, <1>7, <3>1, <3>2
  <2> QED
    BY <2>1, <2>2
<1>9. logged' = logged + 1 /\ logged' \in 0 .. MaxLogged
  BY <1>1, <1>2, <1>3, LoggedAssumption
<1>10. LogIsTail'
  <2>1. Min({logged', kMaxCachedLines}) =
          IF logged + 1 <= kMaxCachedLines THEN logged + 1 ELSE kMaxCachedLines
    BY <1>5, <1>9, SmallerOfTwo, CacheAssumption
  <2>2. DOMAIN chatlog' = 1 .. Len(chatlog')
    BY <1>8
  <2>3. Evicted' = logged + 1 - Len(chatlog')
    BY <1>5, <1>8, <1>9 DEF Evicted
  <2> QED
    BY <1>8, <2>1, <2>2, <2>3 DEF LogIsTail
<1>11. LineIsInLog'
  BY <1>1, <1>2, <1>5, <1>8 DEF LineIsInLog
<1>12. NoWindowNoLog'
  BY <1>1 DEF NoWindowNoLog
<1> QED
  BY <1>1, <1>2, <1>8, <1>9, <1>10, <1>11, <1>12 DEF LogInvariant

\* The steps that move the page and leave the log alone.
LEMMA PagingKeepsLog ==
  ASSUME LogInvariant, chatlog' = chatlog, logged' = logged, currentLine' \in Nat,
         lines' \in Heights \cup {0}, lines' = 0 => lines = 0,
         currentLine' = currentLine \/ currentLine' = 0 \/ currentLine' < Len(chatlog)
  PROVE  LogInvariant'
<1>1. LogIsTail'
  BY DEF LogInvariant, LogIsTail, Evicted
<1>2. LineIsInLog' /\ NoWindowNoLog'
  BY DEF LogInvariant, LineIsInLog, NoWindowNoLog
<1> QED
  BY <1>1, <1>2 DEF LogInvariant

\* Every step of the window, and stuttering, keeps its invariant.
LEMMA StepsKeepLog == LogInvariant /\ [Next]_vars => LogInvariant'
<1> SUFFICES ASSUME LogInvariant, [Next]_vars PROVE LogInvariant'
  OBVIOUS
<1>1. /\ lines \in Heights \cup {0} /\ lines \in Nat /\ currentLine \in Nat
      /\ Len(chatlog) \in Nat /\ PageSize(lines) \in Nat
      /\ lines = 0 => Len(chatlog) = 0
      /\ currentLine = 0 \/ currentLine < Len(chatlog)
  <2>1. lines \in Heights \cup {0} /\ lines \in Nat /\ Len(chatlog) \in Nat
    BY HeightsAssumption, LengthOfLog DEF LogInvariant
  <2> QED
    BY <2>1 DEF LogInvariant, NoWindowNoLog, LineIsInLog, PageSize
<1>2. ASSUME NEW content \in Content, LogMessage(content) PROVE LogInvariant'
  BY <1>2, LoggingKeepsLog
<1>3. ASSUME NEW newMode \in {"live", "browse"}, SetMode(newMode) PROVE LogInvariant'
  <2>1. /\ chatlog' = chatlog /\ lines' = lines /\ logged' = logged
        /\ currentLine' =
             CASE newMode = "browse" /\ Len(chatlog) > lines -> Len(chatlog) - lines
               [] newMode = "live" /\ chatlog # <<>> -> Len(chatlog) - 1
               [] OTHER -> currentLine
    BY <1>3 DEF SetMode
  <2>2. chatlog # <<>> => Len(chatlog) > 0
    BY <1>1 DEF LogInvariant
  <2>3. currentLine' \in Nat /\ (currentLine' = currentLine \/ currentLine' < Len(chatlog))
    BY <1>1, <2>1, <2>2
  <2> QED
    BY <1>1, <2>1, <2>3, PagingKeepsLog
<1>4. CASE PreviousPage
  <2>1. /\ chatlog' = chatlog /\ lines' = lines /\ logged' = logged
        /\ currentLine' = IF currentLine < PageSize(lines) THEN 0
                                                 ELSE currentLine - PageSize(lines)
    BY <1>4 DEF PreviousPage
  <2>2. currentLine' \in Nat /\ (currentLine' = 0 \/ currentLine' < Len(chatlog))
    BY <1>1, <2>1
  <2> QED
    BY <1>1, <2>1, <2>2, PagingKeepsLog
<1>5. CASE NextPage
  <2>1. /\ chatlog' = chatlog /\ lines' = lines /\ logged' = logged
        /\ currentLine < Len(chatlog) - PageSize(lines)
        /\ currentLine' = LET line == currentLine + PageSize(lines)
                          IN  IF line > Len(chatlog) THEN line - (Len(chatlog) - 1)
                                                     ELSE line
    BY <1>5 DEF NextPage
  <2>2. currentLine' \in Nat /\ currentLine' < Len(chatlog)
    BY <1>1, <2>1
  <2> QED
    BY <1>1, <2>1, <2>2, PagingKeepsLog
<1>6. ASSUME NEW height \in Heights, RenderChat(height) PROVE LogInvariant'
  <2>1. /\ chatlog' = chatlog /\ lines' = height /\ logged' = logged
        /\ currentLine' = currentLine
    BY <1>6 DEF RenderChat
  <2>2. height # 0
    BY HeightsAssumption
  <2> QED
    BY <1>1, <2>1, <2>2, PagingKeepsLog
<1>7. CASE Destroy \/ UNCHANGED vars
  <2>1. /\ chatlog' = chatlog /\ lines' = lines /\ logged' = logged
        /\ currentLine' = currentLine
    BY <1>7 DEF Destroy, vars, displayVars
  <2> QED
    BY <1>1, <2>1, PagingKeepsLog
<1>8. CASE KeyBrowse \/ KeyLive
  BY <1>3, <1>8 DEF KeyBrowse, KeyLive
<1> QED
  BY <1>2, <1>4, <1>5, <1>6, <1>7, <1>8 DEF Next, Running

\* The inductive invariant of the log holds in every state of the window.
THEOREM LogInvariantHolds == Spec => []LogInvariant
<1>1. Init => LogInvariant
  <2> SUFFICES ASSUME Init PROVE LogInvariant
    OBVIOUS
  <2>1. /\ chatlog = <<>> /\ logged = 0 /\ currentLine = 0 /\ lines \in Heights \cup {0}
    BY DEF Init
  <2>2. chatlog \in Seq(Entry) /\ Len(chatlog) = 0 /\ DOMAIN chatlog = {}
    BY <2>1
  <2>3. Min({logged, kMaxCachedLines}) = 0
    BY <2>1, SmallerOfTwo, CacheAssumption
  <2>4. logged \in 0 .. MaxLogged /\ currentLine \in Nat
    BY <2>1, LoggedAssumption
  <2> QED
    BY <2>1, <2>2, <2>3, <2>4 DEF LogInvariant, LogIsTail, LineIsInLog, NoWindowNoLog
<1> QED
  BY <1>1, StepsKeepLog, PTL DEF Spec

\* The cache is the tail of what was logged, for every limit.
THEOREM CacheIsTail == Spec => []LogIsTail
<1>1. LogInvariant => LogIsTail
  BY DEF LogInvariant
<1> QED
  BY <1>1, LogInvariantHolds, PTL

\* Browsing never starts beyond the log, for windows of every size.
THEOREM PagesExist == Spec => []BrowsedPageExists
<1>1. LogInvariant => BrowsedPageExists
  <2> SUFFICES ASSUME LogInvariant, chatlog # <<>> PROVE currentLine < Len(chatlog)
    BY DEF BrowsedPageExists
  <2>1. chatlog \in Seq(Entry) /\ (currentLine = 0 \/ currentLine < Len(chatlog))
    BY DEF LogInvariant, LineIsInLog
  <2>2. Len(chatlog) > 0
    BY <2>1
  <2> QED
    BY <2>1, <2>2
<1> QED
  BY <1>1, LogInvariantHolds, PTL


-----------------------------------------------------------------------------
(* What is on the window. *)

\* The last n entries of a sequence, counted from its end.
LEMMA LastOfIsTail ==
  ASSUME NEW S, NEW s \in Seq(S), NEW n \in Nat
  PROVE  /\ LastOf(s, n) \in Seq(S)
         /\ Len(LastOf(s, n)) = IF Len(s) > n THEN n ELSE Len(s)
         /\ \A i \in 0 .. (Len(LastOf(s, n)) - 1) :
              LastOf(s, n)[Len(LastOf(s, n)) - i] = s[Len(s) - i]
<1>0. Len(s) \in Nat
  OBVIOUS
<1>1. CASE Len(s) > n
  <2> DEFINE t == SubSeq(s, Len(s) - n + 1, Len(s))
  <2>1. LastOf(s, n) = t
    BY <1>1 DEF LastOf
  <2>2. /\ t \in Seq(S) /\ Len(t) = n
        /\ \A i \in 1 .. n : t[i] = s[Len(s) - n + i]
    <3>1. /\ Len(s) - n + 1 \in 1 .. (Len(s) + 1)
          /\ Len(s) \in (Len(s) - n + 1 - 1) .. Len(s)
      BY <1>0, <1>1
    <3>2. /\ t \in Seq(S)
          /\ Len(t) = IF Len(s) - n + 1 <= Len(s) THEN Len(s) - (Len(s) - n + 1) + 1 ELSE 0
          /\ \A i \in 1 .. (Len(s) - (Len(s) - n + 1) + 1) :
               t[i] = s[(Len(s) - n + 1) + i - 1]
      BY <1>0, <1>1, <3>1, SubSeqProperties
    <3> HIDE DEF t
    <3> QED
      BY <1>0, <1>1, <3>2
  <2> HIDE DEF t
  <2>3. ASSUME NEW i \in 0 .. (n - 1) PROVE t[n - i] = s[Len(s) - i]
    <3>1. n - i \in 1 .. n /\ Len(s) - n + (n - i) = Len(s) - i
      BY <1>0
    <3> QED
      BY <2>2, <3>1
  <2> QED
    BY <1>1, <2>1, <2>2, <2>3
<1>2. CASE ~(Len(s) > n)
  BY <1>2 DEF LastOf
<1> QED
  BY <1>1, <1>2

\* A suffix is what agrees with the end of a sequence.
LEMMA SuffixFromEnd ==
  ASSUME NEW S, NEW s \in Seq(S), NEW t \in Seq(S)
  PROVE  IsSuffix(s, t) <=>
           /\ Len(s) <= Len(t)
           /\ \A i \in 0 .. (Len(s) - 1) : s[Len(s) - i] = t[Len(t) - i]
<1>0. Len(s) \in Nat /\ Len(t) \in Nat
  OBVIOUS
<1>1. \A u \in Seq(S) :
        /\ Reverse(u) \in Seq(S)
        /\ Len(Reverse(u)) = Len(u)
        /\ \A i \in 1 .. Len(u) : Reverse(u)[i] = u[Len(u) - i + 1]
  BY DEF Reverse
<1> DEFINE r == Reverse(s)
           q == Reverse(t)
<1>2. /\ r \in Seq(S) /\ q \in Seq(S) /\ Len(r) = Len(s) /\ Len(q) = Len(t)
      /\ \A i \in 1 .. Len(s) : r[i] = s[Len(s) - i + 1]
      /\ \A i \in 1 .. Len(t) : q[i] = t[Len(t) - i + 1]
  BY <1>1
<1>3. IsSuffix(s, t) <=>
        Len(s) <= Len(t) /\ SubSeq(r, 1, Len(s)) = SubSeq(q, 1, Len(s))
  BY <1>2 DEF IsSuffix, IsPrefix
<1> HIDE DEF r, q
<1>4. ASSUME Len(s) <= Len(t)
      PROVE  SubSeq(r, 1, Len(s)) = SubSeq(q, 1, Len(s)) <=>
               \A i \in 1 .. Len(s) : r[i] = q[i]
  <2> DEFINE a == SubSeq(r, 1, Len(s))
             b == SubSeq(q, 1, Len(s))
  <2>1. /\ a \in Seq(S) /\ Len(a) = Len(s) /\ \A i \in 1 .. Len(s) : a[i] = r[i]
    BY <1>0, <1>2, SubSeqProperties
  <2>2. /\ b \in Seq(S) /\ Len(b) = Len(s) /\ \A i \in 1 .. Len(s) : b[i] = q[i]
    BY <1>0, <1>2, <1>4, SubSeqProperties
  <2> HIDE DEF a, b
  <2>3. (\A i \in 1 .. Len(s) : r[i] = q[i]) => a = b
    BY <2>1, <2>2, SeqEqual
  <2>4. a = b => \A i \in 1 .. Len(s) : r[i] = q[i]
    BY <2>1, <2>2
  <2> QED
    BY <2>3, <2>4 DEF a, b
<1>5. ASSUME Len(s) <= Len(t)
      PROVE  (\A i \in 1 .. Len(s) : r[i] = q[i]) <=>
               \A i \in 0 .. (Len(s) - 1) : s[Len(s) - i] = t[Len(t) - i]
  <2>1. ASSUME \A i \in 1 .. Len(s) : r[i] = q[i], NEW i \in 0 .. (Len(s) - 1)
        PROVE  s[Len(s) - i] = t[Len(t) - i]
    <3>1. /\ i + 1 \in 1 .. Len(s) /\ i + 1 \in 1 .. Len(t)
          /\ Len(s) - (i + 1) + 1 = Len(s) - i /\ Len(t) - (i + 1) + 1 = Len(t) - i
      BY <1>0, <1>5
    <3> QED
      BY <1>2, <2>1, <3>1
  <2>2. ASSUME \A i \in 0 .. (Len(s) - 1) : s[Len(s) - i] = t[Len(t) - i],
               NEW i \in 1 .. Len(s)
        PROVE  r[i] = q[i]
    <3>1. /\ i - 1 \in 0 .. (Len(s) - 1) /\ i \in 1 .. Len(t)
          /\ Len(s) - (i - 1) = Len(s) - i + 1 /\ Len(t) - (i - 1) = Len(t) - i + 1
      BY <1>0, <1>5
    <3> QED
      BY <1>2, <2>2, <3>1
  <2> QED
    BY <2>1, <2>2
<1> QED
  BY <1>3, <1>4, <1>5

\* The cached log, counted from its end: the new entry, then what was there.
LEMMA CacheFromEnd ==
  ASSUME NEW entry \in Entry, chatlog \in Seq(Entry)
  PROVE  /\ Cache(entry) \in Seq(Entry)
         /\ Len(Cache(entry)) \in 1 .. (Len(chatlog) + 1)
         /\ Len(Cache(entry)) >= Len(chatlog)
         /\ Cache(entry)[Len(Cache(entry))] = entry
         /\ \A i \in 1 .. (Len(Cache(entry)) - 1) :
              Cache(entry)[Len(Cache(entry)) - i] = chatlog[Len(chatlog) - (i - 1)]
<1> DEFINE longer == Append(chatlog, entry)
           n == Len(chatlog)
<1>1. /\ longer \in Seq(Entry) /\ Len(longer) = n + 1 /\ n \in Nat
      /\ \A i \in 1 .. n : longer[i] = chatlog[i]
      /\ longer[n + 1] = entry
  BY AppendProperties
<1>2. Cache(entry) = IF Len(longer) > kMaxCachedLines THEN Tail(longer) ELSE longer
  BY DEF Cache
<1> HIDE DEF longer, n
<1>3. CASE Len(longer) > kMaxCachedLines
  <2>1. n >= 1
    BY <1>1, <1>3, CacheAssumption
  <2>2. longer # <<>>
    BY <1>1
  <2>3. /\ Tail(longer) \in Seq(Entry) /\ Len(Tail(longer)) = n
        /\ \A i \in 1 .. n : Tail(longer)[i] = longer[i + 1]
    BY <1>1, <2>2, HeadTailProperties
  <2> DEFINE t == Tail(longer)
  <2>4. Cache(entry) = t
    BY <1>2, <1>3
  <2> HIDE DEF t
  <2>5. /\ t \in Seq(Entry) /\ Len(t) = n /\ \A i \in 1 .. n : t[i] = longer[i + 1]
    BY <2>3 DEF t
  <2>6. t[n] = entry
    BY <1>1, <2>1, <2>5
  <2>7. ASSUME NEW i \in 1 .. (n - 1) PROVE t[n - i] = chatlog[n - (i - 1)]
    <3>1. n - i \in 1 .. n /\ n - i + 1 \in 1 .. n /\ n - (i - 1) = n - i + 1
      BY <1>1
    <3> QED
      BY <1>1, <2>5, <3>1
  <2> QED
    BY <1>1, <2>1, <2>4, <2>5, <2>6, <2>7 DEF n
<1>4. CASE ~(Len(longer) > kMaxCachedLines)
  <2>1. Cache(entry) = longer
    BY <1>2, <1>4
  <2>2. ASSUME NEW i \in 1 .. n PROVE longer[n + 1 - i] = chatlog[n - (i - 1)]
    <3>1. n + 1 - i \in 1 .. n /\ n + 1 - i = n - (i - 1)
      BY <1>1
    <3> QED
      BY <1>1, <3>1
  <2> QED
    BY <1>1, <2>1, <2>2 DEF n
<1> QED
  BY <1>3, <1>4

\* A window has room for an entry at least, above the row that is left free.
LEMMA PageSizeType ==
  ASSUME NEW height \in Heights \cup {0}
  PROVE  PageSize(height) \in Nat /\ (height # 0 => PageSize(height) >= 1)
BY HeightsAssumption DEF PageSize

\* UIChatWin_logMessage in live mode: the new entry comes below the others.
LEMMA LiveLogKeepsTail ==
  ASSUME NEW entry \in Entry, NEW n \in Nat, n >= 1,
         chatlog \in Seq(Entry), window \in Seq(Entry), Len(window) <= n,
         IsSuffix(LastOf(chatlog, n), window)
  PROVE  /\ LastOf(window \o <<entry>>, n) \in Seq(Entry)
         /\ Len(LastOf(window \o <<entry>>, n)) <= n
         /\ IsSuffix(LastOf(Cache(entry), n), LastOf(window \o <<entry>>, n))
<1> DEFINE w == window \o <<entry>>
           v == LastOf(w, n)
           c == Cache(entry)
           a == LastOf(chatlog, n)
           b == LastOf(c, n)
<1>1. /\ w \in Seq(Entry) /\ Len(w) = Len(window) + 1 /\ Len(window) \in Nat
      /\ \A i \in 1 .. Len(window) : w[i] = window[i]
      /\ w[Len(window) + 1] = entry
  <2>1. <<entry>> \in Seq(Entry) /\ Len(<<entry>>) = 1 /\ <<entry>>[1] = entry
    OBVIOUS
  <2>2. /\ w \in Seq(Entry)
        /\ Len(w) = Len(window) + Len(<<entry>>)
        /\ \A i \in 1 .. (Len(window) + Len(<<entry>>)) :
             w[i] = IF i <= Len(window) THEN window[i] ELSE <<entry>>[i - Len(window)]
    BY <2>1, ConcatProperties
  <2>3. Len(window) \in Nat
    OBVIOUS
  <2> HIDE DEF w
  <2>4. Len(w) = Len(window) + 1
    BY <2>1, <2>2
  <2>5. ASSUME NEW i \in 1 .. Len(window) PROVE w[i] = window[i]
    <3>1. i \in 1 .. (Len(window) + Len(<<entry>>)) /\ i <= Len(window)
      BY <2>1, <2>3
    <3> QED
      BY <2>2, <3>1
  <2>6. w[Len(window) + 1] = entry
    <3>1. /\ Len(window) + 1 \in 1 .. (Len(window) + Len(<<entry>>))
          /\ ~(Len(window) + 1 <= Len(window))
          /\ Len(window) + 1 - Len(window) = 1
      BY <2>1, <2>3
    <3> QED
      BY <2>1, <2>2, <3>1
  <2> QED
    BY <2>2, <2>3, <2>4, <2>5, <2>6
<1> HIDE DEF w
<1>2. /\ v \in Seq(Entry)
      /\ Len(v) = IF Len(w) > n THEN n ELSE Len(w)
      /\ \A i \in 0 .. (Len(v) - 1) : v[Len(v) - i] = w[Len(w) - i]
  BY <1>1, LastOfIsTail
<1>3. /\ a \in Seq(Entry) /\ Len(chatlog) \in Nat
      /\ Len(a) = IF Len(chatlog) > n THEN n ELSE Len(chatlog)
      /\ \A i \in 0 .. (Len(a) - 1) : a[Len(a) - i] = chatlog[Len(chatlog) - i]
  BY LastOfIsTail
<1>4. /\ Len(a) <= Len(window)
      /\ \A i \in 0 .. (Len(a) - 1) : a[Len(a) - i] = window[Len(window) - i]
  BY <1>3, SuffixFromEnd
<1>5. /\ c \in Seq(Entry)
      /\ Len(c) \in 1 .. (Len(chatlog) + 1)
      /\ c[Len(c)] = entry
      /\ \A i \in 1 .. (Len(c) - 1) : c[Len(c) - i] = chatlog[Len(chatlog) - (i - 1)]
  BY CacheFromEnd
<1> HIDE DEF c
<1>6. /\ b \in Seq(Entry)
      /\ Len(b) = IF Len(c) > n THEN n ELSE Len(c)
      /\ \A i \in 0 .. (Len(b) - 1) : b[Len(b) - i] = c[Len(c) - i]
  BY <1>5, LastOfIsTail
<1> HIDE DEF v, a, b
<1>7. Len(b) <= Len(v)
  BY <1>1, <1>2, <1>3, <1>4, <1>5, <1>6
<1>8. ASSUME NEW i \in 0 .. (Len(b) - 1) PROVE b[Len(b) - i] = v[Len(v) - i]
  <2>1. i \in 0 .. (Len(v) - 1) /\ i < n /\ i < Len(c)
    BY <1>2, <1>5, <1>6, <1>7
  <2>2. b[Len(b) - i] = c[Len(c) - i] /\ v[Len(v) - i] = w[Len(w) - i]
    BY <1>2, <1>6, <2>1
  <2>3. CASE i = 0
    <3>1. Len(c) - 0 = Len(c) /\ Len(w) - 0 = Len(window) + 1
      BY <1>1, <1>5
    <3> QED
      BY <1>1, <1>5, <2>2, <2>3, <3>1
  <2>4. CASE i # 0
    <3>1. i - 1 \in 0 .. (Len(a) - 1) /\ i \in 1 .. (Len(c) - 1)
      BY <1>3, <1>5, <2>1, <2>4
    <3>2. c[Len(c) - i] = window[Len(window) - (i - 1)]
      BY <1>3, <1>4, <1>5, <3>1
    <3>3. Len(w) - i = Len(window) - (i - 1) /\ Len(w) - i \in 1 .. Len(window)
      BY <1>1, <1>3, <1>4, <3>1
    <3> QED
      BY <1>1, <2>2, <3>2, <3>3
  <2> QED
    BY <2>3, <2>4
<1>9. IsSuffix(b, v)
  BY <1>2, <1>6, <1>7, <1>8, SuffixFromEnd
<1>10. Len(v) <= n
  BY <1>1, <1>2
<1> QED
  BY <1>2, <1>9, <1>10 DEF b, v, c, w

\* A sequence is a suffix of itself.
LEMMA SuffixOfItself ==
  ASSUME NEW S, NEW s \in Seq(S)
  PROVE  IsSuffix(s, s)
BY SuffixFromEnd

\* The page that UIChatWin_updateContent draws from a line of the log.
LEMMA BrowsedPage ==
  ASSUME LogInvariant, NEW line \in Nat, line < Len(chatlog), NEW height \in Heights
  PROVE  LET page == PageAt("browse", line, height)
         IN  /\ page \in Seq(Entry)
             /\ Len(page) >= 1 /\ Len(page) <= PageSize(height)
             /\ page[1].id = Evicted + line + 1
             /\ \/ Last(page).id = Evicted + line + PageSize(height)
                \/ Last(page).id = logged
<1> DEFINE n == PageSize(height)
           end == IF line + n >= Len(chatlog) THEN Len(chatlog) ELSE line + n
           page == SubSeq(chatlog, line + 1, end)
<1>1. PageAt("browse", line, height) = page
  BY DEF PageAt
<1>2. n \in Nat /\ n >= 1
  BY PageSizeType, HeightsAssumption
<1>3. /\ Len(chatlog) \in Nat /\ logged \in Nat
      /\ \A i \in 1 .. Len(chatlog) : chatlog[i].id = (logged - Len(chatlog)) + i
  BY LengthOfLog
<1>4. chatlog \in Seq(Entry)
  BY DEF LogInvariant
<1> HIDE DEF n
<1>5. end \in Nat /\ end > line /\ end <= Len(chatlog) /\ end <= line + n
  BY <1>2, <1>3
<1>6. end = line + n \/ end = Len(chatlog)
  OBVIOUS
<1> HIDE DEF end
<1>7. /\ page \in Seq(Entry) /\ Len(page) = end - line
      /\ \A i \in 1 .. (end - line) : page[i] = chatlog[line + i]
  <2>1. line + 1 \in 1 .. (Len(chatlog) + 1) /\ end \in (line + 1 - 1) .. Len(chatlog)
    BY <1>3, <1>5
  <2>2. /\ page \in Seq(Entry)
        /\ Len(page) = IF line + 1 <= end THEN end - (line + 1) + 1 ELSE 0
        /\ \A i \in 1 .. (end - (line + 1) + 1) : page[i] = chatlog[(line + 1) + i - 1]
    BY <1>4, <2>1, SubSeqProperties
  <2> HIDE DEF page
  <2> QED
    BY <1>3, <1>5, <2>2
<1> HIDE DEF page
<1>8. page[1].id = (logged - Len(chatlog)) + line + 1
  <2>1. 1 \in 1 .. (end - line) /\ line + 1 \in 1 .. Len(chatlog)
    BY <1>3, <1>5
  <2>2. page[1] = chatlog[line + 1]
    BY <1>7, <2>1
  <2>3. chatlog[line + 1].id = (logged - Len(chatlog)) + (line + 1)
    BY <1>3, <2>1
  <2> QED
    BY <1>3, <2>2, <2>3
<1>9. Last(page).id = (logged - Len(chatlog)) + end
  <2>1. Len(page) \in 1 .. (end - line) /\ line + Len(page) = end /\ end \in 1 .. Len(chatlog)
    BY <1>3, <1>5, <1>7
  <2> QED
    BY <1>3, <1>7, <2>1 DEF Last
<1>10. page \in Seq(Entry) /\ Len(page) >= 1 /\ Len(page) <= n
  BY <1>2, <1>5, <1>7
<1>11. page[1].id = Evicted + line + 1
  BY <1>8 DEF Evicted
<1>12. Last(page).id = Evicted + line + n \/ Last(page).id = logged
  BY <1>2, <1>3, <1>6, <1>9 DEF Evicted
<1> QED
  BY <1>1, <1>10, <1>11, <1>12 DEF n

\* UIChatWin_updateContent, whatever the mode, the line and the size are.
LEMMA UpdateKeepsWindow ==
  ASSUME WindowInvariant, chatlog' = chatlog, logged' = logged,
         mode' \in {"live", "browse"}, lines' \in Heights \cup {0},
         lines' = 0 => lines = 0, currentLine' \in Nat,
         currentLine' = 0 \/ currentLine' < Len(chatlog),
         UpdateContent(mode', currentLine', lines')
  PROVE  PageIsDrawn' /\ LiveShowsTail'
<1>1. /\ LogInvariant /\ PageIsDrawn /\ LiveShowsTail
      /\ chatlog \in Seq(Entry) /\ window \in Seq(Entry)
  BY DEF WindowInvariant, LogInvariant, PageIsDrawn
<1>2. Evicted' = Evicted
  BY DEF Evicted
<1>3. PageSize(lines') \in Nat
  BY PageSizeType
<1>4. /\ Len(chatlog) \in Nat /\ logged \in Nat
      /\ Len(chatlog) = IF logged <= kMaxCachedLines THEN logged ELSE kMaxCachedLines
  BY <1>1, LengthOfLog
<1>5. CASE chatlog = <<>>
  <2>1. window' = window /\ drawnAt' = drawnAt
    BY <1>5 DEF UpdateContent
  <2>2. window = <<>>
    BY <1>1, <1>5 DEF PageIsDrawn
  <2>3. PageIsDrawn'
    BY <1>1, <1>2, <2>1, <2>2 DEF PageIsDrawn
  <2>4. LastOf(chatlog', PageSize(lines')) = <<>>
    <3>1. Len(chatlog') = 0
      BY <1>5
    <3> QED
      BY <1>3, <1>5, <3>1 DEF LastOf
  <2>5. IsSuffix(<<>>, window')
    <3>1. <<>> \in Seq(Entry)
      OBVIOUS
    <3> QED
      BY <2>1, <2>2, <3>1, SuffixOfItself
  <2>6. Len(window') <= PageSize(lines')
    BY <1>3, <2>1, <2>2
  <2> QED
    BY <2>3, <2>4, <2>5, <2>6 DEF LiveShowsTail
<1>6. CASE chatlog # <<>>
  <2>1. window' = PageAt(mode', currentLine', lines') /\ drawnAt' = Evicted
    BY <1>6 DEF UpdateContent
  <2>2. lines' \in Heights
    BY <1>1, <1>6 DEF LogInvariant, NoWindowNoLog
  <2>3. Len(chatlog) > 0
    BY <1>1, <1>4, <1>6
  <2>4. drawnAt' \in Nat /\ drawnAt' <= Evicted'
    BY <1>2, <1>4, <2>1, CacheAssumption DEF Evicted
  <2>5. CASE mode' = "live"
    <3>1. window' = LastOf(chatlog, PageSize(lines'))
      BY <2>1, <2>5 DEF PageAt
    <3>2. window' \in Seq(Entry) /\ Len(window') <= PageSize(lines')
      BY <1>1, <1>3, <1>4, <3>1, LastOfIsTail
    <3>3. IsSuffix(LastOf(chatlog', PageSize(lines')), window')
      BY <3>1, <3>2, SuffixOfItself
    <3>4. PageIsDrawn'
      BY <1>6, <2>4, <2>5, <3>2 DEF PageIsDrawn
    <3> QED
      BY <3>2, <3>3, <3>4 DEF LiveShowsTail
  <2>6. CASE mode' = "browse"
    <3>1. currentLine' < Len(chatlog)
      BY <2>3
    <3>2. /\ window' \in Seq(Entry) /\ Len(window') <= PageSize(lines')
          /\ window'[1].id = Evicted + currentLine' + 1
      BY <1>1, <2>1, <2>2, <2>6, <3>1, BrowsedPage
    <3>3. PageIsDrawn'
      BY <1>6, <2>1, <2>4, <2>6, <3>2 DEF PageIsDrawn
    <3> QED
      BY <2>6, <3>2, <3>3 DEF LiveShowsTail
  <2> QED
    BY <2>5, <2>6
<1> QED
  BY <1>5, <1>6

\* UIChatWin_logMessage keeps what is on the window.
LEMMA LoggingKeepsWindow ==
  ASSUME WindowInvariant, NEW content \in Content, LogMessage(content)
  PROVE  PageIsDrawn' /\ LiveShowsTail'
<1> DEFINE entry == [id |-> logged + 1, content |-> content]
           visible == IF mode = "live" THEN <<entry>> ELSE <<>>
           n == PageSize(lines)
<1>1. /\ lines > 0 /\ logged < MaxLogged
      /\ chatlog' = Cache(entry) /\ logged' = entry.id
      /\ window' = LastOf(window \o visible, n)
      /\ drawnAt' = IF mode = "live" THEN entry.id - Len(chatlog') ELSE drawnAt
      /\ UNCHANGED <<mode, currentLine, lines>>
  BY DEF LogMessage, displayVars
<1>2. /\ LogInvariant /\ PageIsDrawn /\ LiveShowsTail
      /\ chatlog \in Seq(Entry) /\ window \in Seq(Entry)
      /\ logged \in 0 .. MaxLogged /\ lines \in Heights \cup {0}
  BY DEF WindowInvariant, LogInvariant, PageIsDrawn
<1>3. entry \in Entry /\ entry.id = logged + 1
  <2>1. logged + 1 \in 1 .. MaxLogged
    BY <1>1, <1>2, LoggedAssumption
  <2> QED
    BY <2>1 DEF Entry
<1>4. n \in Nat /\ n >= 1
  BY <1>1, <1>2, PageSizeType
<1> HIDE DEF entry, n
<1>5. /\ chatlog' \in Seq(Entry)
      /\ Len(chatlog') \in 1 .. (Len(chatlog) + 1)
      /\ Len(chatlog) \in Nat /\ logged \in Nat
  BY <1>1, <1>2, <1>3, CacheFromEnd, LengthOfLog
<1>6. chatlog' # <<>>
  BY <1>5
<1>7. Evicted' = logged + 1 - Len(chatlog') /\ Evicted' >= Evicted /\ Evicted \in Int
  BY <1>1, <1>3, <1>5 DEF Evicted
<1>8. Evicted' \in Nat
  <2>1. LogInvariant'
    BY <1>2, LoggingKeepsLog
  <2>2. /\ Len(chatlog') \in Nat /\ logged' \in Nat
        /\ Len(chatlog') = IF logged' <= kMaxCachedLines THEN logged' ELSE kMaxCachedLines
    <3>1. /\ chatlog' \in Seq(Entry) /\ logged' \in 0 .. MaxLogged
          /\ Len(chatlog') = Min({logged', kMaxCachedLines})
      BY <2>1 DEF LogInvariant, LogIsTail
    <3>2. logged' \in Nat
      BY <3>1, LoggedAssumption
    <3> QED
      BY <3>1, <3>2, SmallerOfTwo, CacheAssumption
  <2> QED
    <3>1. Evicted' = logged' - Len(chatlog')
      BY DEF Evicted
    <3>2. \A a, b, k \in Nat : b = (IF a <= k THEN a ELSE k) => a - b \in Nat
      OBVIOUS
    <3>3. logged' - Len(chatlog') \in Nat
      BY <2>2, <3>2, CacheAssumption
    <3> QED
      BY <3>1, <3>3
<1>9. Len(window) <= n /\ (mode = "live" => IsSuffix(LastOf(chatlog, n), window))
  BY <1>2 DEF LiveShowsTail, n
<1>10. CASE mode = "live"
  <2>1. window' = LastOf(window \o <<entry>>, n)
    BY <1>1, <1>10
  <2>2. window' \in Seq(Entry) /\ Len(window') <= n /\ IsSuffix(LastOf(chatlog', n), window')
    BY <1>1, <1>2, <1>3, <1>4, <1>9, <1>10, <2>1, LiveLogKeepsTail
  <2>3. drawnAt' = Evicted'
    <3>1. drawnAt' = entry.id - Len(chatlog')
      BY <1>1, <1>10
    <3>2. drawnAt' = logged + 1 - Len(chatlog')
      BY <1>3, <1>5, <3>1
    <3> QED
      BY <1>7, <3>2
  <2>4. PageIsDrawn'
    BY <1>1, <1>6, <1>8, <1>10, <2>2, <2>3 DEF PageIsDrawn
  <2>5. LiveShowsTail'
    BY <1>1, <2>2 DEF LiveShowsTail, n
  <2> QED
    BY <2>4, <2>5
<1>11. CASE mode # "live"
  <2>1. window \o <<>> = window
    BY <1>2
  <2>2. window' = LastOf(window, n) /\ drawnAt' = drawnAt
    BY <1>1, <1>11, <2>1
  <2>3. window' = window
    <3>1. Len(window) \in Nat
      BY <1>2
    <3> QED
      BY <1>4, <1>9, <2>2, <3>1 DEF LastOf
  <2>4. PageIsDrawn'
    BY <1>1, <1>2, <1>6, <1>7, <1>8, <2>2, <2>3 DEF PageIsDrawn
  <2>5. LiveShowsTail'
    BY <1>1, <1>9, <1>11, <2>3 DEF LiveShowsTail, n
  <2> QED
    BY <2>4, <2>5
<1> QED
  BY <1>10, <1>11

\* How the keys and the terminal move the line, in numbers.
LEMMA KeysMoveLine ==
  ASSUME WindowInvariant, mode = "browse", PreviousPage \/ NextPage
  PROVE  /\ currentLine' \in Nat
         /\ currentLine' = 0 \/ currentLine' < Len(chatlog)
         /\ currentLine' <= currentLine + PageSize(lines)
         /\ currentLine' + PageSize(lines) >= currentLine
<1>1. /\ currentLine \in Nat /\ Len(chatlog) \in Nat /\ PageSize(lines) \in Nat
      /\ currentLine = 0 \/ currentLine < Len(chatlog)
  BY PageSizeType, LengthOfLog DEF WindowInvariant, LogInvariant, LineIsInLog
<1>2. CASE PreviousPage
  <2>1. currentLine' = IF currentLine < PageSize(lines) THEN 0
                                                        ELSE currentLine - PageSize(lines)
    BY <1>2 DEF PreviousPage
  <2> QED
    BY <1>1, <2>1
<1>3. CASE NextPage
  <2>1. /\ currentLine < Len(chatlog) - PageSize(lines)
        /\ currentLine' = LET line == currentLine + PageSize(lines)
                          IN  IF line > Len(chatlog) THEN line - (Len(chatlog) - 1)
                                                     ELSE line
    BY <1>3 DEF NextPage
  <2>2. currentLine' = currentLine + PageSize(lines)
    BY <1>1, <2>1
  <2> QED
    BY <1>1, <2>1, <2>2
<1> QED
  BY <1>2, <1>3

\* Every step of the window keeps what is on it.
LEMMA StepsKeepWindow == WindowInvariant /\ [Next]_vars => WindowInvariant'
<1> SUFFICES ASSUME WindowInvariant, [Next]_vars PROVE WindowInvariant'
  OBVIOUS
<1>0. LogInvariant'
  BY StepsKeepLog DEF WindowInvariant
<1>1. SUFFICES PageIsDrawn' /\ LiveShowsTail'
  BY <1>0 DEF WindowInvariant
<1>2. /\ currentLine \in Nat /\ lines \in Heights \cup {0} /\ Len(chatlog) \in Nat
      /\ currentLine = 0 \/ currentLine < Len(chatlog)
      /\ currentLine' \in Nat
      /\ currentLine' = 0 \/ currentLine' < Len(chatlog')
      /\ mode \in {"live", "browse"}
  BY <1>0, LengthOfLog DEF WindowInvariant, LogInvariant, LineIsInLog, PageIsDrawn
<1>3. ASSUME NEW content \in Content, LogMessage(content)
      PROVE  PageIsDrawn' /\ LiveShowsTail'
  BY <1>3, LoggingKeepsWindow
<1>4. ASSUME NEW newMode \in {"live", "browse"}, SetMode(newMode)
      PROVE  PageIsDrawn' /\ LiveShowsTail'
  <2>1. /\ UNCHANGED <<chatlog, lines, logged>> /\ mode' = newMode
        /\ UpdateContent(mode', currentLine', lines')
    BY <1>4 DEF SetMode
  <2> QED
    BY <1>2, <2>1, UpdateKeepsWindow
<1>5. CASE PreviousPage \/ NextPage
  <2>1. /\ UNCHANGED <<chatlog, mode, lines, logged>>
        /\ UpdateContent(mode', currentLine', lines')
    BY <1>5 DEF PreviousPage, NextPage
  <2> QED
    BY <1>2, <2>1, UpdateKeepsWindow
<1>6. ASSUME NEW height \in Heights, RenderChat(height)
      PROVE  PageIsDrawn' /\ LiveShowsTail'
  <2>1. /\ UNCHANGED <<chatlog, mode, currentLine, logged>> /\ lines' = height
        /\ UpdateContent(mode', currentLine', lines')
    BY <1>6 DEF RenderChat
  <2>2. lines' # 0
    BY <2>1, HeightsAssumption
  <2> QED
    BY <1>2, <2>1, <2>2, UpdateKeepsWindow
<1>7. CASE Destroy \/ UNCHANGED vars
  <2>1. UNCHANGED <<chatlog, mode, currentLine, lines, window, logged, drawnAt>>
    BY <1>7 DEF Destroy, vars, displayVars
  <2> QED
    BY <2>1 DEF WindowInvariant, PageIsDrawn, LiveShowsTail, Evicted
<1>8. CASE KeyBrowse \/ KeyLive
  BY <1>4, <1>8 DEF KeyBrowse, KeyLive
<1> QED
  BY <1>3, <1>5, <1>6, <1>7, <1>8 DEF Next, Running

\* A page that is drawn while an older one is on the window, from a line that is
\* one page away at most: no entry that both could show lies between them.
LEMMA PagesMeet ==
  ASSUME WindowInvariant, mode = "browse", mode' = "browse", lines' = lines,
         window # <<>>, chatlog' = chatlog, window' # window,
         UpdateContent(mode, currentLine', lines),
         currentLine' \in Nat, currentLine' = 0 \/ currentLine' < Len(chatlog),
         currentLine' <= currentLine + PageSize(lines),
         currentLine' + PageSize(lines) >= currentLine
  PROVE  /\ window'[1].id <= window[1].id + PageSize(lines) + (Evicted - drawnAt)
         /\ Last(window').id + 1 >= window[1].id
<1>1. /\ LogInvariant /\ PageIsDrawn /\ chatlog \in Seq(Entry)
      /\ currentLine \in Nat /\ lines \in Heights \cup {0}
      /\ currentLine = 0 \/ currentLine < Len(chatlog)
      /\ drawnAt \in Nat /\ drawnAt <= Evicted
  BY DEF WindowInvariant, LogInvariant, PageIsDrawn, LineIsInLog
<1>2. chatlog # <<>>
  BY <1>1 DEF PageIsDrawn
<1>3. lines \in Heights
  BY <1>1, <1>2 DEF LogInvariant, NoWindowNoLog
<1>4. Len(chatlog) \in Nat /\ logged \in Nat /\ Len(chatlog) > 0
  BY <1>1, <1>2, LengthOfLog
<1>5. currentLine' < Len(chatlog) /\ currentLine < Len(chatlog)
  BY <1>1, <1>4
<1>6. window' = PageAt("browse", currentLine', lines)
  BY <1>2 DEF UpdateContent
<1>7. PageSize(lines) \in Nat
  BY <1>1, PageSizeType
<1>8. /\ window'[1].id = Evicted + currentLine' + 1
      /\ \/ Last(window').id = Evicted + currentLine' + PageSize(lines)
         \/ Last(window').id = logged
  <2>1. ASSUME NEW line \in Nat, line < Len(chatlog)
        PROVE  /\ PageAt("browse", line, lines)[1].id = Evicted + line + 1
               /\ \/ Last(PageAt("browse", line, lines)).id = Evicted + line + PageSize(lines)
                  \/ Last(PageAt("browse", line, lines)).id = logged
    BY <1>1, <1>3, <2>1, BrowsedPage
  <2> QED
    BY <1>5, <1>6, <2>1
<1>9. window[1].id = drawnAt + currentLine + 1
  BY <1>1 DEF PageIsDrawn
<1>10. Evicted = logged - Len(chatlog)
  BY DEF Evicted
<1>11. Evicted \in Int
  BY <1>4, <1>10
<1>12. window'[1].id <= window[1].id + PageSize(lines) + (Evicted - drawnAt)
  BY <1>1, <1>7, <1>8, <1>9, <1>11
<1>13. Last(window').id + 1 >= window[1].id
  <2>1. CASE Last(window').id = Evicted + currentLine' + PageSize(lines)
    BY <1>1, <1>7, <1>9, <1>11, <2>1
  <2>2. CASE Last(window').id = logged
    BY <1>1, <1>4, <1>5, <1>9, <1>10, <1>11, <2>2
  <2> QED
    BY <1>8, <2>1, <2>2
<1> QED
  BY <1>12, <1>13

\* A message changes the log: the entry that comes last in it is new.
LEMMA LoggingChangesLog ==
  ASSUME LogInvariant, NEW content \in Content, LogMessage(content)
  PROVE  chatlog' # chatlog
<1> DEFINE entry == [id |-> logged + 1, content |-> content]
<1>1. chatlog' = Cache(entry) /\ logged < MaxLogged /\ entry.id = logged + 1
  BY DEF LogMessage
<1>2. chatlog \in Seq(Entry) /\ logged \in 0 .. MaxLogged
  BY DEF LogInvariant
<1>3. entry \in Entry
  <2>1. logged + 1 \in 1 .. MaxLogged
    BY <1>1, <1>2, LoggedAssumption
  <2> QED
    BY <2>1 DEF Entry
<1> HIDE DEF entry
<1>4. Len(chatlog') \in 1 .. (Len(chatlog) + 1) /\ chatlog'[Len(chatlog')] = entry
  BY <1>1, <1>2, <1>3, CacheFromEnd
<1>5. /\ Len(chatlog) \in Nat /\ logged \in Nat
      /\ \A i \in 1 .. Len(chatlog) : chatlog[i].id = (logged - Len(chatlog)) + i
  BY LengthOfLog
<1>6. ASSUME chatlog' = chatlog PROVE FALSE
  <2>1. Len(chatlog) \in 1 .. Len(chatlog) /\ chatlog[Len(chatlog)].id = logged + 1
    BY <1>1, <1>4, <1>5, <1>6
  <2>2. chatlog[Len(chatlog)].id = (logged - Len(chatlog)) + Len(chatlog)
    BY <1>5, <2>1
  <2> QED
    BY <1>5, <2>1, <2>2
<1> QED
  BY <1>6

\* Every step that replaces a page by another one.
LEMMA StepsPageContiguously ==
  ASSUME WindowInvariant, [Next]_vars, mode = "browse", mode' = "browse",
         lines' = lines, window # <<>>, window' # window, chatlog' = chatlog
  PROVE  /\ window'[1].id <= window[1].id + PageSize(lines) + (Evicted - drawnAt)
         /\ Last(window').id + 1 >= window[1].id
<1>1. /\ LogInvariant /\ currentLine \in Nat /\ lines \in Heights \cup {0}
      /\ currentLine = 0 \/ currentLine < Len(chatlog)
  BY DEF WindowInvariant, LogInvariant, LineIsInLog
<1>2. PageSize(lines) \in Nat
  BY <1>1, PageSizeType
<1>3. \A content \in Content : ~LogMessage(content)
  BY <1>1, LoggingChangesLog
<1>4. ~KeyBrowse /\ ~KeyLive
  BY DEF KeyBrowse, KeyLive, SetMode
<1>5. ~Destroy /\ ~UNCHANGED vars
  BY DEF Destroy, vars
<1>6. CASE PreviousPage \/ NextPage
  <2>1. UpdateContent(mode, currentLine', lines)
    BY <1>6 DEF PreviousPage, NextPage
  <2>2. /\ currentLine' \in Nat
        /\ currentLine' = 0 \/ currentLine' < Len(chatlog)
        /\ currentLine' <= currentLine + PageSize(lines)
        /\ currentLine' + PageSize(lines) >= currentLine
    BY <1>6, KeysMoveLine
  <2> QED
    BY <2>1, <2>2, PagesMeet
<1>7. ASSUME NEW height \in Heights, RenderChat(height)
      PROVE  /\ window'[1].id <= window[1].id + PageSize(lines) + (Evicted - drawnAt)
             /\ Last(window').id + 1 >= window[1].id
  <2>1. UpdateContent(mode, currentLine', lines) /\ currentLine' = currentLine
    BY <1>7 DEF RenderChat
  <2>2. /\ currentLine' <= currentLine + PageSize(lines)
        /\ currentLine' + PageSize(lines) >= currentLine
    BY <1>1, <1>2, <2>1
  <2> QED
    BY <1>1, <2>1, <2>2, PagesMeet
<1> QED
  BY <1>3, <1>4, <1>5, <1>6, <1>7 DEF Next, Running

\* The invariant of the window holds in every state.
THEOREM WindowInvariantHolds == Spec => []WindowInvariant
<1>1. Init => PageIsDrawn /\ LiveShowsTail
  <2> SUFFICES ASSUME Init PROVE PageIsDrawn /\ LiveShowsTail
    OBVIOUS
  <2>1. /\ chatlog = <<>> /\ window = <<>> /\ drawnAt = 0 /\ logged = 0 /\ mode = "live"
        /\ lines \in Heights \cup {0}
    BY DEF Init
  <2>2. Len(chatlog) = 0 /\ Len(window) = 0 /\ <<>> \in Seq(Entry)
    BY <2>1
  <2>3. PageIsDrawn
    BY <2>1, <2>2 DEF PageIsDrawn, Evicted
  <2>4. PageSize(lines) \in Nat
    BY <2>1, PageSizeType
  <2>5. LastOf(chatlog, PageSize(lines)) = <<>>
    BY <2>1, <2>2, <2>4 DEF LastOf
  <2>6. IsSuffix(<<>>, <<>>)
    BY <2>2, SuffixOfItself
  <2> QED
    BY <2>1, <2>2, <2>3, <2>4, <2>5, <2>6 DEF LiveShowsTail
<1>2. LogInvariant /\ PageIsDrawn /\ LiveShowsTail => WindowInvariant
  BY DEF WindowInvariant
<1> QED
  BY <1>1, <1>2, LogInvariantHolds, StepsKeepWindow, PTL DEF Spec

\* The live window shows the newest entries, for every limit of the cache and
\* windows of every size.
THEOREM LiveWindowShowsTail == Spec => []LiveShowsTail
<1>1. WindowInvariant => LiveShowsTail
  BY DEF WindowInvariant
<1> QED
  BY <1>1, WindowInvariantHolds, PTL

\* Entries that fit the window are all seen.
LEMMA FittingIsSeen ==
  ASSUME NEW entries \in Seq(Entry), Fits(entries)
  PROVE  Seen(entries) = entries
<1> DEFINE N == Len(entries)
           First == {i \in 1 .. N + 1 : RowsFrom(entries, i) <= PageSize(lines)}
<1>1. N \in Nat /\ 1 \in 1 .. N + 1
  OBVIOUS
<1>2. 1 \in First
  BY <1>1 DEF Fits
<1>3. \A i \in First : i \in Nat /\ 1 <= i
  BY <1>1
<1> HIDE DEF First
<1>4. Min(First) \in First /\ \A i \in First : Min(First) <= i
  <2>1. \E m \in First : \A i \in First : m <= i
    BY <1>2, <1>3
  <2> QED
    BY <2>1, Zenon DEF Min
<1>5. Min(First) = 1
  BY <1>2, <1>3, <1>4
<1>6. Seen(entries) = SubSeq(entries, Min(First), N)
  BY DEF Seen, First
<1>7. SubSeq(entries, 1, N) = entries
  OBVIOUS
<1> QED
  BY <1>5, <1>6, <1>7

\* No two pages that fit leave an entry between them, for every limit of the
\* cache, windows of every size and entries of every length.
THEOREM PagesAreContiguous == Spec => PagingIsContiguous
<1> DEFINE Contiguous ==
      mode = "browse" /\ mode' = "browse" /\ <<lines, cols>>' = <<lines, cols>>
      /\ window # <<>> /\ window' # window /\ chatlog' = chatlog
      /\ Fits(window) /\ Fits(window') =>
        /\ Seen(window')[1].id <= Seen(window)[1].id + PageSize(lines) + (Evicted - drawnAt)
        /\ Last(Seen(window')).id + 1 >= Seen(window)[1].id
<1>1. WindowInvariant /\ WindowInvariant' /\ [Next]_vars => [Contiguous]_vars
  <2> SUFFICES ASSUME WindowInvariant, WindowInvariant', [Next]_vars,
                      mode = "browse", mode' = "browse", lines' = lines,
                      window # <<>>, window' # window, chatlog' = chatlog,
                      Fits(window), Fits(window')
               PROVE  /\ Seen(window')[1].id <= Seen(window)[1].id + PageSize(lines) + (Evicted - drawnAt)
                      /\ Last(Seen(window')).id + 1 >= Seen(window)[1].id
    OBVIOUS
  <2>1. window \in Seq(Entry) /\ window' \in Seq(Entry)
    BY DEF WindowInvariant, PageIsDrawn
  <2>2. Seen(window) = window /\ Seen(window') = window'
    BY <2>1, FittingIsSeen
  <2>3. /\ window'[1].id <= window[1].id + PageSize(lines) + (Evicted - drawnAt)
        /\ Last(window').id + 1 >= window[1].id
    BY StepsPageContiguously
  <2> QED
    BY <2>2, <2>3
<1> QED
  BY <1>1, WindowInvariantHolds, PTL DEF Spec, PagingIsContiguous


-----------------------------------------------------------------------------
(* Loops. *)

\* A set that has 0 and, with a number, the next one, has them all.
LEMMA SetInduction ==
  ASSUME NEW S, 0 \in S, \A n \in Nat : n \in S => n + 1 \in S
  PROVE  Nat \subseteq S
<1> DEFINE T == Nat \ S
           R == {ss \in Nat \X Nat : ss[1] < ss[2]}
<1>1. \A x, y \in Nat : x < y => <<x, y>> \in R
  OBVIOUS
<1>2. IsWellFoundedOn(R, Nat)
  BY NatLessThanWellFounded, Zenon DEF OpToRel
<1> HIDE DEF R
<1>3. SUFFICES ASSUME T # {} PROVE FALSE
  OBVIOUS
<1>4. PICK x \in T : \A y \in T : ~(<<y, x>> \in R)
  BY <1>2, <1>3, WFMin
<1>5. x - 1 \in Nat /\ x - 1 < x /\ (x - 1) + 1 = x
  BY <1>4
<1>6. x - 1 \in T
  BY <1>4, <1>5
<1> QED
  BY <1>1, <1>4, <1>5, <1>6

\* The values of a variable before a loop and after each of its N rounds, where
\* F[k] is what round k does.
IsLoop(f, T, N, F, start) ==
  /\ f \in [0 .. N -> T] /\ f[0] = start
  /\ \A k \in 1 .. N : f[k] = F[k][f[k - 1]]

\* A loop that never leaves T goes on to its end.
LEMMA LoopExists ==
  ASSUME NEW T, NEW N \in Nat, NEW F \in [1 .. N -> [T -> T]], NEW start \in T
  PROVE  \E f : IsLoop(f, T, N, F, start)
<1> USE DEF IsLoop
<1> DEFINE S == {n \in Nat : n <= N => \E f : IsLoop(f, T, n, F, start)}
<1>1. 0 \in S
  <2>1. IsLoop([k \in 0 .. 0 |-> start], T, 0, F, start)
    OBVIOUS
  <2> QED
    BY <2>1
<1>2. ASSUME NEW n \in Nat, n \in S PROVE n + 1 \in S
  <2>1. SUFFICES ASSUME n + 1 <= N PROVE \E f : IsLoop(f, T, n + 1, F, start)
    OBVIOUS
  <2>2. PICK f : IsLoop(f, T, n, F, start)
    BY <1>2, <2>1
  <2> DEFINE g == [k \in 0 .. (n + 1) |-> IF k <= n THEN f[k] ELSE F[n + 1][f[n]]]
  <2>3. F[n + 1][f[n]] \in T
    <3>1. f[n] \in T /\ n + 1 \in 1 .. N
      BY <2>1, <2>2
    <3> QED
      BY <3>1
  <2>4. g \in [0 .. (n + 1) -> T] /\ g[0] = start
    BY <2>2, <2>3
  <2>5. ASSUME NEW k \in 1 .. (n + 1) PROVE g[k] = F[k][g[k - 1]]
    <3>1. CASE k <= n
      <4>1. g[k] = f[k] /\ g[k - 1] = f[k - 1] /\ k \in 1 .. n
        BY <3>1
      <4> QED
        BY <2>2, <4>1
    <3>2. CASE k = n + 1
      BY <3>2
    <3> QED
      BY <3>1, <3>2
  <2> HIDE DEF g
  <2> QED
    BY <2>4, <2>5
<1> HIDE DEF S
<1>3. Nat \subseteq S
  BY <1>1, <1>2, SetInduction
<1>4. \E f : IsLoop(f, T, N, F, start)
  BY <1>3 DEF S
<1> QED
  BY <1>4

\* What holds before a loop and after each round holds at its end.
LEMMA LoopInvariant ==
  ASSUME NEW T, NEW N \in Nat, NEW f, f[0] \in T,
         \A k \in 1 .. N : f[k - 1] \in T => f[k] \in T
  PROVE  f[N] \in T
<1> DEFINE S == {n \in Nat : n <= N => f[n] \in T}
<1>1. 0 \in S
  OBVIOUS
<1>2. ASSUME NEW n \in Nat, n \in S PROVE n + 1 \in S
  <2>1. SUFFICES ASSUME n + 1 <= N PROVE f[n + 1] \in T
    OBVIOUS
  <2>2. n + 1 \in 1 .. N /\ (n + 1) - 1 = n /\ f[n] \in T
    BY <1>2, <2>1
  <2> QED
    BY <2>2
<1> HIDE DEF S
<1>3. Nat \subseteq S
  BY <1>1, <1>2, SetInduction
<1> QED
  BY <1>3 DEF S

\* Hash_indexFor gives a row of the table for every key.
LEMMA IndexIsRow ==
  ASSUME NEW key \in Seq(Int)
  PROVE  Hash_indexFor(key) \in Rows
<1> DEFINE N == Len(key)
           Step(f) == [n \in 0 .. N |-> IF n = 0 THEN 0 ELSE f[n - 1] + key[n]]
           W == CHOOSE f : f = Step(f)
<1>1. N \in Nat /\ \A n \in 1 .. N : key[n] \in Int
  OBVIOUS
<1>2. Hash_indexFor(key) = W[N] % HASH_SIZE
  BY DEF Hash_indexFor
<1>3. W = Step(W)
  <2>1. PICK Z : Z = Int
    OBVIOUS
  <2> DEFINE F == [n \in 1 .. N |-> [i \in Z |-> i + key[n]]]
  <2>2. \A n \in 1 .. N : \A i \in Z : i + key[n] \in Z
    BY <1>1, <2>1
  <2>3. /\ F \in [1 .. N -> [Z -> Z]]
        /\ \A n \in 1 .. N : \A i \in Z : F[n][i] = i + key[n]
    BY <2>2
  <2> HIDE DEF F, N
  <2>4. PICK f : IsLoop(f, Z, N, F, 0)
    <3>1. N \in Nat /\ F \in [1 .. N -> [Z -> Z]] /\ 0 \in Z
      BY <1>1, <2>1, <2>3
    <3> QED
      BY <3>1, LoopExists, Zenon
  <2>5. f \in [0 .. N -> Z] /\ f[0] = 0 /\ \A k \in 1 .. N : f[k] = F[k][f[k - 1]]
    BY <2>4 DEF IsLoop
  <2>6. ASSUME NEW n \in 0 .. N PROVE f[n] = Step(f)[n]
    <3>1. CASE n = 0
      BY <2>5, <3>1
    <3>2. CASE n # 0
      <4>1. n \in 1 .. N /\ n - 1 \in 0 .. N /\ f[n - 1] \in Z
        BY <1>1, <2>5, <3>2
      <4>2. f[n] = F[n][f[n - 1]] /\ F[n][f[n - 1]] = f[n - 1] + key[n]
        BY <2>3, <2>5, <4>1
      <4> QED
        BY <3>2, <4>2
    <3> QED
      BY <3>1, <3>2
  <2>7. f = Step(f)
    BY <2>5, <2>6
  <2> HIDE DEF Step
  <2> QED
    BY <2>7
<1> HIDE DEF W
<1>4. W[0] = 0 /\ \A n \in 1 .. N : W[n] = W[n - 1] + key[n]
  BY <1>1, <1>3
<1>5. W[N] \in Int
  <2>1. \A n \in 1 .. N : W[n - 1] \in Int => W[n] \in Int
    BY <1>1, <1>4
  <2> HIDE DEF N
  <2> QED
    BY <1>1, <1>4, <2>1, LoopInvariant
<1> QED
  BY <1>2, <1>5, HashSizeAssumption DEF Rows

-----------------------------------------------------------------------------
(* The dictionary of colours. *)

\* A node of a chain, the chains of a table, and the dictionaries it can be.
Node == [key : Users, value : 0 .. Colors]
Chains == [Rows -> Seq(Node)]
Dictionaries == [Users -> 0 .. Colors \cup {NoValue}]

\* The keys of a dictionary that have a value.
Present(dict) == {key \in DOMAIN dict : dict[key] # NoValue}

\* The chains hold the dictionary: a node for each key that has a value, in its
\* row and once.
Stores(hash, dict) ==
  /\ \A row \in Rows : \A i \in 1 .. Len(hash[row]) :
       /\ Hash_indexFor(hash[row][i].key) = row
       /\ dict[hash[row][i].key] = hash[row][i].value
  /\ \A row \in Rows : \A i, j \in 1 .. Len(hash[row]) :
       hash[row][i].key = hash[row][j].key => i = j
  /\ \A key \in Users : dict[key] # NoValue =>
       \E i \in 1 .. Len(hash[Hash_indexFor(key)]) : hash[Hash_indexFor(key)][i].key = key

\* A user's row is one of the table's.
LEMMA UserHasRow ==
  ASSUME NEW user \in Users
  PROVE  Hash_indexFor(user) \in Rows
BY UsersAssumption, IndexIsRow

\* The chains and their nodes.
LEMMA ChainTypes ==
  ASSUME NEW hash \in Chains, NEW row \in Rows
  PROVE  /\ hash[row] \in Seq(Node) /\ Len(hash[row]) \in Nat
         /\ DOMAIN hash[row] = 1 .. Len(hash[row])
         /\ \A i \in 1 .. Len(hash[row]) :
              /\ hash[row][i] \in Node
              /\ hash[row][i].key \in Users
              /\ hash[row][i].value \in 0 .. Colors
              /\ hash[row][i].value # NoValue
<1>1. hash[row] \in Seq(Node)
  BY DEF Chains
<1>2. /\ Len(hash[row]) \in Nat /\ DOMAIN hash[row] = 1 .. Len(hash[row])
      /\ \A i \in 1 .. Len(hash[row]) : hash[row][i] \in Node
  BY <1>1
<1>3. \A node \in Node : node.key \in Users /\ node.value \in 0 .. Colors /\ node.value # NoValue
  BY ColorsAssumption DEF Node
<1> QED
  BY <1>1, <1>2, <1>3

\* What Matches finds: the node of a key, and nothing for a key without value.
LEMMA MatchesFindsNode ==
  ASSUME NEW hash \in Chains, NEW dict \in Dictionaries, Stores(hash, dict),
         NEW key \in Users
  PROVE  LET chain == hash[Hash_indexFor(key)]
         IN  /\ dict[key] = NoValue => Matches(chain, key) = {}
             /\ dict[key] # NoValue =>
                  \E i \in 1 .. Len(chain) :
                    /\ Matches(chain, key) = {i} /\ Min(Matches(chain, key)) = i
                    /\ chain[i].key = key /\ chain[i].value = dict[key]
<1> DEFINE row == Hash_indexFor(key)
           chain == hash[row]
<1>1. row \in Rows
  BY UserHasRow
<1>2. /\ DOMAIN chain = 1 .. Len(chain) /\ Len(chain) \in Nat
      /\ \A i \in 1 .. Len(chain) : chain[i].value # NoValue
  BY <1>1, ChainTypes
<1>3. /\ \A i \in 1 .. Len(chain) : dict[chain[i].key] = chain[i].value
      /\ \A i, j \in 1 .. Len(chain) : chain[i].key = chain[j].key => i = j
      /\ dict[key] # NoValue => \E i \in 1 .. Len(chain) : chain[i].key = key
  BY <1>1 DEF Stores
<1> HIDE DEF chain
<1>4. Matches(chain, key) = {i \in 1 .. Len(chain) : chain[i].key = key}
  BY <1>2 DEF Matches
<1>5. dict[key] = NoValue => Matches(chain, key) = {}
  BY <1>2, <1>3, <1>4
<1>6. ASSUME dict[key] # NoValue
      PROVE  \E i \in 1 .. Len(chain) :
               /\ Matches(chain, key) = {i} /\ Min(Matches(chain, key)) = i
               /\ chain[i].key = key /\ chain[i].value = dict[key]
  <2>1. PICK i \in 1 .. Len(chain) : chain[i].key = key
    BY <1>3, <1>6
  <2>2. Matches(chain, key) = {i}
    BY <1>3, <1>4, <2>1
  <2>3. Min({i}) = i
    <3>1. i \in Int
      BY <1>2
    <3> QED
      BY <3>1, SmallerOfTwo
  <2>4. chain[i].value = dict[key]
    BY <1>3, <2>1
  <2> QED
    BY <2>1, <2>2, <2>3, <2>4
<1> QED
  BY <1>5, <1>6 DEF chain

\* The number of keys that have a value.
LEMMA PresentIsFinite ==
  ASSUME NEW dict \in Dictionaries
  PROVE  /\ IsFiniteSet(Present(dict)) /\ Cardinality(Present(dict)) \in Nat
         /\ \A key \in Users : dict[key] # NoValue => Cardinality(Present(dict)) > 0
<1>1. Present(dict) \in SUBSET Users
  BY DEF Present, Dictionaries
<1>2. IsFiniteSet(Present(dict))
  BY <1>1, UsersAssumption, FS_Subset
<1>3. Cardinality(Present(dict)) \in Nat
  BY <1>2, FS_CardinalityType
<1>4. ASSUME NEW key \in Users, dict[key] # NoValue
      PROVE  Cardinality(Present(dict)) # 0
  <2>1. key \in Present(dict)
    BY <1>4 DEF Present, Dictionaries
  <2> QED
    BY <1>2, <2>1, FS_EmptySet
<1> QED
  BY <1>2, <1>3, <1>4

\* What IsDictionary says of a table, by its chains.
LEMMA DictionaryIsStored ==
  ASSUME NEW table \in ColorTable, NEW dict \in Dictionaries
  PROVE  IsDictionary(table, dict) <=>
           Stores(table.hash, dict) /\ table.length = Cardinality(Present(dict))
<1> DEFINE hash == table.hash
<1>1. hash \in Chains /\ table.length \in Nat
  BY DEF ColorTable, Chains, Node
<1>2. DOMAIN dict = Users
  BY DEF Dictionaries
<1>3. Present(dict) = {key \in DOMAIN dict : dict[key] # NoValue}
  BY DEF Present
<1> HIDE DEF hash
<1>4. ASSUME IsDictionary(table, dict)
      PROVE  Stores(hash, dict) /\ table.length = Cardinality(Present(dict))
  <2>1. /\ \A key \in Users : Hash_getValue(table, key) = dict[key]
        /\ table.length = Cardinality(Present(dict))
        /\ \A row \in Rows : \A i \in DOMAIN hash[row] :
             /\ dict[hash[row][i].key] # NoValue
             /\ Hash_indexFor(hash[row][i].key) = row
             /\ Matches(hash[row], hash[row][i].key) = {i}
    BY <1>2, <1>3, <1>4 DEF IsDictionary, hash
  <2>2. ASSUME NEW row \in Rows, NEW i \in 1 .. Len(hash[row])
        PROVE  /\ Hash_indexFor(hash[row][i].key) = row
               /\ dict[hash[row][i].key] = hash[row][i].value
    <3> DEFINE key == hash[row][i].key
    <3>1. /\ key \in Users /\ i \in DOMAIN hash[row] /\ i \in Int
      BY <1>1, ChainTypes
    <3>2. Hash_indexFor(key) = row /\ Matches(hash[row], key) = {i} /\ dict[key] # NoValue
      BY <2>1, <3>1
    <3>3. Min({i}) = i
      BY <3>1, SmallerOfTwo
    <3>4. Hash_getValue(table, key) # NoValue
      BY <2>1, <3>1, <3>2
    <3>5. Hash_getValue(table, key) = hash[row][i].value
      BY <3>2, <3>3, <3>4 DEF Hash_getValue, hash
    <3> QED
      BY <2>1, <3>1, <3>2, <3>5
  <2>3. ASSUME NEW row \in Rows, NEW i \in 1 .. Len(hash[row]), NEW j \in 1 .. Len(hash[row]),
               hash[row][i].key = hash[row][j].key
        PROVE  i = j
    <3>1. DOMAIN hash[row] = 1 .. Len(hash[row])
      BY <1>1, ChainTypes
    <3>2. Matches(hash[row], hash[row][i].key) = {i}
      BY <2>1, <3>1
    <3>3. j \in Matches(hash[row], hash[row][i].key)
      BY <2>3, <3>1 DEF Matches
    <3> QED
      BY <3>2, <3>3
  <2>4. ASSUME NEW key \in Users, dict[key] # NoValue
        PROVE  \E i \in 1 .. Len(hash[Hash_indexFor(key)]) :
                 hash[Hash_indexFor(key)][i].key = key
    <3> DEFINE row == Hash_indexFor(key)
    <3>1. DOMAIN hash[row] = 1 .. Len(hash[row])
      BY <1>1, ChainTypes, UserHasRow
    <3>2. Hash_getValue(table, key) # NoValue
      BY <2>1, <2>4
    <3>3. Matches(hash[row], key) # {}
      BY <3>2 DEF Hash_getValue, hash
    <3> QED
      BY <3>1, <3>3 DEF Matches
  <2> QED
    BY <2>1, <2>2, <2>3, <2>4 DEF Stores
<1>5. ASSUME Stores(hash, dict), table.length = Cardinality(Present(dict))
      PROVE  IsDictionary(table, dict)
  <2>1. ASSUME NEW key \in Users PROVE Hash_getValue(table, key) = dict[key]
    <3> DEFINE chain == hash[Hash_indexFor(key)]
    <3>1. CASE dict[key] = NoValue
      <4>1. Matches(chain, key) = {}
        BY <1>1, <1>5, <3>1, MatchesFindsNode
      <4> QED
        BY <3>1, <4>1 DEF Hash_getValue, hash
    <3>2. CASE dict[key] # NoValue
      <4>1. PICK i \in 1 .. Len(chain) :
              /\ Matches(chain, key) = {i} /\ Min(Matches(chain, key)) = i
              /\ chain[i].value = dict[key]
        BY <1>1, <1>5, <3>2, MatchesFindsNode
      <4>2. table.length > 0
        BY <1>5, <3>2, PresentIsFinite
      <4>3. Matches(chain, key) # {}
        BY <4>1
      <4>4. Hash_getValue(table, key) = chain[Min(Matches(chain, key))].value
        BY <4>2, <4>3 DEF Hash_getValue, hash
      <4> QED
        BY <4>1, <4>4
    <3> QED
      BY <3>1, <3>2
  <2>2. ASSUME NEW row \in Rows, NEW i \in DOMAIN hash[row]
        PROVE  /\ hash[row][i].key \in Users /\ dict[hash[row][i].key] # NoValue
               /\ Hash_indexFor(hash[row][i].key) = row
               /\ Matches(hash[row], hash[row][i].key) = {i}
    <3>1. /\ i \in 1 .. Len(hash[row]) /\ DOMAIN hash[row] = 1 .. Len(hash[row])
          /\ hash[row][i].key \in Users /\ hash[row][i].value # NoValue
      BY <1>1, ChainTypes
    <3>2. /\ Hash_indexFor(hash[row][i].key) = row
          /\ dict[hash[row][i].key] = hash[row][i].value
          /\ \A j \in 1 .. Len(hash[row]) : hash[row][i].key = hash[row][j].key => i = j
      BY <1>5, <3>1 DEF Stores
    <3>3. Matches(hash[row], hash[row][i].key) = {i}
      BY <3>1, <3>2 DEF Matches
    <3> QED
      BY <3>1, <3>2, <3>3
  <2> QED
    BY <1>2, <1>3, <1>5, <2>1, <2>2 DEF IsDictionary, hash
<1> QED
  BY <1>4, <1>5 DEF hash

\* A new key: its node comes last in its row.
LEMMA StoreOneMore ==
  ASSUME NEW hash \in Chains, NEW dict \in Dictionaries, Stores(hash, dict),
         NEW user \in Users, dict[user] = NoValue, NEW color \in 0 .. Colors
  PROVE  LET row  == Hash_indexFor(user)
             more == [hash EXCEPT ![row] = Append(@, [key |-> user, value |-> color])]
             new  == [dict EXCEPT ![user] = color]
         IN  /\ more \in Chains /\ new \in Dictionaries /\ Stores(more, new)
             /\ Cardinality(Present(new)) = Cardinality(Present(dict)) + 1
<1> DEFINE row == Hash_indexFor(user)
           node == [key |-> user, value |-> color]
           more == [hash EXCEPT ![row] = Append(@, node)]
           new == [dict EXCEPT ![user] = color]
           n == Len(hash[row])
<1>1. row \in Rows
  BY UserHasRow
<1>2. node \in Node /\ node.key = user /\ node.value = color /\ color # NoValue
  BY ColorsAssumption DEF Node
<1>3. /\ n \in Nat /\ hash[row] \in Seq(Node)
      /\ \A r \in Rows : Len(hash[r]) \in Nat
      /\ \A r \in Rows : \A i \in 1 .. Len(hash[r]) :
           hash[r][i].key \in Users /\ hash[r][i].value # NoValue
  BY <1>1, ChainTypes
<1> HIDE DEF node, row
<1>4. /\ Append(hash[row], node) \in Seq(Node) /\ Len(Append(hash[row], node)) = n + 1
      /\ \A i \in 1 .. n : Append(hash[row], node)[i] = hash[row][i]
      /\ Append(hash[row], node)[n + 1] = node
  BY <1>2, <1>3, AppendProperties
<1>5. /\ more \in Chains /\ more[row] = Append(hash[row], node)
      /\ \A r \in Rows : r # row => more[r] = hash[r]
  BY <1>1, <1>4 DEF Chains
<1>6. /\ new \in Dictionaries /\ new[user] = color
      /\ \A key \in Users : key # user => new[key] = dict[key]
  BY DEF Dictionaries
<1>7. /\ \A r \in Rows : \A i \in 1 .. Len(hash[r]) :
           Hash_indexFor(hash[r][i].key) = r /\ dict[hash[r][i].key] = hash[r][i].value
      /\ \A r \in Rows : \A i, j \in 1 .. Len(hash[r]) :
           hash[r][i].key = hash[r][j].key => i = j
      /\ \A key \in Users : dict[key] # NoValue =>
           \E i \in 1 .. Len(hash[Hash_indexFor(key)]) : hash[Hash_indexFor(key)][i].key = key
  BY DEF Stores
<1>8. \A r \in Rows : \A i \in 1 .. Len(hash[r]) : hash[r][i].key # user
  BY <1>3, <1>7
<1>9. /\ Len(more[row]) = n + 1 /\ more[row][n + 1] = node
      /\ \A i \in 1 .. n : more[row][i] = hash[row][i]
  BY <1>4, <1>5
<1> HIDE DEF more, new
<1>10. ASSUME NEW r \in Rows, NEW i \in 1 .. Len(more[r])
       PROVE  /\ \/ i \in 1 .. Len(hash[r]) /\ more[r][i] = hash[r][i]
                 \/ r = row /\ i = n + 1 /\ more[r][i] = node
  <2>1. CASE r = row
    <3>1. i \in 1 .. n \/ i = n + 1
      BY <1>3, <1>9, <2>1
    <3> QED
      BY <1>9, <2>1, <3>1
  <2>2. CASE r # row
    BY <1>5, <2>2
  <2> QED
    BY <2>1, <2>2
<1>11. ASSUME NEW r \in Rows, NEW i \in 1 .. Len(more[r])
       PROVE  /\ Hash_indexFor(more[r][i].key) = r
              /\ new[more[r][i].key] = more[r][i].value
  <2>1. CASE i \in 1 .. Len(hash[r]) /\ more[r][i] = hash[r][i]
    BY <1>3, <1>6, <1>7, <1>8, <2>1
  <2>2. CASE r = row /\ more[r][i] = node
    BY <1>2, <1>6, <2>2 DEF row
  <2> QED
    BY <1>10, <2>1, <2>2
<1>12. ASSUME NEW r \in Rows, NEW i \in 1 .. Len(more[r]), NEW j \in 1 .. Len(more[r]),
              more[r][i].key = more[r][j].key
       PROVE  i = j
  <2>1. /\ \/ i \in 1 .. Len(hash[r]) /\ more[r][i] = hash[r][i]
           \/ i = n + 1 /\ more[r][i].key = user
        /\ \/ j \in 1 .. Len(hash[r]) /\ more[r][j] = hash[r][j]
           \/ j = n + 1 /\ more[r][j].key = user
    BY <1>2, <1>10
  <2> QED
    BY <1>7, <1>8, <1>12, <2>1
<1>13. ASSUME NEW key \in Users, new[key] # NoValue
       PROVE  \E i \in 1 .. Len(more[Hash_indexFor(key)]) :
                more[Hash_indexFor(key)][i].key = key
  <2> DEFINE r == Hash_indexFor(key)
  <2>1. r \in Rows
    BY UserHasRow
  <2>2. CASE key = user
    <3>1. r = row /\ n + 1 \in 1 .. Len(more[row]) /\ more[row][n + 1].key = key
      BY <1>2, <1>3, <1>9, <2>2 DEF row
    <3> QED
      BY <3>1
  <2>3. CASE key # user
    <3>1. PICK i \in 1 .. Len(hash[r]) : hash[r][i].key = key
      BY <1>6, <1>7, <1>13, <2>3
    <3>2. i \in 1 .. Len(more[r]) /\ more[r][i] = hash[r][i]
      <4>1. CASE r = row
        BY <1>3, <1>9, <4>1
      <4>2. CASE r # row
        BY <1>5, <2>1, <4>2
      <4> QED
        BY <4>1, <4>2
    <3> QED
      BY <3>1, <3>2
  <2> QED
    BY <2>2, <2>3
<1>14. Stores(more, new)
  BY <1>11, <1>12, <1>13 DEF Stores
<1>15. Cardinality(Present(new)) = Cardinality(Present(dict)) + 1
  <2>1. Present(new) = Present(dict) \cup {user} /\ user \notin Present(dict)
    BY <1>2, <1>6 DEF Present, Dictionaries
  <2> QED
    BY <2>1, PresentIsFinite, FS_AddElement
<1> QED
  BY <1>5, <1>6, <1>14, <1>15 DEF more, new, node, row

\* A sequence without its i-th element.
LEMMA RemoveAtProperties ==
  ASSUME NEW S, NEW s \in Seq(S), NEW i \in 1 .. Len(s)
  PROVE  /\ RemoveAt(s, i) \in Seq(S) /\ Len(RemoveAt(s, i)) = Len(s) - 1
         /\ \A j \in 1 .. (Len(s) - 1) :
              RemoveAt(s, i)[j] = IF j < i THEN s[j] ELSE s[j + 1]
<1> DEFINE a == SubSeq(s, 1, i - 1)
           b == SubSeq(s, i + 1, Len(s))
<1>0. Len(s) \in Nat
  OBVIOUS
<1>1. /\ a \in Seq(S) /\ Len(a) = i - 1
      /\ \A j \in 1 .. (i - 1) : a[j] = s[j]
  <2>1. 1 \in 1 .. (Len(s) + 1) /\ i - 1 \in (1 - 1) .. Len(s)
    BY <1>0
  <2>2. /\ a \in Seq(S)
        /\ Len(a) = IF 1 <= i - 1 THEN (i - 1) - 1 + 1 ELSE 0
        /\ \A j \in 1 .. ((i - 1) - 1 + 1) : a[j] = s[1 + j - 1]
    BY <2>1, SubSeqProperties
  <2> HIDE DEF a
  <2> QED
    BY <1>0, <2>2
<1>2. /\ b \in Seq(S) /\ Len(b) = Len(s) - i
      /\ \A j \in 1 .. (Len(s) - i) : b[j] = s[i + j]
  <2>1. i + 1 \in 1 .. (Len(s) + 1) /\ Len(s) \in (i + 1 - 1) .. Len(s)
    BY <1>0
  <2>2. /\ b \in Seq(S)
        /\ Len(b) = IF i + 1 <= Len(s) THEN Len(s) - (i + 1) + 1 ELSE 0
        /\ \A j \in 1 .. (Len(s) - (i + 1) + 1) : b[j] = s[(i + 1) + j - 1]
    BY <2>1, SubSeqProperties
  <2> HIDE DEF b
  <2> QED
    BY <1>0, <2>2
<1>3. RemoveAt(s, i) = a \o b
  BY DEF RemoveAt
<1> HIDE DEF a, b
<1>4. /\ a \o b \in Seq(S) /\ Len(a \o b) = Len(a) + Len(b)
      /\ \A j \in 1 .. (Len(a) + Len(b)) :
           (a \o b)[j] = IF j <= Len(a) THEN a[j] ELSE b[j - Len(a)]
  BY <1>1, <1>2, ConcatProperties
<1>5. Len(a) + Len(b) = Len(s) - 1
  BY <1>0, <1>1, <1>2
<1>6. ASSUME NEW j \in 1 .. (Len(s) - 1)
      PROVE  (a \o b)[j] = IF j < i THEN s[j] ELSE s[j + 1]
  <2>1. (a \o b)[j] = IF j <= Len(a) THEN a[j] ELSE b[j - Len(a)]
    BY <1>4, <1>5
  <2>2. CASE j < i
    <3>1. j <= Len(a) /\ j \in 1 .. (i - 1)
      BY <1>1, <2>2
    <3> QED
      BY <1>1, <2>1, <2>2, <3>1
  <2>3. CASE ~(j < i)
    <3>1. ~(j <= Len(a)) /\ j - Len(a) \in 1 .. (Len(s) - i) /\ i + (j - Len(a)) = j + 1
      BY <1>0, <1>1, <2>3
    <3> QED
      BY <1>2, <2>1, <2>3, <3>1
  <2> QED
    BY <2>2, <2>3
<1> QED
  BY <1>3, <1>4, <1>5, <1>6

\* A key that goes: its node is taken out of its row.
LEMMA StoreOneLess ==
  ASSUME NEW hash \in Chains, NEW dict \in Dictionaries, Stores(hash, dict),
         NEW user \in Users, dict[user] # NoValue,
         NEW at \in 1 .. Len(hash[Hash_indexFor(user)]),
         hash[Hash_indexFor(user)][at].key = user
  PROVE  LET row  == Hash_indexFor(user)
             less == [hash EXCEPT ![row] = RemoveAt(@, at)]
             new  == [dict EXCEPT ![user] = NoValue]
         IN  /\ less \in Chains /\ new \in Dictionaries /\ Stores(less, new)
             /\ Cardinality(Present(new)) = Cardinality(Present(dict)) - 1
<1> DEFINE row == Hash_indexFor(user)
           less == [hash EXCEPT ![row] = RemoveAt(@, at)]
           new == [dict EXCEPT ![user] = NoValue]
           n == Len(hash[row])
<1>1. row \in Rows
  BY UserHasRow
<1>2. /\ n \in Nat /\ hash[row] \in Seq(Node) /\ at \in 1 .. n
      /\ \A r \in Rows : Len(hash[r]) \in Nat
      /\ \A r \in Rows : \A i \in 1 .. Len(hash[r]) : hash[r][i].key \in Users
  BY <1>1, ChainTypes
<1>3. /\ RemoveAt(hash[row], at) \in Seq(Node) /\ Len(RemoveAt(hash[row], at)) = n - 1
      /\ \A j \in 1 .. (n - 1) :
           RemoveAt(hash[row], at)[j] = IF j < at THEN hash[row][j] ELSE hash[row][j + 1]
  BY <1>2, RemoveAtProperties
<1> HIDE DEF row
<1>4. /\ less \in Chains /\ less[row] = RemoveAt(hash[row], at)
      /\ \A r \in Rows : r # row => less[r] = hash[r]
  BY <1>1, <1>3 DEF Chains
<1>5. /\ new \in Dictionaries /\ new[user] = NoValue
      /\ \A key \in Users : key # user => new[key] = dict[key]
  BY DEF Dictionaries
<1>6. /\ \A r \in Rows : \A i \in 1 .. Len(hash[r]) :
           Hash_indexFor(hash[r][i].key) = r /\ dict[hash[r][i].key] = hash[r][i].value
      /\ \A r \in Rows : \A i, j \in 1 .. Len(hash[r]) :
           hash[r][i].key = hash[r][j].key => i = j
      /\ \A key \in Users : dict[key] # NoValue =>
           \E i \in 1 .. Len(hash[Hash_indexFor(key)]) : hash[Hash_indexFor(key)][i].key = key
  BY DEF Stores
<1>7. hash[row][at].key = user
  BY DEF row
<1>8. /\ Len(less[row]) = n - 1
      /\ \A j \in 1 .. (n - 1) :
           less[row][j] = IF j < at THEN hash[row][j] ELSE hash[row][j + 1]
  BY <1>3, <1>4
<1> HIDE DEF less, new
<1> DEFINE From(r, j) == IF r = row /\ j >= at THEN j + 1 ELSE j
<1>9. ASSUME NEW r \in Rows, NEW j \in 1 .. Len(less[r])
      PROVE  /\ From(r, j) \in 1 .. Len(hash[r]) /\ less[r][j] = hash[r][From(r, j)]
             /\ hash[r][From(r, j)].key # user
  <2>1. CASE r = row
    <3>1. From(r, j) = (IF j < at THEN j ELSE j + 1) /\ j \in 1 .. (n - 1)
      BY <1>2, <1>8, <2>1
    <3>2. From(r, j) \in 1 .. n /\ From(r, j) # at
      BY <1>2, <3>1
    <3>3. less[r][j] = hash[r][From(r, j)]
      BY <1>8, <2>1, <3>1
    <3>4. hash[r][From(r, j)].key # user
      BY <1>1, <1>2, <1>6, <1>7, <2>1, <3>2
    <3> QED
      BY <2>1, <3>2, <3>3, <3>4
  <2>2. CASE r # row
    <3>1. From(r, j) = j /\ less[r] = hash[r]
      BY <1>4, <2>2
    <3>2. Hash_indexFor(hash[r][j].key) = r
      BY <1>6, <3>1
    <3>3. hash[r][j].key # user
      BY <2>2, <3>2 DEF row
    <3> QED
      BY <3>1, <3>3
  <2> QED
    BY <2>1, <2>2
<1>10. ASSUME NEW r \in Rows, NEW j \in 1 .. Len(less[r])
       PROVE  /\ Hash_indexFor(less[r][j].key) = r
              /\ new[less[r][j].key] = less[r][j].value
  <2>1. PICK i \in 1 .. Len(hash[r]) : less[r][j] = hash[r][i] /\ hash[r][i].key # user
    BY <1>9
  <2> QED
    BY <1>2, <1>5, <1>6, <2>1
<1>11. ASSUME NEW r \in Rows, NEW i \in 1 .. Len(less[r]), NEW j \in 1 .. Len(less[r]),
              less[r][i].key = less[r][j].key
       PROVE  i = j
  <2>1. /\ From(r, i) \in 1 .. Len(hash[r]) /\ From(r, j) \in 1 .. Len(hash[r])
        /\ hash[r][From(r, i)].key = hash[r][From(r, j)].key
    BY <1>9, <1>11
  <2>2. From(r, i) = From(r, j)
    BY <1>6, <2>1
  <2>3. i \in Int /\ j \in Int
    OBVIOUS
  <2> QED
    BY <1>2, <2>2, <2>3
<1>12. ASSUME NEW key \in Users, new[key] # NoValue
       PROVE  \E i \in 1 .. Len(less[Hash_indexFor(key)]) :
                less[Hash_indexFor(key)][i].key = key
  <2> DEFINE r == Hash_indexFor(key)
  <2>1. r \in Rows /\ key # user
    BY <1>5, <1>12, UserHasRow
  <2>2. PICK i \in 1 .. Len(hash[r]) : hash[r][i].key = key
    BY <1>5, <1>6, <1>12, <2>1
  <2>3. CASE r = row
    <3> DEFINE j == IF i < at THEN i ELSE i - 1
    <3>1. i # at /\ i \in 1 .. n
      BY <1>7, <2>1, <2>2, <2>3
    <3>2. j \in 1 .. (n - 1) /\ (IF j < at THEN j ELSE j + 1) = i
      BY <1>2, <3>1
    <3>3. less[row][j] = hash[row][i]
      BY <1>8, <3>2
    <3> HIDE DEF j
    <3>4. j \in 1 .. Len(less[row]) /\ less[row][j].key = key
      BY <1>8, <2>2, <2>3, <3>2, <3>3
    <3> QED
      BY <2>3, <3>4
  <2>4. CASE r # row
    BY <1>4, <2>1, <2>2, <2>4
  <2> QED
    BY <2>3, <2>4
<1>13. Stores(less, new)
  BY <1>10, <1>11, <1>12 DEF Stores
<1>14. Cardinality(Present(new)) = Cardinality(Present(dict)) - 1
  <2>1. Present(new) = Present(dict) \ {user} /\ user \in Present(dict)
    BY <1>5 DEF Present, Dictionaries
  <2> QED
    BY <2>1, PresentIsFinite, FS_RemoveElement
<1> QED
  BY <1>4, <1>5, <1>13, <1>14 DEF less, new, row

\* Hash_set of a new key gives the table of the dictionary with it.
LEMMA SettingKeepsDictionary ==
  ASSUME NEW table \in ColorTable, NEW dict \in Dictionaries, IsDictionary(table, dict),
         NEW user \in Users, dict[user] = NoValue, NEW color \in 0 .. Colors
  PROVE  LET set == Hash_set(table, user, color)
             new == [dict EXCEPT ![user] = color]
         IN  set \in ColorTable /\ new \in Dictionaries /\ IsDictionary(set, new)
<1> DEFINE set == Hash_set(table, user, color)
           new == [dict EXCEPT ![user] = color]
           row == Hash_indexFor(user)
           node == [key |-> user, value |-> color]
<1>1. PICK hash : hash = table.hash
  OBVIOUS
<1> DEFINE more == [hash EXCEPT ![row] = Append(@, node)]
<1>2. hash \in Chains /\ table.length \in Nat
  BY <1>1 DEF ColorTable, Chains, Node
<1>3. Stores(hash, dict) /\ table.length = Cardinality(Present(dict))
  BY <1>1, DictionaryIsStored
<1>4. Matches(hash[row], user) = {}
  BY <1>2, <1>3, MatchesFindsNode
<1>5. set = [hash |-> more, length |-> table.length + 1]
  BY <1>1, <1>4 DEF Hash_set
<1>6. /\ more \in Chains /\ new \in Dictionaries /\ Stores(more, new)
      /\ Cardinality(Present(new)) = Cardinality(Present(dict)) + 1
  BY <1>2, <1>3, StoreOneMore
<1> HIDE DEF set, more, new
<1>7. set.hash = more /\ set.length = Cardinality(Present(new))
  BY <1>3, <1>5, <1>6
<1>8. set \in ColorTable
  <2>1. table.length + 1 \in Nat
    BY <1>2
  <2> QED
    BY <1>5, <1>6, <2>1 DEF ColorTable, Chains, Node
<1>9. IsDictionary(set, new)
  BY <1>6, <1>7, <1>8, DictionaryIsStored
<1> QED
  BY <1>6, <1>8, <1>9 DEF set, new

\* Hash_delete gives the table of the dictionary without the key.
LEMMA DeletingKeepsDictionary ==
  ASSUME NEW table \in ColorTable, NEW dict \in Dictionaries, IsDictionary(table, dict),
         NEW user \in Users
  PROVE  LET left == Hash_delete(table, user)
             new  == [dict EXCEPT ![user] = NoValue]
         IN  left \in ColorTable /\ new \in Dictionaries /\ IsDictionary(left, new)
<1> DEFINE left == Hash_delete(table, user)
           new == [dict EXCEPT ![user] = NoValue]
           row == Hash_indexFor(user)
<1>1. PICK hash : hash = table.hash
  OBVIOUS
<1>2. hash \in Chains /\ table.length \in Nat
  BY <1>1 DEF ColorTable, Chains, Node
<1>3. Stores(hash, dict) /\ table.length = Cardinality(Present(dict))
  BY <1>1, DictionaryIsStored
<1>4. CASE dict[user] = NoValue
  <2>1. Matches(hash[row], user) = {}
    BY <1>2, <1>3, <1>4, MatchesFindsNode
  <2>2. left = table
    BY <1>1, <2>1 DEF Hash_delete
  <2>3. new = dict
    BY <1>4 DEF Dictionaries
  <2> QED
    BY <2>2, <2>3
<1>5. CASE dict[user] # NoValue
  <2>1. PICK at \in 1 .. Len(hash[row]) :
          /\ Matches(hash[row], user) = {at} /\ Min(Matches(hash[row], user)) = at
          /\ hash[row][at].key = user /\ hash[row][at].value = dict[user]
    <3>1. \E at \in 1 .. Len(hash[row]) :
            /\ Matches(hash[row], user) = {at} /\ Min(Matches(hash[row], user)) = at
            /\ hash[row][at].key = user /\ hash[row][at].value = dict[user]
      BY <1>2, <1>3, <1>5, MatchesFindsNode
    <3> QED
      BY <3>1
  <2> DEFINE less == [hash EXCEPT ![row] = RemoveAt(@, at)]
  <2>2. table.length > 0 /\ Matches(hash[row], user) # {}
    BY <1>3, <1>5, <2>1, PresentIsFinite
  <2>3. left = [hash |-> less, length |-> table.length - 1]
    BY <1>1, <2>1, <2>2 DEF Hash_delete
  <2>4. /\ less \in Chains /\ new \in Dictionaries /\ Stores(less, new)
        /\ Cardinality(Present(new)) = Cardinality(Present(dict)) - 1
    BY <1>2, <1>3, <1>5, <2>1, StoreOneLess
  <2> HIDE DEF less, new, left
  <2>5. left.hash = less /\ left.length = Cardinality(Present(new))
    BY <1>3, <2>3, <2>4
  <2>6. left \in ColorTable
    <3>1. table.length - 1 \in Nat
      BY <1>2, <2>2
    <3> QED
      BY <2>3, <2>4, <3>1 DEF ColorTable, Chains, Node
  <2>7. IsDictionary(left, new)
    BY <2>4, <2>5, <2>6, DictionaryIsStored
  <2> QED
    BY <2>4, <2>6, <2>7 DEF left, new
<1> QED
  BY <1>4, <1>5

\* The palettes whose dictionary is right.
SoundPalettes ==
  {p \in [users : ColorTable, next : -1 .. Colors, of : Dictionaries] :
     IsDictionary(p.users, p.of)}

\* GetUserColor keeps the dictionary right.
LEMMA ColoringKeepsPalette ==
  ASSUME NEW p \in SoundPalettes, NEW user \in Users, NEW random \in 0 .. (Colors - 1)
  PROVE  GetUserColor(p, user, random) \in SoundPalettes
<1> DEFINE next == IF p.next < 0 THEN random ELSE p.next
           after == IF next + 1 > Colors THEN -1 ELSE next + 1
<1>1. /\ p \in [users : ColorTable, next : -1 .. Colors, of : Dictionaries]
      /\ p.users \in ColorTable /\ p.next \in -1 .. Colors /\ p.of \in Dictionaries
      /\ IsDictionary(p.users, p.of)
  BY DEF SoundPalettes
<1>2. next \in 0 .. Colors /\ after \in -1 .. Colors /\ next \in -1 .. Colors
  BY <1>1, ColorsAssumption
<1>3. Hash_getValue(p.users, user) = p.of[user]
  BY <1>1 DEF IsDictionary, Dictionaries
<1>4. CASE p.of[user] # NoValue
  <2>1. GetUserColor(p, user, random) = [p EXCEPT !.next = next]
    BY <1>3, <1>4 DEF GetUserColor
  <2> HIDE DEF next
  <2> QED
    BY <1>1, <1>2, <2>1 DEF SoundPalettes
<1>5. CASE p.of[user] = NoValue
  <2> DEFINE set == Hash_set(p.users, user, next)
             new == [p.of EXCEPT ![user] = next]
  <2>1. [p.of EXCEPT ![user] = IF @ = NoValue THEN next ELSE @] = new
    BY <1>5
  <2>2. GetUserColor(p, user, random) = [users |-> set, next |-> after, of |-> new]
    <3>1. GetUserColor(p, user, random) =
            [users |-> set, next |-> after,
             of |-> [p.of EXCEPT ![user] = IF @ = NoValue THEN next ELSE @]]
      BY <1>3, <1>5 DEF GetUserColor
    <3> QED
      BY <2>1, <3>1
  <2> HIDE DEF next, after
  <2>3. set \in ColorTable /\ new \in Dictionaries /\ IsDictionary(set, new)
    BY <1>1, <1>2, <1>5, SettingKeepsDictionary
  <2> HIDE DEF set, new
  <2> QED
    BY <1>2, <2>2, <2>3 DEF SoundPalettes
<1> QED
  BY <1>4, <1>5

\* A departure keeps the dictionary right.
LEMMA ForgettingKeepsPalette ==
  ASSUME NEW p \in SoundPalettes, NEW entry \in Entry
  PROVE  Forget(p, entry) \in SoundPalettes
<1> DEFINE user == entry.content.user
<1>1. /\ p \in [users : ColorTable, next : -1 .. Colors, of : Dictionaries]
      /\ p.users \in ColorTable /\ p.next \in -1 .. Colors /\ p.of \in Dictionaries
      /\ IsDictionary(p.users, p.of)
  BY DEF SoundPalettes
<1>2. CASE entry.content.type # "left"
  BY <1>2 DEF Forget
<1>3. CASE entry.content.type = "left"
  <2> DEFINE new == [p.of EXCEPT ![user] = NoValue]
             left == Hash_delete(p.users, user)
  <2>1. user \in Users
    <3>1. entry.content \in Content
      BY DEF Entry
    <3> QED
      BY <1>3, <3>1, ContentAssumption
  <2>2. Forget(p, entry) = [p EXCEPT !.users = left, !.of = new]
    BY <1>1, <1>3 DEF Forget
  <2> HIDE DEF user
  <2>3. left \in ColorTable /\ new \in Dictionaries /\ IsDictionary(left, new)
    BY <1>1, <2>1, DeletingKeepsDictionary
  <2> HIDE DEF left, new
  <2> QED
    BY <1>1, <2>2, <2>3 DEF SoundPalettes
<1> QED
  BY <1>2, <1>3

\* Writing entries on the window keeps the dictionary right.
LEMMA PaintingKeepsPalette ==
  ASSUME NEW p \in SoundPalettes, NEW entries \in Seq(Entry), NEW random \in Randoms(entries)
  PROVE  Paint(p, entries, random) \in SoundPalettes
<1> DEFINE T == SoundPalettes
           N == Len(entries)
           Step(f) == [n \in 0 .. N |->
                         IF n = 0 THEN p ELSE PaintOne(f[n - 1], entries[n], random[n])]
           W == CHOOSE f : f = Step(f)
           F == [n \in 1 .. N |-> [q \in T |-> PaintOne(q, entries[n], random[n])]]
<1>1. N \in Nat
  OBVIOUS
<1>2. Paint(p, entries, random) = W[N]
  BY DEF Paint
<1>3. ASSUME NEW n \in 1 .. N, NEW q \in T
      PROVE  PaintOne(q, entries[n], random[n]) \in T
  <2>1. entries[n] \in Entry /\ random[n] \in 0 .. (Colors - 1)
    BY DEF Randoms
  <2>2. entries[n].content.type = "msg" => entries[n].content.user \in Users
    BY <2>1, ContentAssumption DEF Entry
  <2> QED
    BY <2>1, <2>2, ColoringKeepsPalette DEF PaintOne
<1> HIDE DEF T, N
<1>4. W = Step(W)
  <2>1. /\ F \in [1 .. N -> [T -> T]]
        /\ \A n \in 1 .. N : \A q \in T : F[n][q] = PaintOne(q, entries[n], random[n])
    BY <1>3
  <2> HIDE DEF F
  <2>2. p \in T
    BY DEF T
  <2>3. PICK f : IsLoop(f, T, N, F, p)
    BY <1>1, <2>1, <2>2, LoopExists, Zenon
  <2>4. f \in [0 .. N -> T] /\ f[0] = p /\ \A n \in 1 .. N : f[n] = F[n][f[n - 1]]
    BY <2>3 DEF IsLoop
  <2>5. ASSUME NEW n \in 0 .. N PROVE f[n] = Step(f)[n]
    <3>1. CASE n = 0
      BY <2>4, <3>1
    <3>2. CASE n # 0
      <4>1. n \in 1 .. N /\ n - 1 \in 0 .. N /\ f[n - 1] \in T
        BY <1>1, <2>4, <3>2
      <4>2. f[n] = F[n][f[n - 1]]
        BY <2>4, <4>1
      <4>3. F[n][f[n - 1]] = PaintOne(f[n - 1], entries[n], random[n])
        BY <2>1, <4>1
      <4> QED
        BY <3>2, <4>2, <4>3
    <3> QED
      BY <3>1, <3>2
  <2>6. f = Step(f)
    BY <2>4, <2>5
  <2> HIDE DEF Step
  <2> QED
    BY <2>6
<1> HIDE DEF W
<1>5. W[0] = p /\ \A n \in 1 .. N : W[n] = PaintOne(W[n - 1], entries[n], random[n])
  BY <1>1, <1>4
<1>6. \A n \in 1 .. N : W[n - 1] \in T => W[n] \in T
  BY <1>3, <1>5
<1>7. W[0] \in T
  BY <1>5 DEF T
<1>8. W[N] \in T
  BY <1>1, <1>6, <1>7, LoopInvariant
<1> QED
  BY <1>2, <1>8 DEF T

\* The parts of a palette.
LEMMA PaletteParts ==
  Palette \in SoundPalettes <=>
    /\ users \in ColorTable /\ nextColor \in -1 .. Colors /\ colorOf \in Dictionaries
    /\ IsDictionary(users, colorOf)
BY DEF Palette, SoundPalettes

\* What SetPalette leaves.
LEMMA PaletteIsSet ==
  ASSUME NEW p \in SoundPalettes, SetPalette(p)
  PROVE  Palette' \in SoundPalettes
<1>1. p \in [users : ColorTable, next : -1 .. Colors, of : Dictionaries]
  BY DEF SoundPalettes
<1>2. p = [users |-> p.users, next |-> p.next, of |-> p.of]
  BY <1>1
<1>3. Palette' = [users |-> p.users, next |-> p.next, of |-> p.of]
  BY DEF Palette, SetPalette
<1> QED
  BY <1>2, <1>3

\* A page of the log.
LEMMA PageOfLog ==
  ASSUME LogInvariant, NEW newMode \in {"live", "browse"}, NEW line \in Nat,
         NEW height \in Heights \cup {0}, height = 0 => lines = 0, chatlog # <<>>,
         line = 0 \/ line < Len(chatlog)
  PROVE  PageAt(newMode, line, height) \in Seq(Entry)
<1>1. chatlog \in Seq(Entry)
  BY DEF LogInvariant
<1>2. PageSize(height) \in Nat
  BY PageSizeType
<1>3. CASE newMode = "live"
  BY <1>1, <1>2, <1>3, LastOfIsTail DEF PageAt
<1>4. CASE newMode = "browse"
  <2>1. line < Len(chatlog)
    BY <1>1
  <2>2. height \in Heights
    BY DEF LogInvariant, NoWindowNoLog
  <2> QED
    BY <1>4, <2>1, <2>2, BrowsedPage
<1> QED
  BY <1>3, <1>4

\* UIChatWin_updateContent keeps the colours.
LEMMA UpdateKeepsColors ==
  ASSUME LogInvariant, NEW newMode \in {"live", "browse"}, NEW line \in Nat,
         NEW height \in Heights \cup {0}, height = 0 => lines = 0,
         line = 0 \/ line < Len(chatlog),
         Palette \in SoundPalettes, UpdateContent(newMode, line, height)
  PROVE  Palette' \in SoundPalettes
<1>1. CASE chatlog = <<>>
  BY <1>1 DEF UpdateContent, colorVars, Palette
<1>2. CASE chatlog # <<>>
  <2> DEFINE page == PageAt(newMode, line, height)
  <2>1. PICK random \in Randoms(page) : SetPalette(Paint(Palette, page, random))
    BY <1>2 DEF UpdateContent
  <2>2. page \in Seq(Entry)
    BY <1>2, PageOfLog
  <2> HIDE DEF page
  <2>3. Paint(Palette, page, random) \in SoundPalettes
    BY <2>1, <2>2, PaintingKeepsPalette
  <2> QED
    BY <2>1, <2>3, PaletteIsSet
<1> QED
  BY <1>1, <1>2

\* UIChatWin_logMessage keeps the colours.
LEMMA LoggingKeepsColors ==
  ASSUME LogInvariant, NEW content \in Content, LogMessage(content),
         Palette \in SoundPalettes
  PROVE  Palette' \in SoundPalettes
<1> DEFINE entry == [id |-> logged + 1, content |-> content]
           visible == IF mode = "live" THEN <<entry>> ELSE <<>>
<1>1. /\ logged < MaxLogged
      /\ \E random \in Randoms(visible) :
           SetPalette(Paint(Forget(Palette, entry), visible, random))
  BY DEF LogMessage
<1>2. PICK random \in Randoms(visible) :
        SetPalette(Paint(Forget(Palette, entry), visible, random))
  BY <1>1
<1>3. entry \in Entry
  <2>1. logged + 1 \in 1 .. MaxLogged
    BY <1>1, LoggedAssumption DEF LogInvariant
  <2> QED
    BY <2>1 DEF Entry
<1> HIDE DEF entry
<1>4. visible \in Seq(Entry)
  BY <1>3
<1> HIDE DEF visible
<1>5. Forget(Palette, entry) \in SoundPalettes
  BY <1>3, ForgettingKeepsPalette
<1>6. Paint(Forget(Palette, entry), visible, random) \in SoundPalettes
  BY <1>2, <1>4, <1>5, PaintingKeepsPalette
<1> QED
  BY <1>2, <1>6, PaletteIsSet

\* UIChatWin_destroy leaves no node behind.
LEMMA PurgeLeavesNothing ==
  ASSUME NEW table \in ColorTable, NEW dict \in Dictionaries, IsDictionary(table, dict)
  PROVE  /\ Hash_purge(table) \in ColorTable
         /\ \A row \in Rows : Hash_purge(table).hash[row] = <<>>
<1>1. PICK hash : hash = table.hash
  OBVIOUS
<1>2. hash \in Chains /\ table.length \in Nat /\ table = [hash |-> hash, length |-> table.length]
  BY <1>1 DEF ColorTable, Chains, Node
<1>3. CASE table.length = 0
  <2>1. Stores(hash, dict) /\ Cardinality(Present(dict)) = 0
    BY <1>1, <1>3, DictionaryIsStored
  <2>2. \A key \in Users : dict[key] = NoValue
    BY <2>1, PresentIsFinite
  <2>3. ASSUME NEW row \in Rows PROVE hash[row] = <<>>
    <3>1. hash[row] \in Seq(Node) /\ Len(hash[row]) \in Nat
      BY <1>2, ChainTypes
    <3>2. ASSUME Len(hash[row]) # 0 PROVE FALSE
      <4>1. 1 \in 1 .. Len(hash[row])
        BY <3>1, <3>2
      <4>2. hash[row][1].key \in Users /\ hash[row][1].value # NoValue
        BY <1>2, <4>1, ChainTypes
      <4>3. dict[hash[row][1].key] = hash[row][1].value
        BY <2>1, <4>1 DEF Stores
      <4> QED
        BY <2>2, <4>2, <4>3
    <3> QED
      BY <3>1, <3>2, EmptySeq
  <2> QED
    BY <1>1, <1>3, <2>3 DEF Hash_purge
<1>4. CASE table.length # 0
  <2> DEFINE none == [i \in Rows |-> <<>>]
  <2>1. Hash_purge(table) = [hash |-> none, length |-> table.length]
    BY <1>2, <1>4 DEF Hash_purge
  <2>2. none \in Chains /\ \A row \in Rows : none[row] = <<>>
    BY DEF Chains
  <2> HIDE DEF none
  <2> QED
    BY <1>2, <2>1, <2>2 DEF ColorTable, Chains, Node
<1> QED
  BY <1>3, <1>4

\* The types and the colours: every step keeps them.
LEMMA StepsKeepColors ==
  ASSUME WindowInvariant, WindowInvariant', TypeOK, ColorsAreKept, [Next]_vars
  PROVE  TypeOK' /\ ColorsAreKept'
<1>0. /\ LogInvariant /\ currentLine \in Nat /\ lines \in Heights \cup {0}
      /\ currentLine = 0 \/ currentLine < Len(chatlog)
      /\ currentLine' \in Nat /\ lines' \in Heights \cup {0}
      /\ currentLine' = 0 \/ currentLine' < Len(chatlog')
      /\ mode \in {"live", "browse"}
  BY DEF WindowInvariant, LogInvariant, LineIsInLog, PageIsDrawn
<1>1. /\ chatlog' \in Seq(Entry) /\ mode' \in {"live", "browse"}
      /\ window' \in Seq(Entry) /\ logged' \in 0 .. MaxLogged /\ drawnAt' \in Nat
  BY DEF WindowInvariant, LogInvariant, PageIsDrawn
<1>10. cols' \in Widths
  <2>1. cols \in Widths
    BY DEF TypeOK
  <2>2. ASSUME NEW content \in Content, LogMessage(content) PROVE cols' = cols
    BY <2>2 DEF LogMessage, displayVars
  <2>3. CASE KeyBrowse \/ KeyLive \/ PreviousPage \/ NextPage
    BY <2>1, <2>3 DEF KeyBrowse, KeyLive, SetMode, PreviousPage, NextPage
  <2>4. ASSUME NEW height \in Heights, RenderChat(height) PROVE cols' \in Widths
    BY <2>4 DEF RenderChat
  <2>5. CASE Destroy \/ UNCHANGED vars
    BY <2>1, <2>5 DEF Destroy, vars, displayVars
  <2> QED
    BY <2>1, <2>2, <2>3, <2>4, <2>5 DEF Next, Running
<1>2. ASSUME ~destroyed, destroyed' = destroyed, Palette' \in SoundPalettes
      PROVE  TypeOK' /\ ColorsAreKept'
  <2>1. /\ users' \in ColorTable /\ nextColor' \in -1 .. Colors /\ colorOf' \in Dictionaries
        /\ IsDictionary(users', colorOf')
    <3>1. Palette' = [users |-> users', next |-> nextColor', of |-> colorOf']
      BY DEF Palette
    <3> QED
      BY <1>2, <3>1 DEF SoundPalettes
  <2>2. destroyed' \in BOOLEAN /\ ~destroyed'
    BY <1>2 DEF TypeOK
  <2>3. TypeOK'
    BY <1>0, <1>1, <1>10, <2>1, <2>2 DEF TypeOK, Dictionaries
  <2>4. ColorsAreKept'
    BY <2>1, <2>2 DEF ColorsAreKept
  <2> QED
    BY <2>3, <2>4
<1>3. ASSUME ~destroyed PROVE Palette \in SoundPalettes
  BY <1>3, PaletteParts DEF TypeOK, ColorsAreKept, Dictionaries
<1>4. CASE ~destroyed /\ Running /\ UNCHANGED destroyed
  <2> SUFFICES Palette' \in SoundPalettes
    BY <1>2, <1>4
  <2>0. Palette \in SoundPalettes
    BY <1>3, <1>4
  <2>1. ASSUME NEW content \in Content, LogMessage(content)
        PROVE  Palette' \in SoundPalettes
    BY <1>0, <2>0, <2>1, LoggingKeepsColors
  <2>2. ASSUME NEW newMode \in {"live", "browse"}, SetMode(newMode)
        PROVE  Palette' \in SoundPalettes
    <3>1. chatlog' = chatlog /\ UpdateContent(newMode, currentLine', lines)
      BY <2>2 DEF SetMode
    <3> QED
      BY <1>0, <2>0, <3>1, UpdateKeepsColors
  <2>3. CASE PreviousPage \/ NextPage
    <3>1. chatlog' = chatlog /\ UpdateContent(mode, currentLine', lines)
      BY <2>3 DEF PreviousPage, NextPage
    <3> QED
      BY <1>0, <2>0, <3>1, UpdateKeepsColors
  <2>4. ASSUME NEW height \in Heights, RenderChat(height)
        PROVE  Palette' \in SoundPalettes
    <3>1. UpdateContent(mode, currentLine, height) /\ height # 0
      BY <2>4, HeightsAssumption DEF RenderChat
    <3> QED
      BY <1>0, <2>0, <3>1, UpdateKeepsColors
  <2>5. CASE KeyBrowse \/ KeyLive
    BY <2>2, <2>5 DEF KeyBrowse, KeyLive
  <2> QED
    BY <1>4, <2>1, <2>3, <2>4, <2>5 DEF Running
<1>5. CASE ~destroyed /\ Destroy
  <2>1. /\ users \in ColorTable /\ colorOf \in Dictionaries /\ IsDictionary(users, colorOf)
    BY <1>5 DEF TypeOK, ColorsAreKept, Dictionaries
  <2>2. /\ users' = Hash_purge(users) /\ destroyed' = TRUE
        /\ nextColor' = nextColor /\ colorOf' = colorOf
    BY <1>5 DEF Destroy
  <2>3. users' \in ColorTable /\ \A row \in Rows : users'.hash[row] = <<>>
    BY <2>1, <2>2, PurgeLeavesNothing
  <2>4. nextColor' \in -1 .. Colors /\ colorOf' \in [Users -> 0 .. Colors \cup {NoValue}]
    BY <2>2 DEF TypeOK
  <2>5. destroyed' \in BOOLEAN
    BY <2>2
  <2>6. TypeOK'
    BY <1>0, <1>1, <1>10, <2>3, <2>4, <2>5 DEF TypeOK
  <2>7. ColorsAreKept'
    BY <2>2, <2>3 DEF ColorsAreKept
  <2> QED
    BY <2>6, <2>7
<1>6. CASE UNCHANGED vars
  <2>1. UNCHANGED <<users, nextColor, colorOf, destroyed>>
    BY <1>6 DEF vars, colorVars
  <2>2. TypeOK'
    BY <1>0, <1>1, <1>10, <2>1 DEF TypeOK
  <2>3. ColorsAreKept'
    BY <2>1 DEF ColorsAreKept
  <2> QED
    BY <2>2, <2>3
<1> QED
  BY <1>4, <1>5, <1>6 DEF Next

\* Before anything is logged.
LEMMA ColorsAtStart == Init => TypeOK /\ ColorsAreKept
<1> SUFFICES ASSUME Init PROVE TypeOK /\ ColorsAreKept
  OBVIOUS
<1> DEFINE none == [i \in Rows |-> <<>>]
<1>1. /\ chatlog = <<>> /\ mode = "live" /\ currentLine = 0 /\ lines \in Heights \cup {0}
      /\ users = [hash |-> none, length |-> 0] /\ nextColor = -1 /\ window = <<>>
      /\ logged = 0 /\ colorOf = [u \in Users |-> NoValue] /\ drawnAt = 0
      /\ destroyed = FALSE /\ cols \in Widths
  BY DEF Init, Hash_new
<1>2. none \in Chains /\ \A row \in Rows : none[row] = <<>> /\ Len(none[row]) = 0
  BY DEF Chains
<1>3. colorOf \in Dictionaries /\ \A key \in Users : colorOf[key] = NoValue
  BY <1>1 DEF Dictionaries
<1> HIDE DEF none
<1>4. users \in ColorTable /\ users.hash = none /\ users.length = 0
  BY <1>1, <1>2 DEF ColorTable, Chains, Node
<1>5. Stores(none, colorOf)
  BY <1>2, <1>3 DEF Stores
<1>6. Cardinality(Present(colorOf)) = 0
  <2>1. Present(colorOf) = {}
    BY <1>3 DEF Present, Dictionaries
  <2> QED
    BY <2>1, FS_EmptySet
<1>7. IsDictionary(users, colorOf)
  BY <1>3, <1>4, <1>5, <1>6, DictionaryIsStored
<1>8. TypeOK
  <2>1. <<>> \in Seq(Entry)
    OBVIOUS
  <2>2. 0 \in 0 .. MaxLogged /\ 0 \in Nat /\ -1 \in -1 .. Colors
    BY LoggedAssumption, ColorsAssumption
  <2> QED
    BY <1>1, <1>3, <1>4, <2>1, <2>2 DEF TypeOK, Dictionaries
<1>9. ColorsAreKept
  BY <1>1, <1>7 DEF ColorsAreKept
<1> QED
  BY <1>8, <1>9

\* The types of the window, for every limit, size and number of colours.
THEOREM WindowTypesHold == Spec => []TypeOK
<1>1. TypeOK /\ ColorsAreKept /\ WindowInvariant /\ WindowInvariant' /\ [Next]_vars
        => TypeOK' /\ ColorsAreKept'
  BY StepsKeepColors
<1> QED
  BY <1>1, ColorsAtStart, WindowInvariantHolds, PTL DEF Spec

\* A user keeps the colour until the departure and the dictionary of colours is
\* exact, whatever nicknames there are, however their keys collide and however
\* many chains the table has; and UIChatWin_destroy frees every node.
THEOREM UsersKeepColors == Spec => []ColorsAreKept
<1>1. TypeOK /\ ColorsAreKept /\ WindowInvariant /\ WindowInvariant' /\ [Next]_vars
        => TypeOK' /\ ColorsAreKept'
  BY StepsKeepColors
<1> QED
  BY <1>1, ColorsAtStart, WindowInvariantHolds, PTL DEF Spec
=============================================================================
