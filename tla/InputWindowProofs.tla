-------------------------- MODULE InputWindowProofs --------------------------
(* Theorems about InputWindow for windows of any size. *)
EXTENDS InputWindow, SequenceTheorems, TLAPS

-----------------------------------------------------------------------------
(* Arithmetic, and sequences in the cells of a window. *)

\* The smaller of two numbers.
LEMMA MinOfTwo ==
  ASSUME NEW a \in Int, NEW b \in Int
  PROVE  Min({a, b}) = IF a <= b THEN a ELSE b
<1>1. \E m \in {a, b} : \A n \in {a, b} : m <= n
  OBVIOUS
<1>2. Min({a, b}) \in {a, b} /\ \A n \in {a, b} : Min({a, b}) <= n
  BY <1>1, Zenon DEF Min
<1> QED
  BY <1>2

\* The larger of two numbers.
LEMMA MaxOfTwo ==
  ASSUME NEW a \in Int, NEW b \in Int
  PROVE  Max({a, b}) = IF a >= b THEN a ELSE b
<1>1. \E m \in {a, b} : \A n \in {a, b} : m >= n
  OBVIOUS
<1>2. Max({a, b}) \in {a, b} /\ \A n \in {a, b} : Max({a, b}) >= n
  BY <1>1, Zenon DEF Max
<1> QED
  BY <1>2

\* The ends of an interval that is not empty.
LEMMA EndsOfInterval ==
  ASSUME NEW a \in Int, NEW b \in Int, a <= b
  PROVE  Min(a .. b) = a /\ Max(a .. b) = b
<1>1. \E m \in a .. b : \A n \in a .. b : m <= n
  <2>1. a \in a .. b /\ \A n \in a .. b : a <= n
    OBVIOUS
  <2> QED
    BY <2>1
<1>2. \E m \in a .. b : \A n \in a .. b : m >= n
  <2>1. b \in a .. b /\ \A n \in a .. b : b >= n
    OBVIOUS
  <2> QED
    BY <2>1
<1>3. Min(a .. b) \in a .. b /\ \A n \in a .. b : Min(a .. b) <= n
  BY <1>1, Zenon DEF Min
<1>4. Max(a .. b) \in a .. b /\ \A n \in a .. b : Max(a .. b) >= n
  BY <1>2, Zenon DEF Max
<1>5. a \in a .. b /\ b \in a .. b
  OBVIOUS
<1> QED
  BY <1>3, <1>4, <1>5

\* Where a cell is, counted row by row.
LEMMA PlaceOfCell ==
  ASSUME NEW h \in Nat, NEW w \in Nat \ {0}, NEW r \in Int, NEW c \in 0 .. (w - 1)
  PROVE  /\ h * w \in Nat /\ r * w \in Int
         /\ (r + 1) * w = r * w + w /\ (r - 1) * w = r * w - w
         /\ r >= 0 => r * w >= 0
         /\ r > 0 => r * w >= w
         /\ r \in 0 .. (h - 1) => r * w + c < h * w /\ (r + 1) * w <= h * w
         /\ r = h - 1 => r * w + w = h * w
         /\ 0 * w = 0
<1>1. h * w \in Nat /\ r * w \in Int /\ 0 * w = 0
  OBVIOUS
<1>2. (r + 1) * w = r * w + w /\ (r - 1) * w = r * w - w
  OBVIOUS
<1>3. ASSUME NEW a \in Int, NEW b \in Int, a <= b PROVE a * w <= b * w
  <2>1. (b - a) * w >= 0
    BY <1>3
  <2>2. (b - a) * w = b * w - a * w
    OBVIOUS
  <2>3. a * w \in Int /\ b * w \in Int
    OBVIOUS
  <2> QED
    BY <2>1, <2>2, <2>3
<1>4. r >= 0 => r * w >= 0
  BY <1>1, <1>3
<1>5. r > 0 => r * w >= w
  <2>1. 1 * w = w
    OBVIOUS
  <2> QED
    BY <1>3, <2>1
<1>6. ASSUME r \in 0 .. (h - 1) PROVE r * w + c < h * w /\ (r + 1) * w <= h * w
  <2>1. r + 1 <= h /\ r + 1 \in Int
    BY <1>6
  <2>2. (r + 1) * w <= h * w
    BY <1>3, <2>1
  <2> QED
    BY <1>1, <1>2, <2>2
<1>7. r = h - 1 => r * w + w = h * w
  BY <1>2
<1> QED
  BY <1>1, <1>2, <1>4, <1>5, <1>6, <1>7

\* The first n cells are a text of n characters.
LEMMA TextInCells ==
  ASSUME NEW S, NEW s, NEW n \in Nat, \A i \in 1 .. n : s[i] \in S,
         NEW t \in Seq(S), Len(t) = n
  PROVE  SubSeq(s, 1, n) = t <=> \A i \in 1 .. n : s[i] = t[i]
<1>1. /\ SubSeq(s, 1, n) \in Seq(S)
      /\ Len(SubSeq(s, 1, n)) = n
      /\ \A i \in 1 .. n : SubSeq(s, 1, n)[i] = s[i]
  BY SubSeqProperties
<1>2. (\A i \in 1 .. n : s[i] = t[i]) => SubSeq(s, 1, n) = t
  BY <1>1, SeqEqual
<1> QED
  BY <1>1, <1>2

-----------------------------------------------------------------------------
(* What the invariant says of a state, in numbers. *)

\* Of a size, with or without a window.
LEMMA SizeFacts ==
  ASSUME NEW s \in Sizes \cup {NoWindow}
  PROVE  /\ s.lines \in Nat /\ s.cols \in Nat /\ Count(s) \in Nat
         /\ Count(s) = s.lines * s.cols
         /\ s # NoWindow => s.lines \in Nat \ {0} /\ s.cols \in Nat \ {0}
         /\ Limit(s) \in 0 .. (Length - 1)
         /\ s = NoWindow => s.lines = 0 /\ s.cols = 0 /\ Count(s) = 0 /\ Limit(s) = 0
         /\ Empty(s) \in [1 .. Count(s) -> Chars \cup {Blank}]
         /\ 0 \in 0 .. Max({0, s.lines - 1}) /\ 0 \in 0 .. Max({0, s.cols - 1})
<1>1. /\ s.lines \in Nat /\ s.cols \in Nat
      /\ s # NoWindow => s.lines \in Nat \ {0} /\ s.cols \in Nat \ {0}
      /\ s = NoWindow => s.lines = 0 /\ s.cols = 0
  BY SizesAssumption DEF NoWindow
<1>2. Count(s) = s.lines * s.cols /\ Count(s) \in Nat
  BY <1>1 DEF Count
<1>3. s = NoWindow => Count(s) = 0
  BY <1>1, <1>2
<1>4. Limit(s) = IF Length - 1 <= Count(s) THEN Length - 1 ELSE Count(s)
  BY <1>2, MinOfTwo, LengthAssumption DEF Limit
<1>5. Limit(s) \in 0 .. (Length - 1) /\ (s = NoWindow => Limit(s) = 0)
  BY <1>2, <1>3, <1>4, LengthAssumption
<1>6. Empty(s) \in [1 .. Count(s) -> Chars \cup {Blank}]
  BY DEF Empty
<1>7. 0 \in 0 .. Max({0, s.lines - 1}) /\ 0 \in 0 .. Max({0, s.cols - 1})
  BY <1>1, MaxOfTwo
<1> QED
  BY <1>1, <1>2, <1>3, <1>5, <1>6, <1>7

\* Of the place of the cursor.
LEMMA PlaceFacts ==
  ASSUME InputInvariant
  PROVE  /\ y \in Nat /\ x \in Nat /\ Index \in Nat /\ cursor \in Nat
         /\ Index = y * size.cols + x
         /\ size # NoWindow =>
              y \in 0 .. (size.lines - 1) /\ x \in 0 .. (size.cols - 1)
         /\ size = NoWindow => y = 0 /\ x = 0 /\ Index = 0
<1>1. /\ size \in Sizes \cup {NoWindow} /\ cursor \in Int
      /\ y \in 0 .. Max({0, size.lines - 1}) /\ x \in 0 .. Max({0, size.cols - 1})
  BY DEF InputInvariant, TypeOK
<1>2. size.lines \in Nat /\ size.cols \in Nat
  BY <1>1, SizeFacts
<1>3. /\ Max({0, size.lines - 1}) = IF size.lines = 0 THEN 0 ELSE size.lines - 1
      /\ Max({0, size.cols - 1}) = IF size.cols = 0 THEN 0 ELSE size.cols - 1
  BY <1>2, MaxOfTwo
<1>4. y \in Nat /\ x \in Nat
  BY <1>1, <1>2, <1>3
<1>5. Index = y * size.cols + x /\ y * size.cols \in Nat
  BY <1>2, <1>4 DEF Index
<1>6. Index \in Nat
  BY <1>4, <1>5
<1>7. cursor \in Nat
  BY <1>1, <1>6 DEF InputInvariant, IndexFollowsCursor
<1>8. size # NoWindow => y \in 0 .. (size.lines - 1) /\ x \in 0 .. (size.cols - 1)
  BY <1>1, <1>3, SizeFacts
<1>9. size = NoWindow => y = 0 /\ x = 0 /\ Index = 0
  <2>1. size = NoWindow => size.lines = 0 /\ size.cols = 0
    BY <1>1, SizeFacts
  <2>2. size = NoWindow => y = 0 /\ x = 0
    BY <1>1, <1>3, <2>1
  <2> QED
    BY <1>5, <2>1, <2>2
<1> QED
  BY <1>4, <1>5, <1>6, <1>7, <1>8, <1>9

\* A new place for the cursor of the window is one that ncurses allows.
LEMMA NewPlace ==
  ASSUME InputInvariant, size' = size, size # NoWindow,
         y' \in 0 .. (size.lines - 1), x' \in 0 .. (size.cols - 1)
  PROVE  /\ (y \in 0 .. Max({0, size.lines - 1}) /\ x \in 0 .. Max({0, size.cols - 1}))'
         /\ Index' = y' * size.cols + x'
<1>1. size.lines \in Nat \ {0} /\ size.cols \in Nat \ {0}
  BY SizeFacts DEF InputInvariant, TypeOK
<1>2. /\ Max({0, size.lines - 1}) = size.lines - 1
      /\ Max({0, size.cols - 1}) = size.cols - 1
  BY <1>1, MaxOfTwo
<1> QED
  BY <1>2 DEF Index

\* A window whose cursor has not moved.
LEMMA SamePlace ==
  ASSUME TypeOK, size' = size, y' = y, x' = x
  PROVE  /\ (y \in 0 .. Max({0, size.lines - 1}) /\ x \in 0 .. Max({0, size.cols - 1}))'
         /\ Index' = Index
BY DEF TypeOK, Index

-----------------------------------------------------------------------------
(* Each key keeps the invariant. *)

\* Without a window, the keys that edit and move do nothing.
LEMMA NothingWithoutWindow ==
  ASSUME InputInvariant, size = NoWindow
  PROVE  /\ ~HasSpace /\ ~KeyBackspace /\ ~KeyLeft /\ ~KeyRight /\ ~KeyUp /\ ~KeyDown
<1>1. /\ y = 0 /\ x = 0 /\ cursor \in Nat /\ eob = 0
      /\ size.lines = 0 /\ size.cols = 0
  BY PlaceFacts, SizeFacts DEF InputInvariant, TypeOK, NoWindowNoRoom
<1>2. ~HasSpace
  BY <1>1 DEF HasSpace
<1>3. ~KeyBackspace
  BY <1>1 DEF KeyBackspace, Inside
<1>4. ~KeyLeft /\ ~KeyRight /\ ~KeyUp /\ ~KeyDown
  BY <1>1 DEF KeyLeft, KeyRight, KeyUp, KeyDown, Inside
<1> QED
  BY <1>2, <1>3, <1>4

\* An index that has been left behind is one that no key of editing uses.
LEMMA KeysHaveIndex ==
  ASSUME InputInvariant,
         \/ HasSpace /\ cursor <= eom
         \/ KeyBackspace \/ KeyLeft \/ KeyRight \/ KeyUp \/ KeyDown
  PROVE  size # NoWindow /\ cursor = Index
<1>1. size # NoWindow
  BY NothingWithoutWindow
<1>2. ASSUME cursor # Index PROVE FALSE
  <2>1. cursor > 0 /\ eom = 0 /\ Index = 0
    BY <1>2 DEF InputInvariant, IndexFollowsCursor
  <2>2. /\ y \in Nat /\ x \in Nat /\ Index = y * size.cols + x
        /\ size.cols \in Nat \ {0}
    BY <1>1, PlaceFacts, SizeFacts DEF InputInvariant, TypeOK
  <2>3. y > 0 => y * size.cols >= size.cols
    BY <2>2, PlaceOfCell
  <2>4. y * size.cols \in Nat
    BY <2>2
  <2>5. y = 0 /\ x = 0
    BY <2>1, <2>2, <2>3, <2>4
  <2>6. ~KeyBackspace
    BY <2>5 DEF KeyBackspace, Inside
  <2>7. ~KeyLeft /\ ~KeyUp
    BY <2>5 DEF KeyLeft, KeyUp
  <2>8. ~KeyRight /\ ~KeyDown
    BY <2>1, <2>2, <2>5 DEF KeyRight, KeyDown
  <2>9. ~(cursor <= eom)
    BY <2>1, PlaceFacts
  <2> QED
    BY <2>6, <2>7, <2>8, <2>9
<1> QED
  BY <1>1, <1>2

\* The numbers of a window with its cursor in it.
LEMMA WindowFacts ==
  ASSUME InputInvariant, size # NoWindow
  PROVE  /\ size.lines \in Nat \ {0} /\ size.cols \in Nat \ {0}
         /\ y \in 0 .. (size.lines - 1) /\ x \in 0 .. (size.cols - 1)
         /\ Index = y * size.cols + x /\ Index \in Nat
         /\ Count(size) \in Nat /\ Index < Count(size)
         /\ y * size.cols \in Nat
         /\ (y + 1) * size.cols = y * size.cols + size.cols
         /\ (y - 1) * size.cols = y * size.cols - size.cols
         /\ (y + 1) * size.cols <= Count(size)
         /\ y > 0 => y * size.cols >= size.cols
         /\ y = size.lines - 1 => y * size.cols + size.cols = Count(size)
<1>1. /\ size.lines \in Nat \ {0} /\ size.cols \in Nat \ {0}
      /\ Count(size) \in Nat /\ Count(size) = size.lines * size.cols
  BY SizeFacts DEF InputInvariant, TypeOK
<1>2. /\ y \in 0 .. (size.lines - 1) /\ x \in 0 .. (size.cols - 1)
      /\ Index = y * size.cols + x /\ Index \in Nat
  BY PlaceFacts
<1>3. /\ y * size.cols \in Int
      /\ (y + 1) * size.cols = y * size.cols + size.cols
      /\ (y - 1) * size.cols = y * size.cols - size.cols
      /\ y >= 0 => y * size.cols >= 0
      /\ y > 0 => y * size.cols >= size.cols
      /\ y * size.cols + x < size.lines * size.cols
      /\ (y + 1) * size.cols <= size.lines * size.cols
      /\ y = size.lines - 1 => y * size.cols + size.cols = size.lines * size.cols
  <2>1. size.lines \in Nat /\ y \in Int
    BY <1>1, <1>2
  <2> QED
    BY <1>1, <1>2, <2>1, PlaceOfCell
<1>4. y * size.cols \in Nat
  BY <1>2, <1>3
<1> QED
  BY <1>1, <1>2, <1>3, <1>4

\* A key that moves the cursor to another cell of the window, with the index,
\* and edits nothing, keeps the invariant if it stays in the text.
LEMMA MoveKeepsInput ==
  ASSUME InputInvariant, Moved, size # NoWindow,
         y' \in 0 .. (size.lines - 1), x' \in 0 .. (size.cols - 1),
         cursor' \in Int, cursor' = y' * size.cols + x',
         down' \in BOOLEAN, ~down' => cursor' \in 0 .. eom
  PROVE  InputInvariant'
<1>1. size' = size /\ cells' = cells /\ eom' = eom /\ eob' = eob
  BY DEF Moved
<1>2. plain' = FALSE /\ text' = <<>>
  BY DEF Moved, Edited
<1>3. /\ (y \in 0 .. Max({0, size.lines - 1}) /\ x \in 0 .. Max({0, size.cols - 1}))'
      /\ Index' = y' * size.cols + x'
  BY <1>1, NewPlace
<1>4. TypeOK'
  <2>1. text' \in Seq(Chars)
    BY <1>2
  <2>2. plain' \in BOOLEAN
    BY <1>2
  <2>3. /\ size' \in Sizes \cup {NoWindow} /\ eom' \in Int /\ eob' \in 0 .. (Length - 1)
        /\ cells' \in [1 .. Count(size') -> Chars \cup {Blank}]
    BY <1>1 DEF InputInvariant, TypeOK
  <2> QED
    BY <1>3, <2>1, <2>3, <2>2 DEF TypeOK
<1>5. NoWindowNoRoom'
  BY <1>1 DEF InputInvariant, NoWindowNoRoom
<1>6. IndexFollowsCursor'
  BY <1>3 DEF IndexFollowsCursor
<1>7. CursorStaysInText'
  BY <1>1 DEF CursorStaysInText
<1>8. PlainTypingIsExact'
  BY <1>2 DEF PlainTypingIsExact
<1> QED
  BY <1>4, <1>5, <1>6, <1>7, <1>8 DEF InputInvariant

\* The keys that move the cursor.
LEMMA MovesKeepInput ==
  ASSUME InputInvariant, KeyLeft \/ KeyRight \/ KeyUp \/ KeyDown
  PROVE  InputInvariant'
<1>1. size # NoWindow /\ cursor = Index
  BY KeysHaveIndex
<1> DEFINE w == size.cols
           r == y * w
<1>2. /\ size.lines \in Nat \ {0} /\ w \in Nat \ {0}
      /\ y \in 0 .. (size.lines - 1) /\ x \in 0 .. (w - 1)
      /\ cursor = r + x /\ cursor \in Nat /\ r \in Nat
      /\ (y + 1) * w = r + w /\ (y - 1) * w = r - w
      /\ y > 0 => r >= w
  BY <1>1, WindowFacts
<1>3. eom \in Int /\ down \in BOOLEAN /\ (~down => cursor \in 0 .. eom)
  BY DEF InputInvariant, TypeOK, CursorStaysInText
<1>4. CASE KeyLeft
  <2>1. Moved /\ down' = down /\ cursor' = IF cursor > 0 THEN cursor - 1 ELSE cursor
    BY <1>4 DEF KeyLeft
  <2>2. CASE y > 0 /\ x = 0 /\ MoveTo(y - 1, w - 1)
    <3>1. y' = y - 1 /\ x' = w - 1
      BY <2>2 DEF MoveTo
    <3>2. y' * w = r - w
      BY <1>2, <3>1
    <3> HIDE DEF w, r
    <3>3. cursor' = (r - w) + x' /\ cursor' \in Int /\ (~down' => cursor' \in 0 .. eom)
      BY <1>2, <1>3, <2>1, <2>2, <3>1
    <3>4. y' \in 0 .. (size.lines - 1) /\ x' \in 0 .. (w - 1)
      BY <1>2, <2>2, <3>1
    <3> QED
      BY <1>1, <1>3, <2>1, <3>2, <3>3, <3>4, MoveKeepsInput DEF w
  <2>3. CASE x > 0 /\ MoveTo(y, x - 1)
    <3>1. y' = y /\ x' = x - 1
      BY <2>3 DEF MoveTo
    <3>2. y' * w = r
      BY <3>1
    <3> HIDE DEF w, r
    <3>3. cursor' = r + x' /\ cursor' \in Int /\ (~down' => cursor' \in 0 .. eom)
      BY <1>2, <1>3, <2>1, <2>3, <3>1
    <3>4. y' \in 0 .. (size.lines - 1) /\ x' \in 0 .. (w - 1)
      BY <1>2, <2>3, <3>1
    <3> QED
      BY <1>1, <1>3, <2>1, <3>2, <3>3, <3>4, MoveKeepsInput DEF w
  <2> QED
    BY <1>4, <2>2, <2>3 DEF KeyLeft
<1>5. CASE KeyRight
  <2>1. /\ Moved /\ down' = down /\ cursor' = Min({cursor + 1, eom})
        /\ eom > Index /\ Inside(y, x + 1) /\ y' = y /\ x' = x + 1
    BY <1>5 DEF KeyRight, MoveTo
  <2>2. cursor' = cursor + 1
    BY <1>1, <1>2, <1>3, <2>1, MinOfTwo
  <2>3. y' * w = r
    BY <2>1
  <2>4. y' \in 0 .. (size.lines - 1) /\ x' \in 0 .. (w - 1)
    BY <2>1 DEF Inside
  <2> HIDE DEF w, r
  <2>5. cursor' = r + x' /\ cursor' \in Int /\ (~down' => cursor' \in 0 .. eom)
    BY <1>1, <1>2, <1>3, <2>1, <2>2
  <2> QED
    BY <1>1, <1>3, <2>1, <2>3, <2>4, <2>5, MoveKeepsInput DEF w
<1>6. CASE KeyUp
  <2>1. Moved /\ down' = down /\ cursor' = cursor - w /\ y > 0 /\ y' = y - 1 /\ x' = x
    BY <1>6 DEF KeyUp, MoveTo
  <2>2. y' * w = r - w
    BY <1>2, <2>1
  <2> HIDE DEF w, r
  <2>3. cursor' = (r - w) + x' /\ cursor' \in Int /\ (~down' => cursor' \in 0 .. eom)
    BY <1>2, <1>3, <2>1
  <2>4. y' \in 0 .. (size.lines - 1) /\ x' \in 0 .. (w - 1)
    BY <1>2, <2>1
  <2> QED
    BY <1>1, <1>3, <2>1, <2>2, <2>3, <2>4, MoveKeepsInput DEF w
<1>7. CASE KeyDown
  <2>1. /\ Moved /\ down' = TRUE /\ cursor' = cursor + w /\ y < size.lines - 1
        /\ y' = y + 1 /\ x' = x
    BY <1>7 DEF KeyDown, MoveTo
  <2>2. y' * w = r + w
    BY <1>2, <2>1
  <2> HIDE DEF w, r
  <2>3. cursor' = (r + w) + x' /\ cursor' \in Int
    BY <1>2, <2>1
  <2>4. y' \in 0 .. (size.lines - 1) /\ x' \in 0 .. (w - 1)
    BY <1>2, <2>1
  <2> QED
    BY <1>1, <2>1, <2>2, <2>3, <2>4, MoveKeepsInput DEF w
<1> QED
  BY <1>4, <1>5, <1>6, <1>7

\* The characters of a plain message, cell by cell.
LEMMA PlainText ==
  ASSUME InputInvariant, plain = TRUE
  PROVE  /\ eom \in Nat /\ cursor = eom /\ Len(text) = eom /\ eom <= eob
         /\ size # NoWindow => eom < Count(size)
         /\ text \in Seq(Chars)
         /\ \A i \in 1 .. eom : cells[i] = text[i]
<1>1. /\ eom = Len(text) /\ cursor = eom /\ eom <= eob
      /\ SubSeq(cells, 1, eom) = text
  BY DEF InputInvariant, PlainTypingIsExact
<1>2. text \in Seq(Chars) /\ cells \in [1 .. Count(size) -> Chars \cup {Blank}]
  BY DEF InputInvariant, TypeOK
<1>3. eom \in Nat
  BY <1>1, <1>2
<1>4. eom # 0 => cursor = Index
  BY <1>1 DEF InputInvariant, IndexFollowsCursor
<1>5. size # NoWindow => eom < Count(size)
  BY <1>1, <1>4, WindowFacts
<1>6. ASSUME NEW i \in 1 .. eom PROVE cells[i] = text[i]
  <2>1. SubSeq(cells, 1, eom)[i] = cells[i]
    BY <1>3
  <2> QED
    BY <1>1, <2>1
<1> QED
  BY <1>1, <1>2, <1>3, <1>5, <1>6

\* A plain message of the next state, from its cells.
LEMMA PlainTextThen ==
  ASSUME NEW S, cells' \in [1 .. Count(size') -> S],
         text' \in Seq(Chars), Chars \subseteq S, eom' \in Nat, Count(size') \in Nat,
         eom' = Len(text'), cursor' = eom', eom' <= eob', eom' <= Count(size'),
         \A i \in 1 .. eom' : cells'[i] = text'[i]
  PROVE  PlainTypingIsExact'
<1>1. \A i \in 1 .. eom' : cells'[i] \in S
  OBVIOUS
<1>2. text' \in Seq(S)
  OBVIOUS
<1>3. SubSeq(cells', 1, eom') = text'
  BY <1>1, <1>2, TextInCells
<1> QED
  BY <1>3 DEF PlainTypingIsExact

\* What is typed at the end of the message.
LEMMA AppendKeepsInput ==
  ASSUME InputInvariant, NEW ch \in Chars, AppendChar(ch)
  PROVE  InputInvariant'
<1>1. /\ cursor < eob /\ cursor = eom /\ cells' = [cells EXCEPT ![Index + 1] = ch]
      /\ size' = size /\ eob' = eob /\ plain' = plain /\ down' = down
  BY DEF AppendChar, HasSpace
<1>2. /\ cursor \in Int /\ eom \in Int /\ size \in Sizes \cup {NoWindow}
      /\ cells \in [1 .. Count(size) -> Chars \cup {Blank}]
      /\ eob \in 0 .. (Length - 1) /\ text \in Seq(Chars)
      /\ plain \in BOOLEAN /\ down \in BOOLEAN
  BY DEF InputInvariant, TypeOK
<1>3. size # NoWindow /\ cursor = Index
  BY <1>1, <1>2, KeysHaveIndex DEF HasSpace
<1>4. /\ size.lines \in Nat \ {0} /\ size.cols \in Nat \ {0}
      /\ y \in 0 .. (size.lines - 1) /\ x \in 0 .. (size.cols - 1)
      /\ Index = y * size.cols + x /\ Index \in Nat
      /\ Count(size) \in Nat /\ Index < Count(size)
      /\ y * size.cols \in Nat
      /\ (y + 1) * size.cols = y * size.cols + size.cols
      /\ y = size.lines - 1 => y * size.cols + size.cols = Count(size)
  BY <1>3, WindowFacts
<1>5. /\ Index \in Nat /\ Count(size) \in Nat /\ Index < Count(size)
      /\ Count(size') = Count(size)
  BY <1>1, <1>4
<1>6. /\ cells' \in [1 .. Count(size') -> Chars \cup {Blank}]
      /\ cells'[Index + 1] = ch
      /\ \A i \in 1 .. Index : cells'[i] = cells[i]
  BY <1>1, <1>2, <1>5
<1>7. NoWindowNoRoom'
  BY <1>1 DEF InputInvariant, NoWindowNoRoom
<1>8. CASE AtCorner
  <2>1. y' = y /\ x' = x /\ cursor' = cursor /\ eom' = eom /\ text' = text
    BY <1>8 DEF AppendChar, place
  <2>2. /\ (y \in 0 .. Max({0, size.lines - 1}) /\ x \in 0 .. Max({0, size.cols - 1}))'
        /\ Index' = Index
    BY <1>1, <2>1, SamePlace DEF InputInvariant
  <2>3. TypeOK'
    BY <1>1, <1>2, <1>6, <2>1, <2>2 DEF TypeOK
  <2>4. IndexFollowsCursor'
    BY <1>3, <2>1, <2>2 DEF IndexFollowsCursor
  <2>5. CursorStaysInText'
    BY <1>1, <2>1 DEF InputInvariant, CursorStaysInText
  <2>6. ASSUME plain' = TRUE PROVE PlainTypingIsExact'
    <3>1. /\ eom \in Nat /\ Len(text) = eom /\ eom <= eob
          /\ \A i \in 1 .. eom : cells[i] = text[i]
      BY <1>1, <2>6, PlainText
    <3>2. \A i \in 1 .. eom' : cells'[i] = text'[i]
      BY <1>1, <1>3, <1>6, <2>1, <3>1
    <3>3. eom' <= Count(size') /\ Count(size') \in Nat
      BY <1>3, <1>1, <1>5, <2>1
    <3>4. /\ text' \in Seq(Chars) /\ Len(text') = eom' /\ eom' \in Nat
          /\ eom' <= eob' /\ cursor' = eom'
      BY <1>1, <1>2, <2>1, <3>1
    <3> QED
      BY <1>6, <3>2, <3>3, <3>4, PlainTextThen
  <2>7. PlainTypingIsExact'
    BY <1>1, <1>2, <2>6 DEF PlainTypingIsExact
  <2> QED
    BY <1>7, <2>3, <2>4, <2>5, <2>7 DEF InputInvariant
<1>9. CASE ~AtCorner
  <2>1. /\ cursor' = cursor + 1 /\ eom' = eom + 1
        /\ text' = IF plain THEN Append(text, ch) ELSE text
        /\ IF x + 1 < size.cols THEN MoveTo(y, x + 1) ELSE MoveTo(y + 1, 0)
    BY <1>9 DEF AppendChar
  <2>2. Index + 1 < Count(size)
    BY <1>4, <1>9 DEF AtCorner
  <2>3. /\ y' \in 0 .. (size.lines - 1) /\ x' \in 0 .. (size.cols - 1)
        /\ y' * size.cols + x' = Index + 1
    <3>1. CASE x + 1 < size.cols
      <4>1. y' = y /\ x' = x + 1
        BY <2>1, <3>1 DEF MoveTo
      <4>2. y' * size.cols = y * size.cols
        BY <4>1
      <4> QED
        BY <1>4, <3>1, <4>1, <4>2
    <3>2. CASE ~(x + 1 < size.cols)
      <4>1. y' = y + 1 /\ x' = 0
        BY <2>1, <3>2 DEF MoveTo
      <4>2. y' * size.cols = (y + 1) * size.cols
        BY <4>1
      <4>3. y' * size.cols = y * size.cols + size.cols /\ x = size.cols - 1
        BY <1>4, <3>2, <4>2
      <4>4. y # size.lines - 1
        BY <1>4, <2>2, <4>3
      <4> QED
        BY <1>4, <4>1, <4>3, <4>4
    <3> QED
      BY <3>1, <3>2
  <2>4. /\ (y \in 0 .. Max({0, size.lines - 1}) /\ x \in 0 .. Max({0, size.cols - 1}))'
        /\ Index' = Index + 1
    BY <1>1, <1>3, <2>3, NewPlace
  <2>5. text' \in Seq(Chars)
    BY <1>2, <2>1
  <2>6. TypeOK'
    BY <1>1, <1>2, <1>6, <2>1, <2>4, <2>5 DEF TypeOK
  <2>7. IndexFollowsCursor'
    BY <1>3, <2>1, <2>4 DEF IndexFollowsCursor
  <2>8. cursor' \in 0 .. eom'
    <3>1. cursor \in Nat /\ cursor = eom
      BY <1>1, <1>3, <1>5
    <3>2. cursor' = cursor + 1 /\ eom' = eom + 1
      BY <2>1
    <3> QED
      BY <3>1, <3>2
  <2>9. CursorStaysInText'
    BY <2>8 DEF CursorStaysInText
  <2>10. ASSUME plain' = TRUE PROVE PlainTypingIsExact'
    <3>1. /\ eom \in Nat /\ Len(text) = eom /\ eom <= eob
          /\ \A i \in 1 .. eom : cells[i] = text[i]
      BY <1>1, <2>10, PlainText
    <3>2. text' = Append(text, ch)
      BY <1>1, <2>1, <2>10
    <3>3. Len(text') = eom' /\ eom' \in Nat /\ eom' <= eob' /\ cursor' = eom'
      BY <1>1, <1>2, <2>1, <3>1, <3>2
    <3>4. \A i \in 1 .. eom : text'[i] = text[i] /\ cells'[i] = cells[i]
      BY <1>1, <1>2, <1>3, <1>6, <3>1, <3>2
    <3>5. text'[eom + 1] = ch /\ cells'[eom + 1] = ch
      BY <1>1, <1>2, <1>3, <1>6, <3>1, <3>2
    <3>6. \A i \in 1 .. eom' : cells'[i] = text'[i]
      BY <2>1, <3>1, <3>4, <3>5
    <3>7. eom' <= Count(size') /\ Count(size') \in Nat
      BY <1>3, <1>1, <1>5, <2>1, <2>2
    <3> QED
      BY <1>6, <2>5, <3>3, <3>6, <3>7, PlainTextThen
  <2>11. PlainTypingIsExact'
    BY <1>1, <1>2, <2>10 DEF PlainTypingIsExact
  <2> QED
    BY <1>7, <2>6, <2>7, <2>9, <2>11 DEF InputInvariant
<1> QED
  BY <1>8, <1>9

\* What is typed in the middle of the message.
LEMMA InsertKeepsInput ==
  ASSUME InputInvariant, NEW ch \in Chars, InsertChar(ch)
  PROVE  InputInvariant'
<1>1. /\ HasSpace /\ cursor < eom /\ cells' = Inserted(ch)
      /\ size' = size /\ eob' = eob /\ down' = down /\ plain' = FALSE /\ text' = <<>>
  BY DEF InsertChar, Edited
<1>2. /\ cursor \in Int /\ eom \in Int /\ size \in Sizes \cup {NoWindow}
      /\ cells \in [1 .. Count(size) -> Chars \cup {Blank}]
      /\ eob \in 0 .. (Length - 1) /\ down \in BOOLEAN
      /\ ~down => cursor \in 0 .. eom
  BY DEF InputInvariant, TypeOK, CursorStaysInText
<1>3. size # NoWindow /\ cursor = Index
  <2>1. cursor <= eom
    BY <1>1, <1>2
  <2> QED
    BY <1>1, <2>1, KeysHaveIndex
<1>4. /\ size.lines \in Nat \ {0} /\ size.cols \in Nat \ {0}
      /\ y \in 0 .. (size.lines - 1) /\ x \in 0 .. (size.cols - 1)
      /\ Index = y * size.cols + x /\ Index \in Nat
      /\ Count(size) \in Nat
      /\ y * size.cols \in Nat
      /\ (y + 1) * size.cols = y * size.cols + size.cols
      /\ (y + 1) * size.cols <= Count(size)
  BY <1>3, WindowFacts
<1>5. cells' \in [1 .. Count(size) -> Chars \cup {Blank}]
  <2> DEFINE a == y * size.cols + x + 1
             b == (y + 1) * size.cols
  <2>1. a \in Nat \ {0} /\ b \in Nat /\ a <= b /\ b <= Count(size)
    BY <1>4
  <2>2. /\ cells' = [i \in DOMAIN cells |->
                       IF i \notin a .. b THEN cells[i]
                       ELSE IF i = Min(a .. b) THEN ch ELSE cells[i - 1]]
        /\ DOMAIN cells = 1 .. Count(size)
    BY <1>1, <1>2 DEF Inserted, RestOfRow
  <2> HIDE DEF a, b
  <2>3. Min(a .. b) = a
    BY <2>1, EndsOfInterval
  <2>4. ASSUME NEW i \in 1 .. Count(size), i \in a .. b, i # a
        PROVE  i - 1 \in 1 .. Count(size)
    BY <1>4, <2>1, <2>4
  <2> QED
    BY <1>2, <2>2, <2>3, <2>4
<1>6. /\ y' \in 0 .. (size.lines - 1) /\ x' \in 0 .. (size.cols - 1)
      /\ \/ y' * size.cols + x' = Index + 1 /\ cursor' = cursor + 1 /\ eom' = eom + 1
         \/ y' * size.cols + x' = Index /\ cursor' = cursor /\ eom' = eom
  <2>1. CASE Inside(y, x + 1)
    <3>1. y' = y /\ x' = x + 1 /\ cursor' = cursor + 1 /\ eom' = eom + 1
      BY <2>1 DEF InsertChar, MoveTo
    <3>2. y' * size.cols = y * size.cols
      BY <3>1
    <3>3. x' \in 0 .. (size.cols - 1) /\ y' \in 0 .. (size.lines - 1)
      BY <2>1, <3>1 DEF Inside
    <3>4. x \in Int /\ y * size.cols \in Int /\ Index = y * size.cols + x
      BY <1>4
    <3>5. y' * size.cols + x' = Index + 1
      BY <3>1, <3>2, <3>4
    <3> QED
      BY <3>1, <3>3, <3>5
  <2>2. CASE ~Inside(y, x + 1) /\ Inside(y + 1, 0)
    <3>1. y' = y + 1 /\ x' = 0 /\ cursor' = cursor + 1 /\ eom' = eom + 1
      BY <2>2 DEF InsertChar, MoveTo
    <3>2. y' * size.cols = (y + 1) * size.cols
      BY <3>1
    <3>3. x = size.cols - 1 /\ y + 1 \in 0 .. (size.lines - 1)
      BY <1>4, <2>2 DEF Inside
    <3> QED
      BY <1>4, <3>1, <3>2, <3>3
  <2>3. CASE ~Inside(y, x + 1) /\ ~Inside(y + 1, 0)
    <3>1. y' = y /\ x' = x /\ cursor' = cursor /\ eom' = eom
      BY <2>3 DEF InsertChar, place
    <3>2. y' * size.cols = y * size.cols
      BY <3>1
    <3> QED
      BY <1>4, <3>1, <3>2
  <2> QED
    BY <2>1, <2>2, <2>3
<1>7. /\ (y \in 0 .. Max({0, size.lines - 1}) /\ x \in 0 .. Max({0, size.cols - 1}))'
      /\ Index' = y' * size.cols + x'
  BY <1>1, <1>3, <1>6, NewPlace
<1>8. cursor' = Index' /\ cursor' \in Int /\ eom' \in Int
  BY <1>2, <1>3, <1>6, <1>7
<1>9. TypeOK'
  <2>1. text' \in Seq(Chars)
    BY <1>1
  <2>2. plain' \in BOOLEAN
    BY <1>1
  <2>3. /\ size' \in Sizes \cup {NoWindow} /\ eob' \in 0 .. (Length - 1)
        /\ cells' \in [1 .. Count(size') -> Chars \cup {Blank}]
    BY <1>1, <1>2, <1>5
  <2>4. down' \in BOOLEAN
    BY <1>1, <1>2
  <2> QED
    BY <1>7, <1>8, <2>1, <2>2, <2>3, <2>4 DEF TypeOK
<1>10. ASSUME ~down' PROVE cursor' \in 0 .. eom'
  <2>1. cursor \in 0 .. eom
    BY <1>1, <1>2, <1>10
  <2> QED
    BY <1>2, <1>6, <2>1
<1> QED
  BY <1>1, <1>8, <1>9, <1>10
     DEF InputInvariant, NoWindowNoRoom, IndexFollowsCursor, CursorStaysInText,
         PlainTypingIsExact

\* Backspace takes the last character of a plain message, and no other.
LEMMA BackspaceKeepsInput ==
  ASSUME InputInvariant, KeyBackspace
  PROVE  InputInvariant'
<1> DEFINE row == IF x = 0 THEN y - 1 ELSE y
           col == IF x = 0 THEN size.cols - 1 ELSE x - 1
<1>1. /\ cursor > 0 /\ Inside(row, col) /\ cells' = Deleted(row, col)
      /\ y' = row /\ x' = col /\ cursor' = cursor - 1 /\ eom' = eom - 1
      /\ size' = size /\ eob' = eob /\ down' = down
  BY DEF KeyBackspace, MoveTo
<1>2. IF plain THEN text' = Front(text) /\ plain' = plain ELSE plain' = FALSE /\ text' = <<>>
  BY DEF KeyBackspace, Edited
<1>3. /\ cursor \in Int /\ eom \in Int /\ size \in Sizes \cup {NoWindow}
      /\ cells \in [1 .. Count(size) -> Chars \cup {Blank}]
      /\ eob \in 0 .. (Length - 1) /\ down \in BOOLEAN /\ plain \in BOOLEAN
      /\ text \in Seq(Chars) /\ (~down => cursor \in 0 .. eom)
  BY DEF InputInvariant, TypeOK, CursorStaysInText
<1>4. size # NoWindow /\ cursor = Index
  BY KeysHaveIndex
<1>5. /\ size.lines \in Nat \ {0} /\ size.cols \in Nat \ {0}
      /\ y \in 0 .. (size.lines - 1) /\ x \in 0 .. (size.cols - 1)
      /\ Index = y * size.cols + x /\ Index \in Nat
      /\ Count(size) \in Nat /\ Index < Count(size)
      /\ y * size.cols \in Nat
      /\ (y - 1) * size.cols = y * size.cols - size.cols
  BY <1>4, WindowFacts
<1>6. /\ row \in 0 .. (size.lines - 1) /\ col \in 0 .. (size.cols - 1)
      /\ row * size.cols + col = Index - 1
  <2>1. row \in 0 .. (size.lines - 1) /\ col \in 0 .. (size.cols - 1)
    BY <1>1 DEF Inside
  <2>2. CASE x = 0
    <3>1. row * size.cols = (y - 1) * size.cols /\ col = size.cols - 1
      BY <2>2
    <3> HIDE DEF row, col
    <3> QED
      BY <1>5, <2>1, <2>2, <3>1
  <2>3. CASE x # 0
    <3>1. row * size.cols = y * size.cols /\ col = x - 1
      BY <2>3
    <3> HIDE DEF row, col
    <3> QED
      BY <1>5, <2>1, <2>3, <3>1
  <2> QED
    BY <2>2, <2>3, <2>1
<1> HIDE DEF row, col
<1>7. /\ (row + 1) * size.cols <= Count(size)
      /\ (row + 1) * size.cols = row * size.cols + size.cols
      /\ row * size.cols \in Int
  <2>1. size.lines \in Nat /\ row \in Int
    BY <1>5, <1>6
  <2>2. Count(size) = size.lines * size.cols
    BY <1>3, SizeFacts
  <2> QED
    BY <1>5, <1>6, <2>1, <2>2, PlaceOfCell
<1>8. /\ cells' \in [1 .. Count(size) -> Chars \cup {Blank}]
      /\ \A i \in 1 .. (Index - 1) : cells'[i] = cells[i]
  <2> DEFINE b == (row + 1) * size.cols
  <2>1. b \in Nat /\ Index <= b /\ b <= Count(size) /\ Index \in Nat \ {0}
    BY <1>1, <1>4, <1>5, <1>6, <1>7
  <2>2. row * size.cols + col + 1 = Index
    BY <1>5, <1>6, <1>7
  <2>3. /\ cells' = [i \in DOMAIN cells |->
                       IF i \notin Index .. b THEN cells[i]
                       ELSE IF i = Max(Index .. b) THEN Blank ELSE cells[i + 1]]
        /\ DOMAIN cells = 1 .. Count(size)
    BY <1>1, <1>3, <2>2 DEF Deleted, RestOfRow
  <2> HIDE DEF b
  <2>4. Max(Index .. b) = b
    BY <2>1, EndsOfInterval
  <2>5. ASSUME NEW i \in 1 .. Count(size), i \in Index .. b, i # b
        PROVE  i + 1 \in 1 .. Count(size)
    BY <1>5, <2>1, <2>5
  <2>6. cells' \in [1 .. Count(size) -> Chars \cup {Blank}]
    BY <1>3, <2>3, <2>4, <2>5
  <2>7. ASSUME NEW i \in 1 .. (Index - 1) PROVE cells'[i] = cells[i]
    <3>1. i \in 1 .. Count(size) /\ i \notin Index .. b
      BY <1>5, <2>1
    <3> QED
      BY <2>3, <3>1
  <2> QED
    BY <2>6, <2>7
<1>9. /\ (y \in 0 .. Max({0, size.lines - 1}) /\ x \in 0 .. Max({0, size.cols - 1}))'
      /\ Index' = Index - 1
  BY <1>1, <1>4, <1>6, NewPlace
<1>10. text' \in Seq(Chars)
  <2>1. CASE plain = TRUE
    <3>1. text # <<>>
      BY <1>1, <2>1, PlainText
    <3> QED
      BY <1>2, <1>3, <2>1, <3>1 DEF Front
  <2>2. CASE plain = FALSE
    BY <1>2, <2>2
  <2> QED
    BY <1>3, <2>1, <2>2
<1>11. TypeOK'
  <2>1. plain' \in BOOLEAN
    BY <1>2, <1>3
  <2>2. /\ size' \in Sizes \cup {NoWindow} /\ eob' \in 0 .. (Length - 1)
        /\ cells' \in [1 .. Count(size') -> Chars \cup {Blank}]
        /\ cursor' \in Int /\ eom' \in Int
    BY <1>1, <1>3, <1>8
  <2>3. down' \in BOOLEAN
    BY <1>1, <1>3
  <2> QED
    BY <1>9, <1>10, <2>1, <2>2, <2>3 DEF TypeOK
<1>12. ASSUME ~down' PROVE cursor' \in 0 .. eom'
  <2>1. cursor \in 0 .. eom
    BY <1>1, <1>3, <1>12
  <2> QED
    BY <1>1, <1>3, <2>1
<1>13. ASSUME plain' = TRUE PROVE PlainTypingIsExact'
  <2>1. plain = TRUE
    BY <1>2, <1>3, <1>13
  <2>2. /\ eom \in Nat /\ cursor = eom /\ Len(text) = eom /\ eom <= eob
        /\ \A i \in 1 .. eom : cells[i] = text[i]
    BY <2>1, PlainText
  <2>3. text' = SubSeq(text, 1, eom - 1)
    BY <1>2, <2>1, <2>2 DEF Front
  <2>4. /\ Len(text') = eom' /\ eom' \in Nat /\ eom' <= eob' /\ cursor' = eom'
    BY <1>1, <1>3, <2>2, <2>3
  <2>5. \A i \in 1 .. eom' : text'[i] = text[i]
    BY <1>1, <1>3, <2>2, <2>3
  <2>6. \A i \in 1 .. eom' : cells'[i] = text'[i]
    BY <1>1, <1>4, <1>8, <2>2, <2>5
  <2>7. /\ eom' <= Count(size') /\ Count(size') \in Nat
        /\ cells' \in [1 .. Count(size') -> Chars \cup {Blank}]
    BY <1>1, <1>4, <1>5, <1>8, <2>2
  <2> QED
    BY <1>10, <2>4, <2>6, <2>7, PlainTextThen
<1>14. PlainTypingIsExact'
  BY <1>11, <1>13 DEF TypeOK, PlainTypingIsExact
<1>15. cursor' = Index'
  BY <1>1, <1>4, <1>9
<1> QED
  BY <1>1, <1>11, <1>12, <1>14, <1>15
     DEF InputInvariant, NoWindowNoRoom, IndexFollowsCursor, CursorStaysInText

\* A window that has just been cleared.
LEMMA ClearedKeepsInput ==
  ASSUME NEW s \in Sizes \cup {NoWindow}, size' = s, Cleared(s), Afresh,
         cursor' = 0, eom' = 0, eob' \in 0 .. (Length - 1), s = NoWindow => eob' = 0
  PROVE  InputInvariant'
<1>1. /\ cells' = Empty(s) /\ y' = 0 /\ x' = 0
      /\ text' = <<>> /\ plain' = TRUE /\ down' = FALSE
  BY DEF Cleared, Afresh
<1>2. /\ Count(s) \in Nat /\ s.cols \in Nat /\ s.lines \in Nat
      /\ Empty(s) \in [1 .. Count(s) -> Chars \cup {Blank}]
      /\ 0 \in 0 .. Max({0, s.lines - 1}) /\ 0 \in 0 .. Max({0, s.cols - 1})
  BY SizeFacts
<1>3. Index' = 0
  BY <1>1, <1>2 DEF Index
<1>4. TypeOK'
  <2>1. text' \in Seq(Chars)
    BY <1>1
  <2>2. plain' \in BOOLEAN /\ down' \in BOOLEAN
    BY <1>1
  <2>3. /\ cells' \in [1 .. Count(size') -> Chars \cup {Blank}]
        /\ cursor' \in Int /\ eom' \in Int
    BY <1>1, <1>2
  <2>4. (y \in 0 .. Max({0, size.lines - 1}) /\ x \in 0 .. Max({0, size.cols - 1}))'
    BY <1>1, <1>2
  <2> QED
    BY <2>1, <2>2, <2>3, <2>4 DEF TypeOK
<1>5. SubSeq(cells', 1, 0) = <<>>
  BY EmptySeq, SubSeqProperties
<1>6. PlainTypingIsExact'
  BY <1>1, <1>5 DEF PlainTypingIsExact
<1> QED
  BY <1>3, <1>4, <1>6
     DEF InputInvariant, NoWindowNoRoom, IndexFollowsCursor, CursorStaysInText

\* Enter, on a message or on one whose length is below zero.
LEMMA EnterKeepsInput ==
  ASSUME InputInvariant, KeyEnter
  PROVE  InputInvariant'
<1>1. /\ size \in Sizes \cup {NoWindow} /\ eom \in Int /\ eob \in 0 .. (Length - 1)
      /\ text \in Seq(Chars) /\ plain \in BOOLEAN /\ down \in BOOLEAN
      /\ ~down => cursor \in 0 .. eom
  BY DEF InputInvariant, TypeOK, CursorStaysInText
<1>2. size' = size /\ Cleared(size) /\ eom' = 0 /\ eom # 0
  BY DEF KeyEnter
<1>3. CASE eom > 0
  <2>1. cursor' = 0 /\ eob' = Limit(size) /\ Afresh
    BY <1>3 DEF KeyEnter
  <2> QED
    BY <1>1, <1>2, <2>1, SizeFacts, ClearedKeepsInput
<1>4. CASE eom < 0
  <2>1. cursor' = cursor /\ eob' = eob /\ text' = text /\ plain' = plain /\ down' = down
    BY <1>1, <1>4 DEF KeyEnter, histories
  <2>2. cells' = Empty(size) /\ y' = 0 /\ x' = 0
    BY <1>2 DEF Cleared
  <2>3. plain = FALSE
    <3>1. plain = TRUE => eom \in Nat
      BY PlainText
    <3>2. eom \notin Nat
      BY <1>1, <1>4
    <3> QED
      BY <1>1, <3>1, <3>2
  <2>4. down = TRUE
    BY <1>1, <1>4
  <2>5. cursor \in Nat
    BY PlaceFacts
  <2>6. /\ Count(size) \in Nat /\ size.cols \in Nat /\ size.lines \in Nat
        /\ Empty(size) \in [1 .. Count(size) -> Chars \cup {Blank}]
        /\ 0 \in 0 .. Max({0, size.lines - 1}) /\ 0 \in 0 .. Max({0, size.cols - 1})
    BY <1>1, SizeFacts
  <2>7. Index' = 0
    BY <1>2, <2>2, <2>6 DEF Index
  <2>8. TypeOK'
    <3>1. /\ size' \in Sizes \cup {NoWindow} /\ eob' \in 0 .. (Length - 1)
          /\ cursor' \in Int /\ eom' \in Int /\ text' \in Seq(Chars)
          /\ cells' \in [1 .. Count(size') -> Chars \cup {Blank}]
      BY <1>1, <1>2, <2>1, <2>2, <2>5, <2>6
    <3>2. plain' \in BOOLEAN /\ down' \in BOOLEAN
      BY <1>1, <2>1
    <3>3. (y \in 0 .. Max({0, size.lines - 1}) /\ x \in 0 .. Max({0, size.cols - 1}))'
      BY <1>2, <2>2, <2>6
    <3> QED
      BY <3>1, <3>2, <3>3 DEF TypeOK
  <2>9. IndexFollowsCursor'
    BY <1>2, <2>1, <2>2, <2>5, <2>7 DEF IndexFollowsCursor
  <2>10. NoWindowNoRoom'
    BY <1>2, <2>1 DEF InputInvariant, NoWindowNoRoom
  <2>11. CursorStaysInText' /\ PlainTypingIsExact'
    BY <2>1, <2>3, <2>4 DEF CursorStaysInText, PlainTypingIsExact
  <2> QED
    BY <2>8, <2>9, <2>10, <2>11 DEF InputInvariant
<1> QED
  BY <1>1, <1>2, <1>3, <1>4

\* The other steps that clear: ESC and a new size of the terminal.
LEMMA ClearingsKeepInput ==
  ASSUME InputInvariant, KeyEscape \/ (\E s \in Sizes : Resize(s)) \/ ResizeTooSmall
  PROVE  InputInvariant'
<1>1. /\ size \in Sizes \cup {NoWindow} /\ eob \in 0 .. (Length - 1)
      /\ cursor \in Int /\ eom \in Int /\ down \in BOOLEAN
      /\ size = NoWindow => eob = 0
  BY DEF InputInvariant, TypeOK, NoWindowNoRoom
<1>2. CASE KeyEscape
  <2>1. /\ size' = size /\ eob' = eob /\ Cleared(size) /\ Afresh
        /\ cursor' = 0 /\ eom' = 0
    BY <1>2 DEF KeyEscape
  <2> QED
    BY <1>1, <2>1, ClearedKeepsInput
<1>3. ASSUME NEW s \in Sizes, Resize(s) PROVE InputInvariant'
  <2>1. /\ size' = s /\ eob' = eob /\ Cleared(s) /\ Afresh
        /\ cursor' = 0 /\ eom' = 0
    BY <1>3 DEF Resize
  <2>2. s # NoWindow
    BY SizesAssumption DEF NoWindow
  <2>3. eob' \in 0 .. (Length - 1) /\ s \in Sizes \cup {NoWindow}
    BY <1>1, <2>1
  <2> QED
    BY <2>1, <2>2, <2>3, ClearedKeepsInput
<1>4. CASE ResizeTooSmall
  <2>1. /\ cells' = Empty(size) /\ plain' = FALSE /\ text' = <<>>
        /\ size' = size /\ y' = y /\ x' = x /\ cursor' = cursor /\ eom' = eom
        /\ eob' = eob /\ down' = down
    BY <1>4 DEF ResizeTooSmall, Edited, place
  <2>2. /\ (y \in 0 .. Max({0, size.lines - 1}) /\ x \in 0 .. Max({0, size.cols - 1}))'
        /\ Index' = Index
    BY <2>1, SamePlace DEF InputInvariant
  <2>3. TypeOK'
    <3>1. text' \in Seq(Chars)
      BY <2>1
    <3>2. plain' \in BOOLEAN
      BY <2>1
    <3>3. cells' \in [1 .. Count(size') -> Chars \cup {Blank}]
      BY <1>1, <2>1, SizeFacts
    <3> QED
      BY <1>1, <2>1, <2>2, <3>1, <3>2, <3>3 DEF TypeOK
  <2>4. IndexFollowsCursor'
    BY <2>1, <2>2 DEF InputInvariant, IndexFollowsCursor
  <2>5. NoWindowNoRoom' /\ CursorStaysInText'
    BY <2>1 DEF InputInvariant, NoWindowNoRoom, CursorStaysInText
  <2>6. PlainTypingIsExact'
    BY <2>1 DEF PlainTypingIsExact
  <2> QED
    BY <2>3, <2>4, <2>5, <2>6 DEF InputInvariant
<1> QED
  BY <1>2, <1>3, <1>4

-----------------------------------------------------------------------------
(* The theorems. *)

\* Every step of the input window, and stuttering, keeps its invariant.
LEMMA StepsKeepInput == InputInvariant /\ [Next]_inputVars => InputInvariant'
<1> SUFFICES ASSUME InputInvariant, [Next]_inputVars PROVE InputInvariant'
  OBVIOUS
<1>1. ASSUME NEW ch \in Chars, AppendChar(ch) \/ InsertChar(ch) PROVE InputInvariant'
  BY <1>1, AppendKeepsInput, InsertKeepsInput
<1>2. CASE KeyBackspace
  BY <1>2, BackspaceKeepsInput
<1>3. CASE KeyLeft \/ KeyRight \/ KeyUp \/ KeyDown
  BY <1>3, MovesKeepInput
<1>4. CASE KeyEnter
  BY <1>4, EnterKeepsInput
<1>5. CASE KeyEscape \/ (\E s \in Sizes : Resize(s)) \/ ResizeTooSmall
  BY <1>5, ClearingsKeepInput
<1>6. CASE UNCHANGED inputVars
  <2>1. /\ size' = size /\ cells' = cells /\ y' = y /\ x' = x /\ cursor' = cursor
        /\ eom' = eom /\ eob' = eob /\ text' = text /\ plain' = plain /\ down' = down
    BY <1>6 DEF inputVars, place, histories
  <2> QED
    BY <2>1 DEF InputInvariant, TypeOK, NoWindowNoRoom, IndexFollowsCursor,
                CursorStaysInText, PlainTypingIsExact, Index
<1> QED
  BY <1>1, <1>2, <1>3, <1>4, <1>5, <1>6 DEF Next

\* The inductive invariant of uiinput.c holds in every window and after every
\* sequence of keys and terminal sizes.
THEOREM InputInvariantHolds == Spec => []InputInvariant
<1>1. Init => InputInvariant
  <2> SUFFICES ASSUME Init PROVE InputInvariant
    OBVIOUS
  <2>1. /\ size \in Sizes \cup {NoWindow} /\ cells = Empty(size) /\ y = 0 /\ x = 0
        /\ cursor = 0 /\ eom = 0 /\ eob = Limit(size)
        /\ text = <<>> /\ plain = TRUE /\ down = FALSE
    BY DEF Init
  <2>2. /\ Count(size) \in Nat /\ size.cols \in Nat /\ size.lines \in Nat
        /\ Empty(size) \in [1 .. Count(size) -> Chars \cup {Blank}]
        /\ 0 \in 0 .. Max({0, size.lines - 1}) /\ 0 \in 0 .. Max({0, size.cols - 1})
        /\ eob \in 0 .. (Length - 1) /\ (size = NoWindow => eob = 0)
    BY <2>1, SizeFacts
  <2>3. Index = 0
    BY <2>1, <2>2 DEF Index
  <2>4. TypeOK
    <3>1. text \in Seq(Chars)
      BY <2>1
    <3>2. plain \in BOOLEAN /\ down \in BOOLEAN
      BY <2>1
    <3>3. /\ cells \in [1 .. Count(size) -> Chars \cup {Blank}]
          /\ cursor \in Int /\ eom \in Int
      BY <2>1, <2>2
    <3>4. y \in 0 .. Max({0, size.lines - 1}) /\ x \in 0 .. Max({0, size.cols - 1})
      BY <2>1, <2>2
    <3> QED
      BY <2>1, <2>2, <3>1, <3>2, <3>3, <3>4 DEF TypeOK
  <2>5. SubSeq(cells, 1, 0) = <<>>
    BY EmptySeq, SubSeqProperties
  <2>6. PlainTypingIsExact
    BY <2>1, <2>2, <2>5 DEF PlainTypingIsExact
  <2> QED
    BY <2>1, <2>2, <2>3, <2>4, <2>6
       DEF InputInvariant, NoWindowNoRoom, IndexFollowsCursor, CursorStaysInText
<1> QED
  BY <1>1, StepsKeepInput, PTL DEF Spec

\* The counters stay integers, the cells characters, and the ncurses cursor in
\* the window.
THEOREM InputTypesHold == Spec => []TypeOK
<1>1. InputInvariant => TypeOK
  BY DEF InputInvariant
<1> QED
  BY <1>1, InputInvariantHolds, PTL

\* The index belongs to the ncurses cursor, whatever the size of the window.
THEOREM IndexIsOfCursor == Spec => []IndexFollowsCursor
<1>1. InputInvariant => IndexFollowsCursor
  BY DEF InputInvariant
<1> QED
  BY <1>1, InputInvariantHolds, PTL

\* Only KEY_DOWN can take the cursor out of the message.
THEOREM OnlyDownLeavesText == Spec => []CursorStaysInText
<1>1. InputInvariant => CursorStaysInText
  BY DEF InputInvariant
<1> QED
  BY <1>1, InputInvariantHolds, PTL

\* What is typed and corrected with Backspace is in the window as typed when
\* Enter reads it, whatever the size of the window and the limit of a message.
THEOREM TypingIsExact == Spec => []PlainTypingIsExact
<1>1. InputInvariant => PlainTypingIsExact
  BY DEF InputInvariant
<1> QED
  BY <1>1, InputInvariantHolds, PTL
=============================================================================
