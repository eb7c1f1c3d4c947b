----------------------------- MODULE InputWindow -----------------------------
(***************************************************************************)
(* The input window of the client (src/client/uiinput.c) and the keys of   *)
(* UIInputLoop that edit in it.  The text is kept in the cells of an       *)
(* ncurses window; the code keeps two counters beside it, cursor and eom,  *)
(* which it moves along with the ncurses cursor.                           *)
(*                                                                         *)
(* The ncurses window is external: a grid of cells with a cursor, where    *)
(* insertion and deletion shift the rest of the row and not of the text,   *)
(* where a move out of the window fails, and where writing the last cell   *)
(* succeeds but is reported as an error.  Characters are one column wide.  *)
(***************************************************************************)
EXTENDS Integers, SequencesExt

CONSTANTS
  Chars,     \* what the user types
  Blank,     \* an empty cell
  Sizes,     \* the rows and columns of the window in terminals big enough
  Length,    \* kMaxMessageLength
  MaxEom     \* bound: eom when inserting into a full window

ASSUME CharsAssumption == Blank \notin Chars
ASSUME SizesAssumption == Sizes \subseteq [lines : Nat \ {0}, cols : Nat \ {0}]
ASSUME LengthAssumption == Length \in Nat \ {0, 1} /\ MaxEom \in Nat

NoWindow == [lines |-> 0, cols |-> 0]

VARIABLES
  size,    \* lines and cols
  cells,   \* the cells of the window, row after row
  y, x,    \* the ncurses cursor
  cursor,  \* the index that follows it
  eom,     \* the end of the message
  eob,     \* the limit, set when UIInputLoop begins
  text,    \* history: what is typed if only Backspace has edited it
  plain,   \* history: nothing but typing at the end and Backspace so far
  down     \* history: KEY_DOWN has moved the cursor

place == <<y, x>>
histories == <<text, plain, down>>
inputVars == <<size, cells, place, cursor, eom, eob, histories>>

Count(s) == s.lines * s.cols

Empty(s) == [i \in 1 .. Count(s) |-> Blank]

\* The cell under the ncurses cursor, from 0.
Index == y * size.cols + x

\* UIInputWin_init: the limit is that of the message or that of the window (a
\* window that does not exist yet has no cell).
Limit(s) == Min({Length - 1, Count(s)})

\* The types of the variables of uiinput.c and of the histories.  The counters
\* may be negative.
TypeOK ==
  /\ size \in Sizes \cup {NoWindow}
  /\ cells \in [1 .. Count(size) -> Chars \cup {Blank}]
  /\ y \in 0 .. Max({0, size.lines - 1}) /\ x \in 0 .. Max({0, size.cols - 1})
  /\ cursor \in Int /\ eom \in Int
  /\ eob \in 0 .. (Length - 1)
  /\ text \in Seq(Chars) /\ plain \in BOOLEAN /\ down \in BOOLEAN

\* UIInit, then the first UIInputWin_init.
Init ==
  /\ size \in Sizes \cup {NoWindow}
  /\ cells = Empty(size)
  /\ y = 0 /\ x = 0
  /\ cursor = 0 /\ eom = 0
  /\ eob = Limit(size)
  /\ text = <<>> /\ plain = TRUE /\ down = FALSE

-----------------------------------------------------------------------------
(* ncurses. *)

\* wmove() fails outside the window and leaves the cursor where it was.
Inside(row, col) == row \in 0 .. (size.lines - 1) /\ col \in 0 .. (size.cols - 1)

MoveTo(row, col) == y' = row /\ x' = col

\* The cells of row from col on, as positions of cells.
RestOfRow(row, col) == (row * size.cols + col + 1) .. ((row + 1) * size.cols)

\* winsch(): the last cell of the row is lost.
Inserted(ch) ==
  LET rest == RestOfRow(y, x)
  IN  [i \in DOMAIN cells |->
         IF i \notin rest THEN cells[i]
         ELSE IF i = Min(rest) THEN ch ELSE cells[i - 1]]

\* wdelch(): a blank comes in at the end of the row.
Deleted(row, col) ==
  LET rest == RestOfRow(row, col)
  IN  [i \in DOMAIN cells |->
         IF i \notin rest THEN cells[i]
         ELSE IF i = Max(rest) THEN Blank ELSE cells[i + 1]]

\* waddch() fails in the last cell, after writing it, without a move.
AtCorner == Index = Count(size) - 1

\* The message has been edited in another way than by typing and Backspace.
Edited == plain' = FALSE /\ text' = <<>>

-----------------------------------------------------------------------------
(* Typing: UIInputWin_addChar. *)

\* A character is taken while the cursor is below the limit.
HasSpace == cursor < eob

\* At the end of the message.
AppendChar(ch) ==
  /\ HasSpace /\ cursor = eom
  /\ cells' = [cells EXCEPT ![Index + 1] = ch]
  /\ IF AtCorner
     THEN UNCHANGED <<place, cursor, eom, text>>
     ELSE /\ IF x + 1 < size.cols THEN MoveTo(y, x + 1) ELSE MoveTo(y + 1, 0)
          /\ cursor' = cursor + 1 /\ eom' = eom + 1
          /\ text' = IF plain THEN Append(text, ch) ELSE text
  /\ UNCHANGED <<size, eob, plain, down>>

\* In the middle: the counters move only if the ncurses cursor can.  (The full
\* message is not a limit: only the cursor is compared with it.)
InsertChar(ch) ==
  /\ HasSpace /\ cursor < eom /\ eom < MaxEom
  /\ cells' = Inserted(ch)
  /\ IF Inside(y, x + 1) THEN MoveTo(y, x + 1)
     ELSE IF Inside(y + 1, 0) THEN MoveTo(y + 1, 0)
     ELSE UNCHANGED place
  /\ IF Inside(y, x + 1) \/ Inside(y + 1, 0)
     THEN cursor' = cursor + 1 /\ eom' = eom + 1
     ELSE UNCHANGED <<cursor, eom>>
  /\ Edited
  /\ UNCHANGED <<size, eob, down>>

\* UIInputWin_delete: the character to the left of the cursor, if mvwdelch()
\* can move there.
KeyBackspace ==
  LET row == IF x = 0 THEN y - 1 ELSE y
      col == IF x = 0 THEN size.cols - 1 ELSE x - 1
  IN  /\ cursor > 0
      /\ Inside(row, col)
      /\ cells' = Deleted(row, col)
      /\ MoveTo(row, col)
      /\ cursor' = cursor - 1 /\ eom' = eom - 1
      /\ IF plain THEN text' = Front(text) /\ UNCHANGED plain ELSE Edited
      /\ UNCHANGED <<size, eob, down>>

-----------------------------------------------------------------------------
(* Moving: UIInputWin_moveCursor. *)

Moved == Edited /\ UNCHANGED <<size, cells, eom, eob>>

\* MoveLeft
KeyLeft ==
  /\ \/ y > 0 /\ x = 0 /\ MoveTo(y - 1, size.cols - 1)
     \/ x > 0 /\ MoveTo(y, x - 1)
  /\ cursor' = IF cursor > 0 THEN cursor - 1 ELSE cursor
  /\ Moved /\ UNCHANGED down

\* Mutant: the end of the message is no limit.
KeyRight_NoEnd ==
  /\ Inside(y, x + 1)
  /\ MoveTo(y, x + 1)
  /\ cursor' = cursor + 1
  /\ Moved /\ UNCHANGED down

\* MoveRight does not go on to the next row.
KeyRight ==
  /\ eom > Index
  /\ Inside(y, x + 1)
  /\ MoveTo(y, x + 1)
  /\ cursor' = Min({cursor + 1, eom})
  /\ Moved /\ UNCHANGED down

\* Mutant: the index stays behind.
KeyUp_KeepsIndex ==
  /\ y > 0
  /\ MoveTo(y - 1, x)
  /\ UNCHANGED cursor
  /\ Moved /\ UNCHANGED down

\* MoveUp
KeyUp ==
  /\ y > 0
  /\ MoveTo(y - 1, x)
  /\ cursor' = cursor - size.cols
  /\ Moved /\ UNCHANGED down

\* MoveDown: whether there is text below is decided for the first row.
KeyDown ==
  /\ y < size.lines - 1
  /\ eom >= size.cols + x
  /\ MoveTo(y + 1, x)
  /\ cursor' = cursor + size.cols
  /\ down' = TRUE
  /\ Moved

-----------------------------------------------------------------------------
(* Clearing: Enter, ESC in live mode, a new terminal size. *)

Cleared(s) == cells' = Empty(s) /\ y' = 0 /\ x' = 0

\* The histories begin again with the next message.
Afresh == text' = <<>> /\ plain' = TRUE /\ down' = FALSE

\* Mutant: the end of the message is left where it was.
KeyEnter_KeepsEnd ==
  /\ eom # 0
  /\ Cleared(size)
  /\ cursor' = 0
  /\ eob' = Limit(size)
  /\ Afresh
  /\ UNCHANGED <<size, eom>>

\* UIInputWin_commit clears the window and eom and, if there was a message,
\* makes UIInputLoop return and App_run call it again: UIInputWin_init resets
\* cursor and the limit.  Nothing else resets cursor.
KeyEnter ==
  /\ eom # 0
  /\ Cleared(size)
  /\ eom' = 0
  /\ cursor' = IF eom > 0 THEN 0 ELSE cursor
  /\ eob' = IF eom > 0 THEN Limit(size) ELSE eob
  /\ IF eom > 0 THEN Afresh ELSE UNCHANGED histories
  /\ UNCHANGED size

\* UIInputWin_reset
KeyEscape ==
  /\ Cleared(size) /\ Afresh
  /\ cursor' = 0 /\ eom' = 0
  /\ UNCHANGED <<size, eob>>

\* UIRender in a terminal that is big enough: UIInputWin_render makes a new
\* window, UIInputWin_reset follows, and the limit stays.
Resize(s) ==
  /\ size' = s
  /\ Cleared(s) /\ Afresh
  /\ cursor' = 0 /\ eom' = 0
  /\ UNCHANGED eob

\* UIRender in a terminal that is too small clears the screen, whose memory the
\* window shares, and leaves the rest alone.
ResizeTooSmall ==
  /\ cells' = Empty(size)
  /\ Edited
  /\ UNCHANGED <<size, place, cursor, eom, eob, down>>

Next ==
  \/ \E ch \in Chars : AppendChar(ch) \/ InsertChar(ch)
  \/ KeyBackspace \/ KeyLeft \/ KeyRight \/ KeyUp \/ KeyDown
  \/ KeyEnter \/ KeyEscape
  \/ \E s \in Sizes : Resize(s)
  \/ ResizeTooSmall

Spec == Init /\ [][Next]_inputVars

-----------------------------------------------------------------------------
(* Correctness. *)

\* The index follows the ncurses cursor through every key, over the ends of the
\* rows and into the corner.  The one exception is Enter on a message whose
\* length Backspace has brought below zero: it leaves an index that does not
\* belong to the empty window.
IndexFollowsCursor ==
  \/ cursor = Index
  \/ cursor > 0 /\ eom = 0 /\ Index = 0 /\ cells = Empty(size)

\* As long as KEY_DOWN has not moved the cursor, the other keys keep it inside
\* the message, so that what is typed is taken; only KEY_DOWN can leave the
\* message (from the second row on it does not look at the row below).
CursorStaysInText == ~down => cursor \in 0 .. eom

\* A message that is only typed and corrected with Backspace is in the window
\* character by character, across the ends of the rows, and is counted exactly;
\* the limit is never passed.  (Of a character that is typed into the last cell
\* of the window nothing is counted.)
PlainTypingIsExact ==
  plain => /\ eom = Len(text) /\ cursor = eom
           /\ eom <= eob
           /\ SubSeq(cells, 1, eom) = text

-----------------------------------------------------------------------------
(* The inductive invariant: the properties above need each other. *)

\* Without a window there is no room for a message.
NoWindowNoRoom == size = NoWindow => eob = 0

\* What every key and every new size of the terminal preserves.
InputInvariant ==
  /\ TypeOK
  /\ NoWindowNoRoom
  /\ IndexFollowsCursor
  /\ CursorStaysInText
  /\ PlainTypingIsExact
=============================================================================
