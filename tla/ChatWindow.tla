----------------------------- MODULE ChatWindow ------------------------------
(***************************************************************************)
(* The chat log window of the client (src/client/uichat.c, uilog.c) and    *)
(* the keys of UIInputLoop that page through it: a bounded cache of log    *)
(* entries, two display modes, and a dictionary of user colours that       *)
(* redrawing fills and departures shrink.                                  *)
(*                                                                         *)
(* The code counts pages in entries, and ncurses wraps an entry that is    *)
(* longer than a row and scrolls: what was written and what is still seen  *)
(* are told apart.  A character takes one column.  Entries have a serial   *)
(* number that the code does not have.                                     *)
(***************************************************************************)
EXTENDS HashTable

CONSTANTS
  kMaxCachedLines,
  Users,      \* the nicknames that appear in messages, as hash keys
  Content,    \* the messages that are logged
  Heights,    \* the rows of the window in the terminals that are big enough
  Widths,     \* their columns
  Colors,     \* UIColor_getCount(), without extended colours
  MaxLogged   \* bound: messages logged

ASSUME CacheAssumption == kMaxCachedLines \in Nat \ {0}
ASSUME UsersAssumption == IsFiniteSet(Users) /\ \A user \in Users : user \in Seq(Int)

\* What the window tells apart: a /msg of a user, the /log entry of a user who
\* leaves, and the other entries (/ok, /err, other /log), which have no effect
\* on the colours; and how many characters are written, with the time stamp and
\* the nickname.
ASSUME ContentAssumption ==
  Content \subseteq [type : {"msg", "left"}, user : Users, length : Nat]
                      \cup [type : {"other"}, length : Nat]

ASSUME HeightsAssumption == Heights \subseteq Nat \ {0, 1}
ASSUME WidthsAssumption == Widths \subseteq Nat \ {0}
ASSUME ColorsAssumption == Colors \in Nat \ {0} /\ NoValue \notin 0 .. Colors
ASSUME LoggedAssumption == MaxLogged \in Nat

VARIABLES
  chatlog,      \* the cached entries, oldest first
  mode,         \* kChatWinModeLive ("live") or kChatWinModeBrowse ("browse")
  currentLine,  \* the index in chatlog where the browsed page starts
  lines,        \* the rows of the window, 0 before it has been created
  cols,         \* its columns
  users,        \* the dictionary of user colours
  nextColor,    \* the static variable of GetUserColor
  window,       \* the last entries written since the window was cleared, as
                \* many as it has rows; the first may have scrolled off
  logged,       \* history: the number of messages logged
  colorOf,      \* history: the colour each user must have by now
  drawnAt,      \* history: the entries evicted before the window was drawn
  destroyed     \* UIChatWin_destroy has been called

displayVars == <<mode, currentLine, lines, cols>>
colorVars == <<users, nextColor, colorOf>>
vars == <<chatlog, displayVars, colorVars, window, logged, drawnAt,
             destroyed>>

Entry == [id : 1 .. MaxLogged, content : Content]

\* The dictionary of user colours.
ColorTable == [hash : [Rows -> Seq([key : Users, value : 0 .. Colors])], length : Nat]

\* The types of the variables of uichat.c and of the histories.
TypeOK ==
  /\ chatlog \in Seq(Entry)
  /\ mode \in {"live", "browse"}
  /\ currentLine \in Nat
  /\ lines \in Heights \cup {0}
  /\ cols \in Widths
  /\ users \in ColorTable
  /\ nextColor \in -1 .. Colors
  /\ window \in Seq(Entry)
  /\ logged \in 0 .. MaxLogged
  /\ colorOf \in [Users -> 0 .. Colors \cup {NoValue}]
  /\ drawnAt \in Nat
  /\ destroyed \in BOOLEAN

\* UIInit: the window exists only if the terminal is big enough.
Init ==
  /\ chatlog = <<>>
  /\ mode = "live"
  /\ currentLine = 0
  /\ lines \in Heights \cup {0}
  /\ cols \in Widths
  /\ users = Hash_new
  /\ nextColor = -1
  /\ window = <<>>
  /\ logged = 0
  /\ colorOf = [u \in Users |-> NoValue]
  /\ drawnAt = 0
  /\ destroyed = FALSE

-----------------------------------------------------------------------------
(* Drawing: UIChatWin_write, UIChatWin_updateContent. *)

\* The last row is left free, because writing on it scrolls the window.
PageSize(height) == IF height = 0 THEN 0 ELSE height - 1

LastOf(s, n) == IF Len(s) > n THEN SubSeq(s, Len(s) - n + 1, Len(s)) ELSE s

Evicted == logged - Len(chatlog)

\* The rows of the entries from the i-th on: wprintw wraps after the last column,
\* and the new line at the end of an entry always takes it to another row.
RowsFrom(entries, i) ==
  LET rows[n \in 0 .. Len(entries)] ==
        IF n < i THEN 0
                 ELSE rows[n - 1] + entries[n].content.length \div cols + 1
  IN  rows[Len(entries)]

\* All of the entries can be seen at once.
Fits(entries) == RowsFrom(entries, 1) <= PageSize(lines)

\* The entries that are left on the window as a whole when all were written.
Seen(entries) ==
  LET first == Min({i \in 1 .. Len(entries) + 1 : RowsFrom(entries, i) <= PageSize(lines)})
  IN  SubSeq(entries, first, Len(entries))

\* The state of the colours: the dictionary, nextColor, and the history.
Palette == [users |-> users, next |-> nextColor, of |-> colorOf]

\* GetUserColor: a user keeps the colour that the dictionary has, and a new one
\* gets the next; after the last colour the next one is chosen at random.
GetUserColor(p, user, random) ==
  LET next == IF p.next < 0 THEN random ELSE p.next
  IN  IF Hash_getValue(p.users, user) # NoValue
      THEN [p EXCEPT !.next = next]
      ELSE [users |-> Hash_set(p.users, user, next),
            next  |-> IF next + 1 > Colors THEN -1 ELSE next + 1,
            of    |-> [p.of EXCEPT ![user] = IF @ = NoValue THEN next ELSE @]]

\* UIChatWin_write asks for a colour for a /msg only.
PaintOne(p, entry, random) ==
  IF entry.content.type = "msg" THEN GetUserColor(p, entry.content.user, random) ELSE p

\* The palette when the entries have been written, top to bottom; random has
\* what rand() would return at each of them.
Paint(p, entries, random) ==
  LET painted[n \in 0 .. Len(entries)] ==
        IF n = 0 THEN p ELSE PaintOne(painted[n - 1], entries[n], random[n])
  IN  painted[Len(entries)]

\* The numbers that rand() % colors may give while the entries are written.
Randoms(entries) == [DOMAIN entries -> 0 .. (Colors - 1)]

SetPalette(p) == users' = p.users /\ nextColor' = p.next /\ colorOf' = p.of

\* The entries of UIChatWin_updateContent: the tail of the log, or the page
\* that starts at currentLine, as far as the log goes.
PageAt(newMode, line, height) ==
  IF newMode = "live"
  THEN LastOf(chatlog, PageSize(height))
  ELSE SubSeq(chatlog, line + 1,
              IF line + PageSize(height) >= Len(chatlog) THEN Len(chatlog)
                                                         ELSE line + PageSize(height))

\* UIChatWin_updateContent, which leaves the window alone if the log is empty.
UpdateContent(newMode, line, height) ==
  IF chatlog = <<>>
  THEN UNCHANGED <<window, colorVars, drawnAt>>
  ELSE LET page == PageAt(newMode, line, height)
       IN  /\ window' = page
           /\ drawnAt' = Evicted
           /\ \E random \in Randoms(page) : SetPalette(Paint(Palette, page, random))

-----------------------------------------------------------------------------
(* Messages: UIChatWin_logMessage. *)

\* Mutant: the newest entry is deleted at the limit.
Cache_KeepsOldest(entry) ==
  IF Len(chatlog) >= kMaxCachedLines THEN chatlog ELSE Append(chatlog, entry)

\* List_append, then List_delete of the oldest entry beyond the limit.
Cache(entry) ==
  LET longer == Append(chatlog, entry)
  IN  IF Len(longer) > kMaxCachedLines THEN Tail(longer) ELSE longer

\* The user of a departure is taken out of the dictionary.
Forget(p, entry) ==
  LET user == entry.content.user
  IN  IF entry.content.type = "left"
      THEN [p EXCEPT !.users = Hash_delete(p.users, user), !.of[user] = NoValue]
      ELSE p

\* UIChatWin_logMessage of a message with a text (an empty one is dropped), for
\* a window that App_updateHandler is called for.
LogMessage(content) ==
  /\ lines > 0
  /\ logged < MaxLogged
  /\ LET entry   == [id |-> logged + 1, content |-> content]
         forgot  == Forget(Palette, entry)
         visible == IF mode = "live" THEN <<entry>> ELSE <<>>
     IN  /\ chatlog' = Cache(entry)
         /\ logged' = entry.id
         /\ window' = LastOf(window \o visible, PageSize(lines))
         /\ \E random \in Randoms(visible) : SetPalette(Paint(forgot, visible, random))
         /\ drawnAt' = IF mode = "live" THEN entry.id - Len(chatlog') ELSE drawnAt
  /\ UNCHANGED displayVars

-----------------------------------------------------------------------------
(* The keys of UIInputLoop for this window, and UIChatWin_render. *)

\* Mutant: the page does not follow the mode.
SetMode_NoUpdate(newMode) ==
  /\ mode' = newMode
  /\ currentLine' = IF newMode = "browse" /\ Len(chatlog) > lines
                    THEN Len(chatlog) - lines ELSE currentLine
  /\ UNCHANGED <<chatlog, lines, cols, logged, window, colorVars, drawnAt>>

\* UIChatWin_setMode, for a mode that is new.  A log that fits the window
\* leaves currentLine where the last visit left it.
SetMode(newMode) ==
  /\ mode' = newMode
  /\ currentLine' =
       CASE newMode = "browse" /\ Len(chatlog) > lines -> Len(chatlog) - lines
         [] newMode = "live" /\ chatlog # <<>> -> Len(chatlog) - 1
         [] OTHER -> currentLine
  /\ UpdateContent(newMode, currentLine', lines)
  /\ UNCHANGED <<chatlog, lines, cols, logged>>

\* Page Up in live mode.
KeyBrowse == mode = "live" /\ SetMode("browse")

\* ESC in browse mode.
KeyLive == mode = "browse" /\ SetMode("live")

\* Mutant: the beginning of the log is no limit.
PreviousPage_NoStart ==
  /\ mode = "browse"
  /\ currentLine' = currentLine - PageSize(lines)
  /\ UpdateContent(mode, 0, lines)
  /\ UNCHANGED <<chatlog, mode, lines, cols, logged>>

\* Page Up in browse mode: UIChatWin_previousPage
PreviousPage ==
  /\ mode = "browse"
  /\ currentLine' = IF currentLine < PageSize(lines) THEN 0
                                                     ELSE currentLine - PageSize(lines)
  /\ UpdateContent(mode, currentLine', lines)
  /\ UNCHANGED <<chatlog, mode, lines, cols, logged>>

\* Mutant: nothing stops at the end of the log.
NextPage_NoEnd ==
  /\ mode = "browse"
  /\ currentLine' = currentLine + PageSize(lines)
  /\ UpdateContent(mode, currentLine', lines)
  /\ UNCHANGED <<chatlog, mode, lines, cols, logged>>

\* Mutant: the page moves by the rows of the window, not by what they show.
NextPage_ByRows ==
  /\ mode = "browse"
  /\ currentLine < Len(chatlog) - lines
  /\ currentLine' = currentLine + lines
  /\ UpdateContent(mode, currentLine', lines)
  /\ UNCHANGED <<chatlog, mode, lines, cols, logged>>

\* Page Down in browse mode: UIChatWin_nextPage
NextPage ==
  /\ mode = "browse"
  /\ currentLine < Len(chatlog) - PageSize(lines)
  /\ currentLine' = LET line == currentLine + PageSize(lines)
                    IN  IF line > Len(chatlog) THEN line - (Len(chatlog) - 1) ELSE line
  /\ UpdateContent(mode, currentLine', lines)
  /\ UNCHANGED <<chatlog, mode, lines, cols, logged>>

\* UIChatWin_render in a terminal of a new size that is big enough.
RenderChat(height) ==
  /\ lines' = height
  /\ cols' \in Widths
  /\ UpdateContent(mode, currentLine, height)
  /\ UNCHANGED <<chatlog, mode, currentLine, logged>>

Running ==
  \/ \E content \in Content : LogMessage(content)
  \/ KeyBrowse \/ KeyLive \/ PreviousPage \/ NextPage
  \/ \E height \in Heights : RenderChat(height)

\* UIChatWin_destroy: the log is freed entry by entry, the dictionary by its
\* count.
Destroy ==
  /\ users' = Hash_purge(users)
  /\ destroyed' = TRUE
  /\ UNCHANGED <<chatlog, displayVars, nextColor, colorOf, window, logged, drawnAt>>

Next ==
  /\ ~destroyed
  /\ \/ Running /\ UNCHANGED destroyed
     \/ Destroy

Spec == Init /\ [][Next]_vars

-----------------------------------------------------------------------------
(* Correctness. *)

\* The cache has the last messages that were logged, in order and without a
\* gap, and never more than kMaxCachedLines of them.
LogIsTail ==
  /\ Len(chatlog) = Min({logged, kMaxCachedLines})
  /\ \A i \in DOMAIN chatlog : chatlog[i].id = Evicted + i

\* In live mode the newest entries of the log are what was written last, down to
\* the newest, also those that came while an older page was browsed or the
\* terminal was resized; entries that wrap push the first of them off.
LiveShowsTail ==
  /\ Len(window) <= PageSize(lines)
  /\ mode = "live" => IsSuffix(LastOf(chatlog, PageSize(lines)), window)

\* Wherever paging, eviction of old entries and resizing leave currentLine, the
\* page that UIChatWin_updateContent draws from it in browse mode is not empty.
BrowsedPageExists ==
  mode = "browse" /\ chatlog # <<>> => currentLine < Len(chatlog)

\* The dictionary of colours is what GetUserColor and departures make of it,
\* whatever keys collide: each user has one colour from the first entry on the
\* window until the departure.  And its count is right, so that when the window
\* is destroyed no node is left behind.
ColorsAreKept ==
  IF destroyed THEN \A i \in Rows : users.hash[i] = <<>>
               ELSE IsDictionary(users, colorOf)

\* Paging moves by one page at most, and no entry falls between what is seen of
\* two pages, as long as the entries of both fit the window.  Exempt are those
\* that, since the page was drawn, the log has evicted under it: the pages are
\* positions in a list that moves.  The code counts entries and not rows, so a
\* page with an entry that wraps may lose its first ones to scrolling.
PagingIsContiguous ==
  [][mode = "browse" /\ mode' = "browse" /\ <<lines, cols>>' = <<lines, cols>>
     /\ window # <<>> /\ window' # window /\ chatlog' = chatlog
     /\ Fits(window) /\ Fits(window') =>
       /\ Seen(window')[1].id <= Seen(window)[1].id + PageSize(lines) + (Evicted - drawnAt)
       /\ Last(Seen(window')).id + 1 >= Seen(window)[1].id]_vars

-----------------------------------------------------------------------------
(* The inductive invariant behind LogIsTail and BrowsedPageExists. *)

\* The page starts in the log, in both modes: what currentLine is when browsing
\* begins may be what the last visit left.
LineIsInLog == currentLine = 0 \/ currentLine < Len(chatlog)

\* Nothing is logged before there is a window, and a window is never lost.
NoWindowNoLog == lines = 0 => chatlog = <<>>

\* What every message, key and size of the terminal preserves.
LogInvariant ==
  /\ chatlog \in Seq(Entry) /\ logged \in 0 .. MaxLogged
  /\ currentLine \in Nat /\ lines \in Heights \cup {0}
  /\ LogIsTail
  /\ LineIsInLog
  /\ NoWindowNoLog

\* What is on the window is of the log, and the page that is browsed starts
\* where currentLine was when it was drawn.
PageIsDrawn ==
  /\ window \in Seq(Entry) /\ mode \in {"live", "browse"}
  /\ drawnAt \in Nat /\ drawnAt <= Evicted
  /\ chatlog = <<>> => window = <<>>
  /\ mode = "browse" /\ window # <<>> => window[1].id = drawnAt + currentLine + 1

\* The invariant behind LiveShowsTail and PagingIsContiguous.
WindowInvariant == LogInvariant /\ PageIsDrawn /\ LiveShowsTail
=============================================================================
