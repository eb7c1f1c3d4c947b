SPECIFICATION Spec
CONSTANTS
  Chars = {"a", "b"}
  Blank = Blank
  Sizes <- MCSizes
  Length = 6
  MaxEom = 7
CHECK_DEADLOCK FALSE
INVARIANTS
  IndexFollowsCursor
  CursorStaysInText
  PlainTypingIsExact
