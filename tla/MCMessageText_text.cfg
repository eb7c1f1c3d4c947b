SPECIFICATION Spec
CONSTANTS
  Char <- MCChar
  Texts <- MCTexts
  Nick <- MCNick
  Size = 10
  MaxNick = 2
CHECK_DEADLOCK FALSE
INVARIANTS
  TypeOK
  AuthorIsSender
  PlainTextArrives
