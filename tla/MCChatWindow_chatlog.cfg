SPECIFICATION Spec
CONSTANTS
  HASH_SIZE = 2
  NoValue = NoValue
  kMaxCachedLines = 3
  Users <- MCUsers
  Content <- MCContent
  Heights = {2, 3}
  Widths = {2, 4}
  Colors = 2
  MaxLogged = 5
CHECK_DEADLOCK FALSE
INVARIANTS
  TypeOK
  LogIsTail
  LiveShowsTail
  BrowsedPageExists
  ColorsAreKept
PROPERTIES
  PagingIsContiguous
