SPECIFICATION FairSpec
CONSTANTS
  Size = 9
  Records <- MCRecords
  MaxReads = 3
CHECK_DEADLOCK FALSE
INVARIANTS
  TypeOK
  FramingIsExact
  NullIsEmpty
PROPERTY
  DrainEnds
