SPECIFICATION Spec
CONSTANTS
  Servers = {s1, s2, s3}
  Commands = {c1}
  None = None
CHECK_DEADLOCK FALSE
INVARIANTS
  StartIsExclusive
  RunningIsRecorded
  NothingIsLeft
