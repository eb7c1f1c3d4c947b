SPECIFICATION Spec
CONSTANTS
  NULL = NULL
  n1 = n1
  n2 = n2
  n3 = n3
  x = x
  y = y
  p1 = p1
  p2 = p2
  w1 = w1
  w2 = w2
  Nodes = {n1, n2, n3}
  Objects = {x, y}
  Producers = {p1, p2}
  Waiters = {w1, w2}
  MaxPushes = 4
  AllocMayFail = TRUE
  Spurious = TRUE
CHECK_DEADLOCK FALSE
INVARIANTS
  TypeOK
  ChainOwnsNodes
  ChainIsSound
  NoLostWakeup
PROPERTIES
  ImplementsFIFO
