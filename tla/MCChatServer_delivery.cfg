SPECIFICATION Spec
CONSTANTS
  Null = Null
  c1 = c1
  c2 = c2
  n1 = n1
  n2 = n2
  Clients = {c1, c2}
  Nicks = {n1, n2}
  MaxConnections = 2
  MaxReads = 0
  Reads <- NoReads
  Flaky = {c1, c2}
  Observed = {c1, c2}
CHECK_DEADLOCK FALSE
SYMMETRY Symmetry
INVARIANTS
  SlotsBelongToThreads
  EmptyListHasNoCursor
  OnlyAuthenticatedReceive
  DeliveryOrder
  ExactDelivery
