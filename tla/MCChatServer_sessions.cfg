SPECIFICATION Spec
CONSTANTS
  Null = Null
  c1 = c1
  c2 = c2
  n1 = n1
  Clients = {c1, c2}
  Nicks = {n1}
  MaxConnections = 1
  MaxReads = 1
  Reads <- AllReads
  Flaky = {c1, c2}
  Observed = {}
CHECK_DEADLOCK FALSE
SYMMETRY Symmetry
INVARIANTS
  TypeOK
  ConnectionLimit
  SessionBracketing
