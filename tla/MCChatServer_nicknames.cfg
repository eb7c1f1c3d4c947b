SPECIFICATION Spec
CONSTANTS
  Null = Null
  c1 = c1
  c2 = c2
  n1 = n1
  Clients = {c1, c2}
  Nicks = {n1}
  MaxConnections = 2
  MaxReads = 0
  Reads <- NoReads
  Flaky = {}
  Observed = {}
CHECK_DEADLOCK FALSE
SYMMETRY Symmetry
INVARIANTS
  UniqueNicknames
