SPECIFICATION Spec
CONSTANTS
  Clients = {c1, c2}
  Accepts = {a1}
  Backlog = 1
  Null = null
INVARIANT ConnectTruthful
CHECK_DEADLOCK FALSE
