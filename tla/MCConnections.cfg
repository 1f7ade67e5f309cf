SPECIFICATION Spec
CONSTANTS
  Clients = {c1, c2}
  Accepts = {a1, a2}
  Backlog = 1
  Null = null
INVARIANTS
  TypeOK
  EachDeliveredOnce
  AttemptTruthful
PROPERTY
  OperationsComplete
CHECK_DEADLOCK FALSE
