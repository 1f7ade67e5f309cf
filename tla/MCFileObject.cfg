SPECIFICATION Spec
CONSTANTS
  Files = {f1, f2, f3}
  Numbers = {n1, n2}
  Objects = {p, q, a}
  Accepters = {a}
  Ops = {op1, op2}
  Null = null
SYMMETRY Interchangeable
INVARIANTS
  TypeOK
  DescriptorValid
  OutstandingCounts
  ExecutorsHeld
PROPERTY
  ImplementsAsyncOperation
CHECK_DEADLOCK FALSE
