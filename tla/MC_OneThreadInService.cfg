SPECIFICATION Spec
CONSTANTS
  Files = {f1}
  Numbers = {n1}
  Objects = {a}
  Accepters = {a}
  Ops = {op1, op2}
  Null = null
SYMMETRY Interchangeable
INVARIANT OneThreadInService
CHECK_DEADLOCK FALSE
