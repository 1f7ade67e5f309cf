SPECIFICATION Spec
CONSTANTS
  Ops = {op1, op2}
  Shapes <- SomeShapes
  Supply = 3
  Room = 2
  Null = null
INVARIANTS
  TypeOK
  BuffersInOrder
  ReportsTruthfully
PROPERTY
  AttemptEnds
CHECK_DEADLOCK FALSE
