SPECIFICATION Spec
CONSTANTS
  Completions = {c1, c2, c3}
  Objects = {i1, i2}
  Ops = {o1, o2}
  Null = null
  MaxIovs = 2
  MaxSubmitFailures = 1
  RunsAfterShutdown = TRUE
SYMMETRY Interchangeable
INVARIANTS
  TypeOK
  OneList
  WorkHeld
  CompletesItsOwn
  ReleasedOnce
