SPECIFICATION Spec
CONSTANTS
  Completions = {c1}
  Objects = {i1}
  Ops = {o1, o2}
  Null = null
  MaxIovs = 0
  MaxSubmitFailures = 1
  RunsAfterShutdown = FALSE
INVARIANT CompleteFindsItsFunction
