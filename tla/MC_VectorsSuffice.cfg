SPECIFICATION Spec
CONSTANTS
  Completions = {c1}
  Objects = {i1}
  Ops = {o1}
  Null = null
  MaxIovs = 2
  MaxSubmitFailures = 0
  RunsAfterShutdown = FALSE
INVARIANT VectorsSuffice
