SPECIFICATION FairSpec
CONSTANTS
  Main = main
  Workers = {w1}
  Ops = {o1}
  MaxWork = 2
  MaxSubmitFailures = 0
PROPERTIES
  StopReturns
  ZeroReturns
  PostedRuns
  UsesCountedQueue
