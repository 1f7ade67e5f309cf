SPECIFICATION Spec
CONSTANTS
  Main = main
  Workers = {w1, w2}
  Ops = {o1}
  MaxWork = 2
  MaxSubmitFailures = 1
SYMMETRY Interchangeable
INVARIANTS
  TypeOK
  QueueAccounting
  WorkAccounting
  OnePoll
  ReadsDontBlock
  NoLostStop
  NoLostZero
  WaitsWatched
  Assertions
