SPECIFICATION Spec
CONSTANTS
  Producers = {p1, p2}
  Consumer = consumer
  Nodes = {n1, n2, n3, n4}
  Null = null
  MaxEmplace = 3
SYMMETRY Interchangeable
INVARIANTS
  TypeOK
  ListsWellFormed
  OneOwner
  ValuesLive
  EveryValueAnnounced
PROPERTY ImplementsCountedQueue
