SPECIFICATION Spec
CONSTANTS
  Storages = {s1, s2, s3}
  Blocks = {b1, b2}
  Null = null
SYMMETRY Interchangeable
INVARIANTS
  TypeOK
  MemoryAccounted
  FreedBeforeCall
