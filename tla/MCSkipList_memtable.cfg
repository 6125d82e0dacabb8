SPECIFICATION Spec
CONSTANTS
  Keys = {1, 2}
  Readers = {r1}
  MaxHeight = 3
  MaxNode = 3
  MaxBatch = 2
INVARIANTS
  TypeOK
  NoneSkipped
  SnapshotRead
