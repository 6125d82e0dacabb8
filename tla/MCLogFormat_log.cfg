SPECIFICATION Spec
CONSTANTS
  BlockSize = 15
  Sizes = {0, 1, 2, 18}
  MaxRecords = 3
  MaxFaults = 1
  Tails = {0, 3, 20}
  Offsets = {0, 5, 11, 15}
CHECK_DEADLOCK FALSE
INVARIANTS
  TypeOK
  WholeRecordsRead
  DamageContained
  NeverGlued
  SkippedOnce
PROPERTIES
  ReaderEnds
