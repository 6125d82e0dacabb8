SPECIFICATION Spec
CONSTANTS
  Keys = {1, 2, 3}
  Threads = {t1, t2, t3}
  Hash <- SmallHash
  Charge <- SmallCharge
  Capacity = 3
  MinLength = 2
  MaxHandles = 6
SYMMETRY ThreadSymmetry
CHECK_DEADLOCK FALSE
INVARIANTS
  TypeOK
  RefsExact
  TableMatchesList
  UsageExact
  NoDeletedTable
