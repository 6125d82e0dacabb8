SPECIFICATION Spec
CONSTANTS
  UserKeys = {2, 4, 6}
  Layouts <- SmallLayouts
  Interval = 2
  MaxSeq = 4
INVARIANTS
  TypeOK
  CursorCorrect
  Positioned
