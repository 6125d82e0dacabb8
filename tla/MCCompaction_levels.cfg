SPECIFICATION Spec
CONSTANTS
  MaxKey = 3
  NumLevels = 4
  MaxMemLevel = 2
  MaxSeq = 4
  Deletes = {TRUE, FALSE}
  Loads <- LevelLoads
  TooLarge = {TRUE, FALSE}
CHECK_DEADLOCK FALSE
INVARIANTS
  TypeOK
  ReadsCorrect
  LevelsDisjoint
  NewerAbove
