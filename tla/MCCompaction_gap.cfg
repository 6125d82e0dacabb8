SPECIFICATION Spec
CONSTANTS
  MaxKey = 3
  NumLevels = 3
  MaxMemLevel = 2
  MaxSeq = 5
  Deletes = {FALSE}
  Loads <- GapLoads
  TooLarge = {FALSE}
CHECK_DEADLOCK FALSE
INVARIANT
  LevelsDisjoint
