SPECIFICATION Spec
CONSTANTS
  MaxKey = 1
  NumLevels = 3
  MaxMemLevel = 1
  MaxSeq = 3
  Deletes = {TRUE, FALSE}
  Loads <- SplitLoads
  TooLarge = {TRUE, FALSE}
CHECK_DEADLOCK FALSE
INVARIANT
  NewerAbove
