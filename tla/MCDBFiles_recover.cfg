SPECIFICATION Spec
CONSTANTS
  Readers = {}
  MaxWrites = 2
  MaxFile = 9
  MaxEdits = 4
  MaxCrashes = 1
  Created = TRUE
  Faults = {"recover"}
CHECK_DEADLOCK FALSE
INVARIANT
  SyncedSurvives
