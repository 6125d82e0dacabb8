SPECIFICATION Spec
CONSTANTS
  Readers = {}
  MaxWrites = 2
  MaxFile = 9
  MaxEdits = 3
  MaxCrashes = 2
  Created = TRUE
  Faults = {"sync", "build", "manifest"}
CHECK_DEADLOCK FALSE
INVARIANTS
  TypeOK
  Openable
  SyncedSurvives
  VisibleIsRecoverable
  ReadsSeeAcked
  SequenceUnique
PROPERTY
  StoreSpec
