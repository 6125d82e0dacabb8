SPECIFICATION Spec
CONSTANTS
  Readers = {r1}
  MaxWrites = 2
  MaxFile = 8
  MaxEdits = 4
  MaxCrashes = 1
  Created = FALSE
  Faults = {"append", "sync", "build", "manifest", "torn", "recover"}
CHECK_DEADLOCK FALSE
INVARIANTS
  LiveFilesExist
  OpenableIfWhole
  SequenceUnique
