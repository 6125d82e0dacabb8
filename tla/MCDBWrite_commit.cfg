SPECIFICATION Spec
CONSTANTS
  Clients = {c1, c2, c3}
  BG = BG
  Free = Free
  MaxCalls = 3
  WriteBuffer = 1
  L0Trigger = 1
  L0Slowdown = 1
  L0Stop = 1
  MaxInitL0 = 0
  MaxDeep = 1
  MaxPasses = 0
  Faults = {"append", "sync", "newlog", "build", "manifest"}
SYMMETRY Symmetry
INVARIANTS
  TypeOK
  LeaderIsFront
  ExactlyOnce
  SyncedIsDurable
  NoOrphanWaiter
  NoLostSignal
PROPERTY
  SnapshotStable
