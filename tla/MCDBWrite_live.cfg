SPECIFICATION FairSpec
CONSTANTS
  Clients = {c1, c2}
  BG = BG
  Free = Free
  MaxCalls = 3
  WriteBuffer = 1
  L0Trigger = 1
  L0Slowdown = 1
  L0Stop = 1
  MaxInitL0 = 0
  MaxDeep = 0
  MaxPasses = 1
  Faults = {"sync"}
INVARIANTS
  NoOrphanWaiter
PROPERTY
  CallsReturn
