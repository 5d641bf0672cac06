SPECIFICATION Spec
CONSTANTS
  Mod = 6
  WrapMargin = 3
  ResetBackward = 1
  MaxPair = 2
  Gaps = {0, 2}
  QueueCap = 1
  MinWeight = 2
  Window = 2
  ResetAfter = 3
  MaxEpochs = 2
  MaxFaults = 2
INVARIANTS
  SyncOfOneClock
  ResetIsClean
PROPERTIES
  SpikesTolerated
  Relearns
