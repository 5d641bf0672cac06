SPECIFICATION Spec
CONSTANTS
  Adsb <- MCAdsb
  ModesOnly <- MCModesOnly
  Second = 2
  Period = 5
  PairWindow = 4
  Mod = 64
  Starts <- MCStarts
  Gaps <- MCGaps
  Ranges <- MCRanges
  Jump = 1
  Delays <- MCDelays
  MaxBroadcasts = 4
  MaxJumps = 1
CHECK_DEADLOCK FALSE
INVARIANTS
  FramedWhole
  NoSilence
  SyncHonest
