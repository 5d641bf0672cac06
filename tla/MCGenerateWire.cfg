SPECIFICATION Spec
CONSTANTS
  Adsb <- MCNone
  ModesOnly <- MCBoth
  Second = 2
  Period = 5
  PairWindow = 4
  Mod = 64
  Starts <- MCNoWrap
  Gaps <- MCGaps
  Ranges <- MCRanges
  Jump = 1
  Delays <- MCDelays
  MaxBroadcasts = 4
  MaxJumps = 0
CHECK_DEADLOCK FALSE
INVARIANT WireMonotone
