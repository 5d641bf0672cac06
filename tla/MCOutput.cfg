SPECIFICATION Spec
CONSTANTS
  NShards = 2
  Positions <- Border
  MaxLevel = 0
  SplitAt = 1
  Cap = 1
  CapRate = 1
  Rates = {0}
  MaxClaims = 1
  Aircraft = {1}
  Times = {1, 2}
  MaxSkew = 1
  BucketLen = 2
  OutCap = 2
  RecentCap = 1
  RingCap = 1
  Readers = {1}
CHECK_DEADLOCK FALSE
INVARIANTS
  TwinsApart
  StreamsHaveNoGap
  ClaimedGroundOnce
