SPECIFICATION Spec
CONSTANTS
  Clients <- MCClients
  Frail <- MCFrail
  Times <- MCTimes
  Compress <- MCCompress
  Speed = 2
  Skew = 1
  T0 = 1
  Length = 1
  ReplyWait = 1
  Drain = 1
  Buffer = 1
  MaxFlight = 1
  MaxTime = 3
CHECK_DEADLOCK FALSE
INVARIANTS
  ScoredWithLeastLag
  ReplayedWhole
PROPERTIES
  NoDrift
  RunEnds
