SPECIFICATION Spec
CONSTANTS
  NShards = 2
  Positions <- Sites
  MaxLevel = 1
  SplitAt = 0
  Cap = 2
  CapRate = 1
  Rates = {0, 1}
  MaxClaims = 3
  a1 = a1
  a2 = a2
  c1 = c1
  Conns = {a1, a2, c1}
  UserOf <- Who
  PosOf <- Where
CHECK_DEADLOCK FALSE
INVARIANTS
  ReconnectSurvives
  SlotsHaveHolders
  CountsPairUp
PROPERTY SlotsReturned
