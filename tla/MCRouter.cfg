SPECIFICATION RouterSpec
CONSTANTS
  NShards = 2
  Positions <- Strip
  MaxLevel = 1
  SplitAt = 1
  Cap = 2
  CapRate = 1
  Rates = {0, 1}
  MaxClaims = 5
INVARIANTS
  TreeClosed
PROPERTIES
  SplitsInvisible
  TerritoryPermanent
