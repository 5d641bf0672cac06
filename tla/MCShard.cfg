SPECIFICATION Spec
CONSTANTS
  Users = {u1, u2, u3}
  Frames = {}
  Squitters = {k1}
  MlatAdsb = TRUE
  MinObs = 2
  MinLearn = 2
  MaxReporters = 2
  GenMod = 4
  MaxAdds = 3
SYMMETRY Symm
INVARIANTS
  OffsetsOfLive
  QuarantineEarned
  FreeListExact
  UserIndexExact
  SlotsBounded
  PairsOfLive
  LiveHandlesOwn
PROPERTIES
  StaleStaysStale
  ImplementsRegistry
