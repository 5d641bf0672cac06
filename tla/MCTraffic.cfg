SPECIFICATION Spec
CONSTANTS
  p = p
  q = q
  Aircraft <- Planes
  UpCap = 1
  DownCap = 1
  MaxSessions = 2
CHECK_DEADLOCK FALSE
INVARIANTS
  RequestsOfThisSession
  RequestsAccounted
PROPERTY OffersReachServer
