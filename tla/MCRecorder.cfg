SPECIFICATION Spec
CONSTANTS
  Conns <- MCConns
  MaxUp <- MCMaxUp
  MaxDown <- MCMaxDown
  Duration = 1
CHECK_DEADLOCK FALSE
INVARIANTS
  RecordedFirst
  CaptureWhole
