SPECIFICATION BeastSpec
CONSTANTS
  Want <- MCWant
  DataBytes <- MCDataBytes
  MaxBytes = 9
  MaxNoise = 3
  MaxConns = 2
CHECK_DEADLOCK FALSE
INVARIANTS
  ChunksDoNotMatter
  HandsOnWhatWasSent
  KeepsLessThanAMessage
