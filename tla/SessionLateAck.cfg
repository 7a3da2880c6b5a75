SPECIFICATION Spec
CONSTANTS
  Size = 4
  SockBuf = 3
  Chunk = 2
  RecvMax = 3
  HandshakeRoom = 1
  MaxRuns = 3
  AckInTime = FALSE
  CarefulUser = TRUE
INVARIANT SwallowedNeverFinishes
CHECK_DEADLOCK FALSE
