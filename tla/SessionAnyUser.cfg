SPECIFICATION Spec
CONSTANTS
  Size = 4
  SockBuf = 3
  Chunk = 2
  RecvMax = 3
  HandshakeRoom = 1
  MaxRuns = 4
  AckInTime = TRUE
  CarefulUser = FALSE
INVARIANT NoMisplacedByte
CHECK_DEADLOCK FALSE
