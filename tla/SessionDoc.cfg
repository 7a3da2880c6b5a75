SPECIFICATION Spec
CONSTANTS
  Size = 2
  SockBuf = 3
  Chunk = 2
  RecvMax = 3
  HandshakeRoom = 1
  MaxRuns = 2
  AckInTime = TRUE
  CarefulUser = TRUE
INVARIANT ServerSendsDocumented
CHECK_DEADLOCK FALSE
