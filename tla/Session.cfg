SPECIFICATION FairSpec
CONSTANTS
  Size = 4
  SockBuf = 3
  Chunk = 2
  RecvMax = 3
  HandshakeRoom = 1
  MaxRuns = 3
  AckInTime = TRUE
  CarefulUser = TRUE
INVARIANTS TypeOK FinalCorrect SavedPrefixCorrect InductiveInv
PROPERTIES RunEnds ImplementsDelivery
CHECK_DEADLOCK FALSE
