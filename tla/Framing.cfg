SPECIFICATION Spec
CONSTANTS
  Clients = {c1, c2}
  Capacity = 9
INVARIANTS TypeOK OwnFrames
PROPERTY NextFrameFound
CHECK_DEADLOCK FALSE
