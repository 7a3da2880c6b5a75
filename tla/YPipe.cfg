SPECIFICATION FairSpec
CONSTANTS
  N = 2
  Chunks = {k1, k2, k3, k4, k5}
  Null = Null
  MaxItems = 6
INVARIANTS TypeOK ChunksOwnedOnce AddressTellsPlace NullMeansDrained
PROPERTY ImplementsFifo
