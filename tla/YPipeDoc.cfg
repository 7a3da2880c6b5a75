SPECIFICATION Spec
CONSTANTS
  N = 2
  Chunks = {k1, k2, k3, k4}
  Null = Null
  MaxItems = 2
INVARIANT PrefetchNeverNull
