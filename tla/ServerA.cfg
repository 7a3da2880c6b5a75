SPECIFICATION FairSpec
CONSTANTS
  Clients = {c1, c2}
  Limits = {2, 4}
  Bytes = 2
  Pools = {1, 2}
INVARIANTS TypeOK OwnBytes
PROPERTIES EveryClientServed WaitsOnlyForKept ImplementsTransfers
CHECK_DEADLOCK FALSE
