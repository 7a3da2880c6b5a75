SPECIFICATION FairSpec
CONSTANTS
  Clients = {c1, c2}
  Limits = {2, 4}
  Bytes = 2
INVARIANTS TypeOK OwnBytes CutShortHasCause NothingUnseen
PROPERTIES EveryClientServed ImplementsTransfers
CHECK_DEADLOCK FALSE
