SPECIFICATION FairSpec
CONSTANTS
  Nodes = {n1, n2, n3}
  Head = Head
  Tasks = {t1, t2, t3}
  Sends = 2
INVARIANTS TypeOK ListIntact EndedOnce
PROPERTY EveryTaskEnds
CHECK_DEADLOCK FALSE
