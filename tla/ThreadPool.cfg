SPECIFICATION FairSpec
CONSTANTS
  None = None
  w1 = w1
  w2 = w2
  c1 = c1
  c2 = c2
  t1 = t1
  t2 = t2
  t3 = t3
  Workers = {w1, w2}
  Callers = {c1, c2}
  Tasks = {t1, t2, t3}
  Endless = {t1}
INVARIANTS TypeOK FifoOnce NoEmptyPop NoOversleep
PROPERTIES TaskStarts
CHECK_DEADLOCK FALSE
