SPECIFICATION FairSpec
CONSTANTS
  None = None
  w1 = w1
  w2 = w2
  c1 = c1
  t1 = t1
  t2 = t2
  Workers = {w1, w2}
  Callers = {c1}
  Tasks = {t1, t2}
  Endless = {}
PROPERTIES DestroyEnds
CHECK_DEADLOCK FALSE
