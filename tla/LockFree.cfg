SPECIFICATION MCSpec
CONSTANTS
  t1 = t1  t2 = t2  t3 = t3
  e1 = e1  e2 = e2  e3 = e3
  Threads = {t1, t2, t3}
  First <- Three
  Quotas = {1, 2}
  MaxCalls = 3
  TagWrap = 7
  NULL = NULL
  Cap = 2  MaxPuts = 2  Wrap = 4
INVARIANTS PoolInv QueueInv
PROPERTIES AllReturn IsStack Drains IsQueue
CHECK_DEADLOCK FALSE
