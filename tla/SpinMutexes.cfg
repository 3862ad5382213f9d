SPECIFICATION FairSpec
CONSTANTS
  Threads = {t1, t2, t3}
  MaxLocks = 2
  Tries = 2
  Wrap = 4
  NULL = NULL
INVARIANTS MutualExclusion WaitersCounted NoLostWakeup
PROPERTIES AllDoneInOrder IsMutex
CHECK_DEADLOCK FALSE
