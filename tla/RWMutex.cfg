SPECIFICATION BothSpec
CONSTANTS
  Threads = {t1, t2, t3}
  Marks = {2, 4}
  MaxCalls = 2
  MaxPasses = 1
  NULL = NULL
INVARIANTS Exclusion Accounted MutexOwned OnceInv
PROPERTY ReleaseSucceeds AllReturn
CHECK_DEADLOCK FALSE
