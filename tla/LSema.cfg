SPECIFICATION FairSpec
CONSTANTS
  w1 = w1  w2 = w2  w3 = w3  p = p
  Threads = {w1, w2, w3, p}
  Program <- Mixed
  MaxCalls <- Calls
  MaxSignal = 2
  InitCount = 0
INVARIANT PermitsInv
PROPERTIES IsSemaphore Served
CHECK_DEADLOCK FALSE
