SPECIFICATION TestSpec
CONSTANTS
  s1 = s1  s2 = s2  r1 = r1  r2 = r2  k = k
  a = a  b = b
  NULL = NULL  Zero = Zero  Garbage = Garbage
  Threads = {s1, s2, r1, r2, k}
  Chans = {a}
  Cap <- Cap2
  Program <- Roles
  MaxCalls <- UntilClosed
  Contract = "drained"
PROPERTIES ParkedReturns BufferDrains ClosedReturns
CHECK_DEADLOCK FALSE
