SPECIFICATION Spec
CONSTANTS
  s1 = s1  s2 = s2  r1 = r1  r2 = r2  k = k
  a = a  b = b
  NULL = NULL  Zero = Zero  Garbage = Garbage
  Threads = {s1, r1, k}
  Chans = {a}
  Cap <- Cap1
  Program <- Roles
  MaxCalls <- TwoCalls
  Contract = "docs"
INVARIANTS TrueMeansMessage
CHECK_DEADLOCK FALSE
