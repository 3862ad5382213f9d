SPECIFICATION Spec
CONSTANTS
  s1 = s1  s2 = s2  r1 = r1  r2 = r2  k = k
  a = a  b = b
  NULL = NULL  Zero = Zero  Garbage = Garbage
  Threads = {s1, s2, r1, r2, k}
  Chans = {a}
  Cap <- Cap2
  Program <- BothRoles
  MaxCalls <- TwoCalls
  Contract = "drained"
SYMMETRY RoleSymmetry
INVARIANTS WaitersInv RingInv OneSignal NoneForgotten
PROPERTY Refines
CHECK_DEADLOCK FALSE
