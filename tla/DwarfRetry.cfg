SPECIFICATION Spec
CONSTANTS
  Threads = {t1}
  Top = 99
  PCs = {5}
INVARIANT BetterUnitTried
CHECK_DEADLOCK FALSE
