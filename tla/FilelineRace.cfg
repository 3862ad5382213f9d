SPECIFICATION Spec
CONSTANTS
  Threads = {"t1", "t2"}
  Format = "coff"
  Depth = 4
  Skips = {0, 1}
INVARIANT NeverCallsNull
