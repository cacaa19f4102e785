CONSTANTS
  c = c  s = s
  None = None
  Threads = {c, s}
  Handles <- EachSide
  MaxId = 2
SPECIFICATION Spec
INVARIANT SignalExists
CHECK_DEADLOCK FALSE
