CONSTANTS
  c = c  s = s
  None = None
  Threads = {c, s}
  Handles <- EachSide
  MaxId = 4
SPECIFICATION Spec
INVARIANTS TypeOK ReplyMatches NobodyStranded NotDeletedInUse
CHECK_DEADLOCK FALSE
