CONSTANTS
  t1 = t1  t2 = t2  t3 = t3  p1 = p1
  NoOwner = NoOwner
  Granted = Granted
  Threads = {t1, t2, t3}
  Pointers = {p1}
  Waits = {TRUE, FALSE}
  Kinds = {"Lite", "Starve", "WaitForExclusive"}
  MaxCount = 2
SPECIFICATION Spec
SYMMETRY ResourceSymmetry
INVARIANTS TypeOK OwnersExact GrantsExact BoostSafe
PROPERTY ImplementsRWLock
CHECK_DEADLOCK FALSE
