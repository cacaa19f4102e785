CONSTANTS
  t1 = t1  t2 = t2  t3 = t3  p1 = p1
  NoOwner = NoOwner
  Granted = Granted
  Threads = {t1, t2, t3}
  Pointers = {}
  Waits = {TRUE}
  Kinds = {"Lite", "WaitForExclusive"}
  MaxCount = 1
SPECIFICATION FairSpec
PROPERTY WaiterServed
CHECK_DEADLOCK FALSE
