CONSTANTS
  t1 = t1  t2 = t2  t3 = t3  ne = ne  se = se  sm = sm  mu = mu  mx = mx
  NoObject = NoObject
  NoThread = NoThread
  Kind <- KindOf
  Limit <- LimitOf
  Threads = {t1, t2, t3}
  Objects = {mx}
  Mutexes = {mx}
  Calls <- MutexCalls
  Adjustments = {1}
  AlertModes = {}
  Apcs = {}
  MINLONG <- TwoBits
SPECIFICATION FairSpec
PROPERTY MutantGranted
CHECK_DEADLOCK FALSE
