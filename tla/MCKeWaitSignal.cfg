CONSTANTS
  t1 = t1  t2 = t2  t3 = t3  ne = ne  se = se  sm = sm  mu = mu  mx = mx
  NoObject = NoObject
  NoThread = NoThread
  Kind <- KindOf
  Limit <- LimitOf
  Threads = {t1, t2, t3}
  Objects = {ne, se, sm}
  Mutexes = {}
  Calls <- SignalCalls
  Adjustments = {1, 3}
  AlertModes = {}
  Apcs = {}
  MINLONG <- ThreeBits
SYMMETRY ThreadSymmetry
SPECIFICATION Spec
INVARIANTS TypeOK NoLostWakeup WaitBlocksExact
PROPERTY AllOrNothing
