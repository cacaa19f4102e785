CONSTANTS
  t1 = t1  t2 = t2  t3 = t3  ne = ne  se = se  sm = sm  mu = mu  mx = mx
  NoObject = NoObject
  NoThread = NoThread
  Kind <- KindOf
  Limit <- LimitOf
  Threads = {t1, t2}
  Objects = {se}
  Mutexes = {}
  Calls <- AlertCalls
  Adjustments = {1}
  AlertModes = {"KernelMode", "UserMode"}
  Apcs = {"special", "user", "exit"}
  MINLONG <- TwoBits
SYMMETRY ThreadSymmetry
SPECIFICATION Spec
INVARIANTS AlertNotLost
