CONSTANTS
  t1 = t1  t2 = t2  t3 = t3  ne = ne  se = se  sm = sm  mu = mu  mx = mx
  NoObject = NoObject
  NoThread = NoThread
  Kind <- KindOf
  Limit <- LimitOf
  Threads = {t1, t2}
  Objects = {sm, mu, mx}
  Mutexes = {mx}
  Calls <- MutantCalls
  Adjustments = {1}
  AlertModes = {}
  Apcs = {"special", "normal"}
  MINLONG <- TwoBits
SYMMETRY ThreadSymmetry
SPECIFICATION Spec
INVARIANTS NoLostWakeup MutantOwned ApcDisableExact ApcNotLost
PROPERTY AbandonReported
CHECK_DEADLOCK FALSE
