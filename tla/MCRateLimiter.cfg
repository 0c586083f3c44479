SPECIFICATION Spec
CONSTANTS
  t1 = t1
  t2 = t2
  k1 = k1
  k2 = k2
  NoThread = NoThread
  NoKey = NoKey
  Threads = {t1, t2}
  Keys = {k1, k2}
  Limit = 2
  WindowSeconds = 2
  Second = 2
  MaxTime = 6
SYMMETRY Symmetric
INVARIANTS
  SlidingWindow
PROPERTIES
  ImplementsAtomicLimiter
