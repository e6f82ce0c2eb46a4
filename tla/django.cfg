SPECIFICATION Spec
CHECK_DEADLOCK FALSE
CONSTANTS
  Threads = {t1, t2, t3}
  Owned = {c1, c2}
  Injected = {i1, i2}
  None = None
  MaxDepth = 1
INVARIANT NothingLost
PROPERTY ClosedClientCleared
