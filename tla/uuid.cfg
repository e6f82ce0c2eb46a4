SPECIFICATION Spec
CONSTANTS
  Threads = {t1, t2}
  NoThread = NoThread
  MaxTime = 2
  ABits = 1
  BBits = 1
  MaxIds = 3
  MaxForks = 1
INVARIANTS
  Monotonic
  ValuesMonotonic
PROPERTY CallsReturn
