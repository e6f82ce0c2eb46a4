SPECIFICATION Spec
CHECK_DEADLOCK FALSE
CONSTANTS
  Requests = {r1, r2, r3}
  Tokens = 2
INVARIANT LifespanSafe
PROPERTY ShutdownEnds
