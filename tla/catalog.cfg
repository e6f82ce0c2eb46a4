SPECIFICATION Spec
CONSTANTS
  Pairs = {p1, p2, p3}
  Chunk = 2
  EarlyTimers = FALSE
INVARIANTS
  DeltasOnly
  NoneStranded
PROPERTIES
  CooldownKept
  FlushSends
  EventuallyRegistered
  CloseReturns
CHECK_DEADLOCK FALSE
