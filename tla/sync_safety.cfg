SPECIFICATION InterruptSafety
CONSTANTS
  Callers = {c1, c2}
  Worker = Worker
  NoThread = NoThread
  Ids = {i1, i2, big}
  Oversize = {big}
  MaxBatch = 3
  BodyRoom = 2
  MaxQueue = 2
  MaxRetries = 1
  OwnsClient = TRUE
  CloseMayFail = TRUE
  CallbackCalls = {"flush", "close"}
  MaxCapture = 2
  MaxCaptured = 3
  Interruptible = {c1}
SYMMETRY Symmetry
CHECK_DEADLOCK FALSE
INVARIANTS
  Conservation
  ExactlyOnce
  QuietAfterClose
  Attended
PROPERTIES
  CallsCover
  DeadlineKept
  ImplementsQueue
