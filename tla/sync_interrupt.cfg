SPECIFICATION InterruptSpec
CONSTANTS
  Callers = {c1}
  Worker = Worker
  NoThread = NoThread
  Ids = {i1}
  Oversize = {}
  MaxBatch = 2
  BodyRoom = 2
  MaxQueue = 2
  MaxRetries = 0
  OwnsClient = TRUE
  CloseMayFail = FALSE
  CallbackCalls = {}
  MaxCapture = 2
  MaxCaptured = 1
  Interruptible = {c1}
CHECK_DEADLOCK FALSE
PROPERTY EventuallyDelivered
