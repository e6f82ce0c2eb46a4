SPECIFICATION Spec
CONSTANTS
  Callers = {c1}
  Worker = Worker
  NoThread = NoThread
  Ids = {i1, i2}
  Oversize = {}
  MaxBatch = 2
  BodyRoom = 2
  MaxQueue = 2
  MaxRetries = 0
  OwnsClient = TRUE
  CloseMayFail = TRUE
  CallbackCalls = {"flush", "close"}
  MaxCapture = 2
  MaxCaptured = 2
CHECK_DEADLOCK FALSE
PROPERTY CallsReturn
