SPECIFICATION Spec
CONSTANTS
  Callers = {c1, c2}
  Worker = Worker
  NoThread = NoThread
  Ids = {i1}
  Oversize = {}
  MaxBatch = 2
  BodyRoom = 2
  MaxQueue = 2
  MaxRetries = 1
  OwnsClient = TRUE
  CloseMayFail = TRUE
  CallbackCalls = {}
  MaxCapture = 2
  MaxCaptured = 2
PROPERTIES
  EventuallyDelivered
  CallsReturn
