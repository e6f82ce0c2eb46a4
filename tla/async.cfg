SPECIFICATION Spec
CONSTANTS
  Ids = {i1, i2, big}
  Oversize = {big}
  MaxBatch = 2
  BodyRoom = 2
  MaxQueue = 2
  MaxRetries = 1
  OwnsClient = TRUE
  CloseMayFail = TRUE
  MaxCapture = 2
  MaxCaptured = 4
INVARIANTS
  Consistent
  ExactlyOnce
PROPERTIES
  FlushCovers
  ImplementsQueue
  EventuallyDelivered
  CallsSettle
