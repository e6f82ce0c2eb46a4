SPECIFICATION Spec
CONSTANTS
  Ids = {i1, i2, big}
  Oversize = {big}
  MaxBatch = 2
  BodyRoom = 2
  MaxQueue = 2
  MaxRetries = 1
  MaxCapture = 2
  MaxCaptured = 4
INVARIANTS
  Consistent
  ExactlyOnce
  CallsCover
PROPERTIES
  NoSilentFailure
  ImplementsQueue
  EventuallyDelivered
  CallsSettle
