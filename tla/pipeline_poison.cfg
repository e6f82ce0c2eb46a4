SPECIFICATION Spec
CHECK_DEADLOCK FALSE
CONSTANTS
  small = small
  wide = wide
  huge = huge
  Ids = {small, wide, huge}
  Items <- MCItems
  RawOptions <- MCRawOptions
  Bytes <- MCBytes
  Packed <- MCPacked
  MaxBatch = 3
  MaxDecoded = 5
  MaxEncoded = 2
  MaxRetryAfter = 120
  Answers <- MCAnswers
  MaxCaptured = 3
INVARIANTS
  ValidatedAtEnqueue
