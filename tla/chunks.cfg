SPECIFICATION Spec
CONSTANTS
  m1 = m1
  Msg <- OneMsg
  Bytes <- Bytes5
  MaxPayload = 2
  ParallelSize = 2
  MaxAttempt <- Twice
  MayFail = TRUE
INVARIANT MessageSafe
PROPERTY DeliveredOrFailed
