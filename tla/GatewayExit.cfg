SPECIFICATION Spec
CONSTANTS
  Slots = 1
  Requests <- OneRequest
  SingleAccount = TRUE
  BusyMaxRetries = 1
  MaxRetries = 1
  Traffic <- OneChat
  MaxGone = 1
INVARIANT GracefulShutdown
CHECK_DEADLOCK FALSE
