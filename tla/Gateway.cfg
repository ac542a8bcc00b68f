SPECIFICATION FairSpec
CONSTANTS
  Slots = 2
  Requests <- MCRequests
  SingleAccount = TRUE
  BusyMaxRetries = 1
  MaxRetries = 1
  Traffic <- ThreeRequests
  MaxGone = 1
INVARIANTS TypeOK UpstreamBounded
PROPERTIES RequestsKeepPromises EveryRequestAnswered
CHECK_DEADLOCK FALSE
