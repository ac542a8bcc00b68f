SPECIFICATION FairSpec
CONSTANTS
  OutCap = 1
  EventCap = 1
  MaxRetries = 1
  MaxEvents = 3
PROPERTY LeaseReturned
CHECK_DEADLOCK FALSE
