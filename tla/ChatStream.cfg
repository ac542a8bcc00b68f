SPECIFICATION FairSpec
CONSTANTS
  OutCap = 2
  EventCap = 2
  MaxRetries = 2
  MaxEvents = 5
INVARIANTS TypeOK AnswerComplete
PROPERTIES ImplementsRequestLife ResumesFromLastEvent LoyalClientServed
CHECK_DEADLOCK FALSE
