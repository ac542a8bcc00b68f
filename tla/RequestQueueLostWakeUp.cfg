SPECIFICATION FairSpec
CONSTANTS
  ConfiguredConcurrency = 1
  MaxTickets = 3
  MaxElapsed = 3
PROPERTY AnsweredAfterDeadline
CHECK_DEADLOCK FALSE
