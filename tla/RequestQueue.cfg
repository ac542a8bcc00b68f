SPECIFICATION FairSpec
CONSTANTS
  ConfiguredConcurrency = 2
  MaxTickets = 5
  MaxElapsed = 5
INVARIANTS TypeOK ConcurrencyBound ServingIsFirstUnreturned ReleasedMapBounded
PROPERTIES
  BoundedOvertaking
  ImplementsAdmission
  EveryTicketServed
CHECK_DEADLOCK FALSE
