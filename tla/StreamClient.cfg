\* Every class, at most three subscriptions each.
SPECIFICATION Spec
CONSTANTS
  Venues <- VenueNames
  MaxCalls = 3
INVARIANTS TypeOK WsSetBeforeUse ReturnsAreConfirmed
\* The application stops calling, or the process exits.
CHECK_DEADLOCK FALSE
