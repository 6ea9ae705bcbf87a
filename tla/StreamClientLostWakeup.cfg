\* The hub notifies between the evaluation of the predicate and the blocking.
SPECIFICATION FairSpec
CONSTANTS
  Venues = {"bitmex"}
  MaxCalls = 1
PROPERTY StartStreamReturns
CHECK_DEADLOCK FALSE
