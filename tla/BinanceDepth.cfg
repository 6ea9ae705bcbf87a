\* Calls at any time on one symbol, three levels of which the snapshot has two.
SPECIFICATION Spec
CONSTANTS
  Symbols = {ethusdt}
  Prices = {1, 2, 3}
  Quantities = {1}
  SnapshotLimit = 2
  Patient = FALSE
  MaxUpdates = 3
  MaxThreads = 2
  MaxCalls = 2
INVARIANTS TypeOK BookFollowsVenue
CHECK_DEADLOCK FALSE
