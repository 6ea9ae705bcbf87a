\* A change between the snapshot and the opening of the stream is lost.
SPECIFICATION Spec
CONSTANTS
  Symbols = {ethusdt}
  Prices = {1, 2, 3}
  Quantities = {1}
  SnapshotLimit = 3
  Patient = TRUE
  MaxUpdates = 3
  MaxThreads = 2
  MaxCalls = 2
INVARIANT CaughtUpBookIsVenues
CHECK_DEADLOCK FALSE
