\* Calls made after the previous one has settled: two symbols, one level.
SPECIFICATION Spec
CONSTANTS
  Symbols = {ethusdt, btcusdt}
  Prices = {1}
  Quantities = {1}
  SnapshotLimit = 1
  Patient = TRUE
  MaxUpdates = 2
  MaxThreads = 3
  MaxCalls = 3
INVARIANTS OneStream TerminateFindsTheStream
PROPERTY CancelledStaysOut
SYMMETRY SymbolSymmetry
CHECK_DEADLOCK FALSE
