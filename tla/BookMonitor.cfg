\* Thin books, an impatient monitor, full queues and a client that may leave.
SPECIFICATION FeedSpec
CONSTANTS
  Prices = {1, 2, 3}
  Sizes = {1, 2}
  FirstSizes = {1}
  Depth = 1
  MaxMessages = 2
  Hwm = 1
  MaxReadings = 2
  MaxDepartures = 1
INVARIANTS FeedTypeOK TablesAreVenueBook ClientSeesVenue MonitorDiesOfEmptySide
\* The process has ended, or the bounds are used up.
CHECK_DEADLOCK FALSE
