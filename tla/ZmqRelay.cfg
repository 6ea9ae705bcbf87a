\* A client that may leave twice; queues of two.
SPECIFICATION FairSpec
CONSTANTS
  Hwm = 2
  RelayStarted = TRUE
  MaxReadings = 6
  MaxDepartures = 2
INVARIANTS TypeOK NothingLost
PROPERTIES QueueSpec EveryReadingArrives
\* All readings sent and received.
CHECK_DEADLOCK FALSE
