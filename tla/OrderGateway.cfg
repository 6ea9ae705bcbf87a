\* Three calls of the application over the three venues that send orders.
SPECIFICATION Spec
CONSTANTS
  Venues = {"binance", "huobipro", "okex"}
  MaxCalls = 3
INVARIANTS TypeOK LibraryUpDuringTransfer CounterIsUsers OneOrderPerLeg
           AnswersAreTrue
PROPERTIES CallReturns
CHECK_DEADLOCK FALSE
