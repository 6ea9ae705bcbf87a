\* Books of up to four levels, two turns over two of them.
SPECIFICATION Spec
CONSTANTS
  Classes = {"okex", "bitfinex"}
  Prices = {1, 2, 3, 4}
  Sizes = {1, 2}
  Depth = 2
  MaxCalls = 2
  MaxChanges = 2
  MaxTurns = 2
INVARIANTS TypeOK TablesFollowVenue UndisturbedPassIsTop
           OnlyErasingHarms SteadyLevelsCounted
CHECK_DEADLOCK FALSE
