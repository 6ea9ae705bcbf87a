\* Three turns of either monitor over two trades; the third send blocks.
SPECIFICATION Spec
CONSTANTS
  Classes = {"bitmex", "bitfinex"}
  MaxTrades = 2
  MaxTurns = 3
  Hwm = 2
INVARIANTS TypeOK RatioIsDefined NothingLostOutsideTheGap
           ReportedOnce QuietReportsAgree
CHECK_DEADLOCK FALSE
