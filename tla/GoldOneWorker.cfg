SPECIFICATION FairSpec
CONSTANTS
  w1 = w1
  NoRow = NoRow
  Workers <- OneWorker
  Events <- ThreeWindows
  Unquantizable <- MiddleWindow
  WindowSeconds = 1
  Lateness = 1
  Limit = 3
  ScanLimit = 2
  MaxClock = 3
  MaxFailures = 1
INVARIANTS GoldInv
PROPERTIES RowOnlyImproves GoldConverges
CHECK_DEADLOCK FALSE
