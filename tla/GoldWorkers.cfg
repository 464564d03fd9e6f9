SPECIFICATION FairRacesSpec
CONSTANTS
  w1 = w1
  w2 = w2
  NoRow = NoRow
  Workers <- TwoWorkers
  Events <- Trades3
  Unquantizable <- TooManyDigits
  WindowSeconds = 2
  Lateness = 0
  Limit = 2
  ScanLimit = 3
  MaxClock = 2
  MaxFailures = 1
  Price <- Prices3
  Quantity <- Quantities3
  Side <- Sides3
  VwapUnit = 1
  Context = 100
  Units <- PowersOfTen
  Second = 1
INVARIANTS CandleIsConsistent
PROPERTIES ImprovesUnlessOvertaken GoldConverges
CHECK_DEADLOCK FALSE
