SPECIFICATION FairSpec
CONSTANTS
  w1 = w1
  w2 = w2
  form = form
  price = price
  NoRow = NoRow
  NoEvent = NoEvent
  Workers <- OneWorker
  Ids = {1, 2}
  Rules <- BothRules
  Bodies <- TimedBodies
  Limit = 1
  MaxClock = 1
  MaxFailures = 0
PROPERTIES EventuallyRouted
CHECK_DEADLOCK FALSE
