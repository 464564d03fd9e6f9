SPECIFICATION FairSpec
CONSTANTS
  w1 = w1
  w2 = w2
  form = form
  price = price
  NoRow = NoRow
  NoEvent = NoEvent
  Workers <- TwoWorkers
  Ids = {1, 2}
  Rules <- BothRules
  Bodies <- MixedBodies
  Limit = 2
  MaxClock = 1
  MaxFailures = 1
INVARIANTS RoutingInv TrustIsExclusive VerdictsMatchBronze
PROPERTIES NothingDropped SilverIsStable EachRejectionVisible
  EventuallyRouted
CHECK_DEADLOCK FALSE
