SPECIFICATION FairSpec
CONSTANTS
  r1 = r1
  r2 = r2
  Runners <- TwoRunners
  Files <- FourFiles
  Recording <- FirstFile
  Schemas <- InitScript
  MaxFailures = 2
INVARIANTS MigrationsInv AllOrNothing InOrder HistoryIsTrue
PROPERTIES ReturnMeansComplete EventuallyComplete
CHECK_DEADLOCK FALSE
