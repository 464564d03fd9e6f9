SPECIFICATION FairSpec
CONSTANTS
  w1 = w1
  w2 = w2
  p1 = p1
  form = form
  Unreadable = Unreadable
  NoRow = NoRow
  NoWorker = NoWorker
  NoEvent = NoEvent
  Workers <- TwoWorkers
  Partitions <- OnePartition
  Ids = {1, 2}
  Rules <- OneRule
  Bodies <- Mixed
  UnstorableBodies = {}
  BatchSize = 1
  WindowSeconds = 1
  Lateness = 0
  ScanLimit = 2
  MaxClock = 1
  MaxLog = 2
  MaxFailures = 1
  MaxRebalances = 0
INVARIANTS GoldIsTraceable
PROPERTIES RefinesIngestion RefinesRouting RefinesGold RefinesLedger LeftoversProcessed
CHECK_DEADLOCK FALSE
