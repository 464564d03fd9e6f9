SPECIFICATION FairSpec
CONSTANTS
  w1 = w1
  w2 = w2
  p1 = p1
  idA = idA
  idB = idB
  first = first
  again = again
  poison = poison
  Unreadable = Unreadable
  NoRow = NoRow
  NoWorker = NoWorker
  Workers <- TwoWorkers
  Partitions <- OnePartition
  Ids <- TwoIds
  Bodies = {first, again, poison}
  UnstorableBodies = {poison}
  MaxEvents = 2
  MaxLog = 2
  MaxFailures = 2
  MaxRebalances = 2
INVARIANTS
  IInv
  AckedIsPersisted
  FetchedIsPersisted
PROPERTIES
  RefinesLandingZone
  EventuallyPreserved
CHECK_DEADLOCK FALSE
