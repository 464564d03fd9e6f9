SPECIFICATION Spec
CONSTANTS
  w1 = w1
  w2 = w2
  p1 = p1
  idA = idA
  idB = idB
  first = first
  again = again
  poison = poison
  Unreadable = Unreadable
  NoRow = NoRow
  NoWorker = NoWorker
  Workers <- OneWorker
  Partitions <- OnePartition
  Ids <- OneId
  Bodies = {first}
  UnstorableBodies = {}
  MaxEvents = 2
  MaxLog = 2
  MaxFailures = 1
  MaxRebalances = 0
INVARIANTS UnreadableStaysUncommitted
CHECK_DEADLOCK FALSE
