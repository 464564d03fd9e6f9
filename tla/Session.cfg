SPECIFICATION FairSpec
CONSTANTS
  other = other
  another = another
  MaxReconnects = 3
  MaxSockets = 9
  Stoppers <- TwoStoppers
INVARIANTS SessionInv IteratesItsSocket ReconnectsBounded EndReleases
PROPERTIES StopEndsSession
CHECK_DEADLOCK FALSE
