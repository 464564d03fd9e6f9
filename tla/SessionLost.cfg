SPECIFICATION Spec
CONSTANTS
  other = other
  another = another
  MaxReconnects = 2
  MaxSockets = 4
  Stoppers <- NoStopper
INVARIANTS LostOnlyWhenExhausted
CHECK_DEADLOCK FALSE
