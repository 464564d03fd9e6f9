SPECIFICATION Spec
CONSTANTS
  ten = ten
  t1 = t1
  t2 = t2
  t3 = t3
  t9 = t9
  one = one
  zero = zero
  nan = nan
  Missing = Missing
  Null = Null
  NotADecimal = NotADecimal
  NaiveTime = NaiveTime
  NotATime = NotATime
  p1 = p1
  p2 = p2
  Empty = ""
  Strings <- SomeStrings
  Blanks <- SomeBlanks
  Padded <- SomePadded
  NonStrings <- SomeNonStrings
  Str <- StrOf
  Split <- SplitOf
  Decimals <- SomeDecimals
  Positive <- OnlyOne
  NonFinite <- OnlyNan
  Instants <- SomeInstants
  FarInstants <- Later
  Exchanges <- AllExchanges
  Script <- FourEvents
  Live <- SomeMessages
  Now <- ReceivedAt
  Partitions <- TwoPartitions
  MaxLive = 3
  MaxCalls = 3
  MaxCopies = 1
INVARIANTS NeverHalted
CHECK_DEADLOCK FALSE
