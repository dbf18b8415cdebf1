SPECIFICATION FairSpec
CONSTANTS
  x = x
  y = y
  Instances <- Both
  MaxEntries = 2
  NoEntry = NoEntry
  NoHolder = NoHolder
  MaxBeats = 1
  MaxFaults <- TwoAndOne
INVARIANTS
  FailedLeavesNothing
PROPERTIES
  FreshIsKept
  LockReturns
CHECK_DEADLOCK FALSE
