SPECIFICATION FairSpec
CONSTANTS
  Approvals = {r1}
  Signals = {}
  Questions = {a, b, n}
  Async = {a, b}
  None = None
  MaxTurns = 2
  MaxAsks = 0
INVARIANTS
  LiveShowsPending
  HistoryIsTrue
PROPERTIES
  CancelEndsTurn
CHECK_DEADLOCK FALSE
