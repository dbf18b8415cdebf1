SPECIFICATION Spec
CONSTANTS
  Approvals = {r1, r2}
  Signals = {u, v}
  Questions = {}
  Async = {}
  None = None
  MaxTurns = 2
  MaxAsks = 4
SYMMETRY Permutes
INVARIANTS
  LiveShowsPending
PROPERTIES
  ApprovalIsTheUsers
CHECK_DEADLOCK FALSE
