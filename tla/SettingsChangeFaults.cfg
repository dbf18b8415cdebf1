SPECIFICATION Spec
CONSTANTS
  p = p
  Providers = {p, q}
  Keys = {nokey, k1}
  DefaultKey = nokey
  Sessions = {s}
  ProviderOf <- FirstProvider
  NoThread = NoThread
  Changes = {a, b}
  NoChange = NoChange
  ResetTargets <- Targets
  MaxResets = 1
  MaxLayout = 1
  MaxFaults = 1
  MaxCrashes = 1
INVARIANTS
  NoTurnDuringChange
  NoStaleThread
  ResetStays
CHECK_DEADLOCK FALSE
