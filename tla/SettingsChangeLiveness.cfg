SPECIFICATION FairSpec
CONSTANTS
  p = p
  Providers = {p}
  Keys = {nokey, k1}
  DefaultKey = nokey
  Sessions = {s, t}
  ProviderOf <- FirstProvider
  NoThread = NoThread
  Changes = {a, b}
  NoChange = NoChange
  ResetTargets <- Targets
  MaxResets = 0
  MaxLayout = 0
  MaxFaults = 2
  MaxCrashes = 0
PROPERTIES
  RestoredExactly
  ProvidersReturn
  AdmissionsEnd
CHECK_DEADLOCK FALSE
