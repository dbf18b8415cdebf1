SPECIFICATION Spec
CONSTANTS
  p = p
  Providers = {p}
  Keys = {nokey, k1}
  DefaultKey = nokey
  Sessions = {s}
  ProviderOf <- FirstProvider
  NoThread = NoThread
  Changes = {a, b}
  NoChange = NoChange
  ResetTargets <- Targets
  MaxResets = 1
  MaxLayout = 0
  MaxFaults = 0
  MaxCrashes = 0
INVARIANT
  CredentialsSwitchThreads
CHECK_DEADLOCK FALSE
