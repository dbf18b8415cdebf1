SPECIFICATION FairSpec
CONSTANTS
  Requests = {r1, r2}
  NoRequest = NoRequest
  MaxFaults = 0
  MaxCrashes = 1
PROPERTIES
  QueueDrains
  InputsEnd
  ShutdownFinishes
