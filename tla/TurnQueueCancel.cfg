SPECIFICATION Spec
CONSTANTS
  Requests = {r1}
  NoRequest = NoRequest
  MaxFaults = 0
  MaxCrashes = 0
PROPERTIES
  CanceledRunLeavesIdle
