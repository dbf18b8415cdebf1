SPECIFICATION Spec
CONSTANTS
  Requests = {r1, r2}
  NoRequest = NoRequest
  MaxFaults = 2
  MaxCrashes = 1
SYMMETRY Symmetry
INVARIANTS
  TypeOK
  OrderIsTotal
  OneTurnClaimed
  FollowersHeld
  AtMostOnce
  EditedStaysQueued
  StartFindsIdleSession
  RunOwnsTurn
PROPERTIES
  TerminalIsFinal
  ClaimFindsNoRun
  ImplementsContract
