SPECIFICATION FairSpec
CONSTANTS
  Calls = {c1, c2}
  Lanes = {"character"}
  NoKind = NoKind
PROPERTIES
  EveryCallAnswered
  CloseEnds
CHECK_DEADLOCK FALSE
