SPECIFICATION Spec
CONSTANTS
  Calls = {c1, c2, c3}
  Lanes = {"character"}
  NoKind = NoKind
SYMMETRY Symmetry
INVARIANTS
  TypeOK
  AnswerIsTruthful
  ReadsAreNeverUnknown
  InOrder
  CloseIsOrderly
PROPERTIES
  ClosedIsQuiet
  ImplementsContract
CHECK_DEADLOCK FALSE
