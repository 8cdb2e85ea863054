SPECIFICATION Spec
CONSTANTS
  Client = {c1}
  Sid = {s1}
  Caller = {k1, k2}
  SendCap = 1
  UniqueIds = FALSE
  None = None
SYMMETRY Symmetry
CONSTRAINT GaugeBounded
CHECK_DEADLOCK FALSE
INVARIANT SessionGaugeBound
PROPERTIES ImplementsRegistry
