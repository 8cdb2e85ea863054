SPECIFICATION Spec
CONSTANTS
  Client = {c1, c2}
  Sid = {s1}
  Caller = {}
  SendCap = 1
  UniqueIds = TRUE
  None = None
SYMMETRY Symmetry
INVARIANTS TypeOK ChannelOwnership ConnGauge SessionGauge OnlyDropsPanic
PROPERTIES ImplementsRegistry
