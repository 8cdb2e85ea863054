SPECIFICATION Spec
CONSTANTS
  Client = {c1}
  Sid = {s1}
  Caller = {}
  SendCap = 1
  UniqueIds = TRUE
  None = None
CHECK_DEADLOCK FALSE
INVARIANT FullChannelClosesClient
