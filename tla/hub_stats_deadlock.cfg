SPECIFICATION FairSpec
CONSTANTS
  Client = {c1}
  Sid = {s1}
  Caller = {k1}
  SendCap = 1
  UniqueIds = TRUE
  None = None
CHECK_DEADLOCK FALSE
PROPERTY StaleSessionsCleaned
