SPECIFICATION FairSpec
CONSTANTS
  Client = {c1}
  Sid = {s1, s2}
  Caller = {}
  SendCap = 1
  UniqueIds = TRUE
  None = None
PROPERTIES DropEndsConnection OrphanSessionEnds
