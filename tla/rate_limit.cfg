SPECIFICATION FairSpec
CONSTANTS
  Request = {r1, r2, r3}
  Limit = 2
CHECK_DEADLOCK FALSE
INVARIANTS TypeOK AtMostLimit
PROPERTIES KeyExpiresUnlessFailed
