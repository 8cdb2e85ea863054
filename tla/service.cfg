SPECIFICATION FairSpec
CONSTANTS
  Request = {r1, r2}
  Raisable = {"NotFoundError", "RequestValidationError", "Exception"}
INVARIANTS CountedOnce AnswersFit SessionsClosed ReadyTrue ClientKept
PROPERTIES StopEnds
CHECK_DEADLOCK FALSE
