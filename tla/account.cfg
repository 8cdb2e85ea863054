SPECIFICATION Spec
CONSTANTS
  Request = {r1, r2}
  Password = {p1, p2}
  Secret = {s1, s2}
  Challenge = {c1}
  None = None
SYMMETRY Symmetry
INVARIANTS TypeOK PendingExplained ChallengeSpent TrailAgrees
PROPERTIES EditsApart FactorPromise
CHECK_DEADLOCK FALSE
