SPECIFICATION Spec
CONSTANTS
  Socket = {w1}
  Request = {r1}
  User = {u1, u2}
  Reports = 0
INVARIANTS RevocationHolds
