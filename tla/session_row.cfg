SPECIFICATION Spec
CONSTANTS
  Socket = {w1}
  Request = {r1, r2}
  User = {u1, u2}
  Reports = 2
SYMMETRY Symmetry
CONSTRAINT Focus
INVARIANTS TypeOK EndedHasTime SocketRecorded GrantKept StatsCounted
PROPERTIES EndIsFinal
