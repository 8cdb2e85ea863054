SPECIFICATION Spec
CONSTANTS
  Host = {h1, h2, h3}
  Group = {g1}
  Session = {s1}
  Request = {r1, r2}
  Name = {1, 2, 3}
  Tag = {t1, t2}
  Port = {p1, p2}
  Size = 2
  None = None
SYMMETRY Symmetry
CONSTRAINT Focus
INVARIANTS TypeOK References TagsTold WalkComplete
PROPERTIES ColumnsApart HostsSpared
CHECK_DEADLOCK FALSE
