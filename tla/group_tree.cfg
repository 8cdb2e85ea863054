SPECIFICATION Spec
CONSTANTS
  Group = {g1, g2, g3}
  Task = {t1, t2}
  None = None
SYMMETRY Symmetry
INVARIANTS TypeOK ParentLive CirclesExplained
CHECK_DEADLOCK FALSE
