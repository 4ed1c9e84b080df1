SPECIFICATION Spec
CONSTANTS
  Version = {v1}
  Point = {d1}
  Repair = {r1}
  Warranty = {w1}
  Op = {o1, o2, o3, m1}
  Migrated = {m1}
  None = None
SYMMETRY Symmetry
INVARIANTS
  ReleasesHaveFiles
  NoStrayFiles
  TrailIsComplete
CHECK_DEADLOCK FALSE
