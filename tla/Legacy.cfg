SPECIFICATION MCSpec
CONSTANTS
  Box = {sA, sB}
  Name = {n1, n2}
  Probe = {}
  Config = {c1}
  Repair = {q1}
  Warranty = {}
  MaxRuns = 2
  Doc = {o1, o2, o3}
  Month = {m1, m2}
  Current = m2
  BatchSize = 2
  MaxBackups = 2
  MaxSwaps = 1
  Export = {x1, x2}
  None = None
SYMMETRY Symmetry
INVARIANTS
  FinishedRunIsWhole
  NotificationsArrive
  RecordIsOfOneWriter
  MonthsAreOnRecord
CHECK_DEADLOCK FALSE
