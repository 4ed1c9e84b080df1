SPECIFICATION Spec
CONSTANTS
  Reading = {l1, l2}
  Export = {x1, x2, x3}
  Cron = {x1, x2}
  Restore = {y1, y2}
  Removal = {z1, z2}
  Retention = 2
  LastArrival = 2
  MaxAge = 3
  None = None
SYMMETRY Symmetry
INVARIANTS
  TypeOK
  RecordedIsSafe
  RestoredWhole
  RowsOnRecord
  RecordHasRows
CHECK_DEADLOCK FALSE
