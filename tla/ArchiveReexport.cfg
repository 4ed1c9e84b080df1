SPECIFICATION Spec
CONSTANTS
  Reading = {l1, l2}
  Export = {x1, x2}
  Cron = {x1}
  Restore = {y1}
  Removal = {z1}
  Retention = 2
  LastArrival = 0
  MaxAge = 3
  None = None
SYMMETRY Symmetry
PROPERTIES
  RepeatedExportIsSafe
CHECK_DEADLOCK FALSE
