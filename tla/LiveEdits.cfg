SPECIFICATION Spec
CONSTANTS
  Device = {d1, d2}
  Serial = {sA, sB}
  Note = {n1, n2}
  Edit = {e1, e2}
  Anonymous = {}
  Beat = {}
  Swap = {w1}
  None = None
SYMMETRY Symmetry
INVARIANTS
  TypeOK
  PictureLostForCause
  BoardWrongOnlyByAccident
  AuditIsOwnWrite
  ChangesAreAudited
CHECK_DEADLOCK FALSE
