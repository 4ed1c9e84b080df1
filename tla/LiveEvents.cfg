SPECIFICATION Spec
CONSTANTS
  Device = {d1, d2}
  Serial = {sA}
  Note = {n1, n2}
  Edit = {e1}
  Anonymous = {e1}
  Beat = {b1, b2}
  Swap = {w1}
  None = None
SYMMETRY Symmetry
INVARIANTS
  BoardWrongOnlyByAccident
CHECK_DEADLOCK FALSE
