SPECIFICATION Spec
CONSTANTS
  Device = {d1, d2}
  Serial = {sA, sB}
  Ward = {w1, w2}
  Kind = {"ward"}
  Request = {c1, c2}
  Reader = {r1}
  Miss = Miss
  None = None
SYMMETRY Symmetry
INVARIANTS
  TypeOK
  StaleOnlyByAccident
CHECK_DEADLOCK FALSE
