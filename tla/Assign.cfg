SPECIFICATION FairSpec
CONSTANTS
  Device = {d1, d2, d3}
  Serial = {sA, sB}
  Call = {q1, q2, r1, r2}
  Seeds = {q1, q2}
  None = None
INVARIANTS
  TypeOK
  PointerMatchesAssignment
  OneOpenAssignment
  PointerNeverTaken
  InFlight
PROPERTIES
  EveryRequestEnds
  HistoryIsFinal
  ImplementsRegistry
CHECK_DEADLOCK FALSE
