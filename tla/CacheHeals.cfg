SPECIFICATION FairSpec
CONSTANTS
  Device = {d1, d2}
  Serial = {sA, sB}
  Ward = {w1}
  Kind = {"assign", "device"}
  Request = {c1}
  Reader = {r1}
  Miss = Miss
  None = None
PROPERTIES
  CachesHeal
CHECK_DEADLOCK FALSE
