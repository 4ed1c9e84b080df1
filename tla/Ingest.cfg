SPECIFICATION FairSpec
CONSTANTS
  q1 = q1
  h1 = h1
  u1 = u1
  Queued = {q1}
  Post <- MCPost
  Lone = {u1}
  Admin = {a1}
  Channel = {1, 2}
  ChannelOf <- MCChannelOf
  MaxChanges = 1
  MaxBreaks = 1
INVARIANTS
  LostForCause
  AckedIsStored
  
CHECK_DEADLOCK FALSE
PROPERTY
  MessagesSettle
