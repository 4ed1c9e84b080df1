SPECIFICATION ViewSpec
CONSTANTS
  Viewer = {g1}
  Watcher = {s1}
  MaxTime = 4
  MaxCrashes = 1
INVARIANTS
  ViewStaleOnlyByAccident
PROPERTY
  NeverGoesBack
CHECK_DEADLOCK FALSE
