SPECIFICATION FairSpec
CONSTANTS
    Queued = {n1}
    Lone = {u1}
    Reader = {r1}
    MaxCrashes = 1
INVARIANTS FlagsAreTrue NeitherChannelStopsTheOther BadgeWrongOnlyByAccident
PROPERTY AlertsAreTried
CHECK_DEADLOCK FALSE
