CONSTANTS
    Seats = {s1, s2}
    MaxPushes = 3
    MaxClock = 3
SPECIFICATION FairSpec
INVARIANT
    ManifestIsCurrent
PROPERTY
    PushesSettle
CHECK_DEADLOCK FALSE
