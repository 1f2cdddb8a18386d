CONSTANTS
    old = old
    new = new
    broken = broken
    fix = fix
    m1 = m1
    m2 = m2
    m3 = m3
    t1 = t1
    t2 = t2
    t3 = t3
    north = north
    south = south
    a = a
    b = b
    c = c
    x = x
    y = y
    f1 = f1
    s1 = s1
    Day = 8
    IndiaOffset = 2
    CloseMinutes = 4
    HorizonDays = 1
    None = None
    Catalogues = {old, new, broken}
    Contents <- MCContents
    Fixture = fix
    Files <- MCFiles
    Ttl = 2
    Timeout = 1
    Requests = {f1, s1}
    Inputs <- MCInputs
    MaxReleases = 1
    MaxClock = 3
SPECIFICATION FairSpec
INVARIANTS
    CacheIsFresh
    MissingOnlyAcrossCatalogues
    PublishedIsSold
PROPERTY
    EveryRequestEnds
CHECK_DEADLOCK FALSE
