CONSTANTS
    s1 = s1
    s2 = s2
    i1 = i1
    c1 = c1
    c2 = c2
    b1 = b1
    b2 = b2
    b3 = b3
    b4 = b4
    d1 = d1
    d2 = d2
    t1 = t1
    t2 = t2
    p1 = p1
    p2 = p2
    p3 = p3
    Txns = {t1, t2}
    Departures = {d1}
    Berths = {b1, b2}
    DepartureOf <- MCDepartureOf
    Ids = {s1, s2, c1, c2}
    HoldTtl = 1
    MaxClock = 1
    None = None
    Procs = {p1}
    Mortal = {}
    KindOf <- MCKindOf
    Inputs <- MCNeighbours
    GenderOf <- MCWomanAndMan
    Adjacent <- MCSideBySide
    Seeded = {}
    SeededFemale = {}
    SaleCloses <- MCOpenThroughout
SPECIFICATION OrderSpec
PROPERTY
    BesideAWomanOnlyWomen
