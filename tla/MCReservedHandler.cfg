CONSTANTS
    s1 = s1
    c1 = c1
    c2 = c2
    b1 = b1
    d1 = d1
    t1 = t1
    p1 = p1
    p2 = p2
    Txns = {t1}
    Departures = {d1}
    Berths = {b1}
    DepartureOf <- MCDepartureOf
    Ids = {s1, c1, c2}
    HoldTtl = 1
    MaxClock = 1
    None = None
    Procs = {p1, p2}
    Mortal = {p2}
    KindOf <- MCKindOf
    Inputs <- MCInputs
    GenderOf <- MCWomen
    Adjacent = {}
    Seeded = {}
    SeededFemale = {}
    SaleCloses <- MCOpenThroughout
    SyncProcs = {p1}
    SyncTimeout = 1
    Malformed = {c2}
    Unspeakable = {c1}
SPECIFICATION HandlerSpec
INVARIANTS
    RetryFindsTheSale
PROPERTIES
    EveryConnectionIsAnswered
    EveryAckIsFollowedUp
    ImplementsStore
CHECK_DEADLOCK FALSE
