CONSTANTS
    Txns = {t1, t2}
    Departures = {d1, d2}
    Berths = {b1, b2, b3}
    DepartureOf <- MCTwoCoaches
    Ids = {i1, i2, i3}
    HoldTtl = 1
    MaxClock = 1
    None = None
    b1 = b1
    b2 = b2
    b3 = b3
    d1 = d1
    d2 = d2
SYMMETRY MCSymmetry
SPECIFICATION StoreSpec
INVARIANTS
    StoreTypeOK
    OneLiveClaimPerBerth
    HoldRowsMoveTogether
    BookingsMatchLocks
    StatusMatchesSeats
    OneBookingPerTransaction
    HoldsAreReplaced
PROPERTIES
    ReleasedOnlyByReplacement
    ImplementsSeatSale
