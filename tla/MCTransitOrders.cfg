CONSTANTS
    bmtc = bmtc
    bmrcl = bmrcl
    a1 = a1
    a2 = a2
    t1 = t1
    t2 = t2
    offer = offer
    day = day
    week = week
    month = month
    r1 = r1
    r2 = r2
    r3 = r3
    r4 = r4
    None = None
    Requests <- MCRequests
    Inputs <- MCInputs
    Keys <- MCKeys
    Offers = {offer}
    PassItems <- MCPassItems
    IssuerOf <- MCIssuerOf
    WindowOf <- MCWindowOf
    PriceOf <- MCPriceOf
    Covered <- MCCovered
    Fares = {1, 2}
    Ids = {1, 2}
    Day = 2
    Period = 1
    WeekDays = 2
    Months = 5
    MonthStart <- MCMonthStart
    Epoch = 5
    MaxClock = 8
SPECIFICATION FairSpec
INVARIANTS
    NoLateRefusal
    OneOrderPerTransaction
    FareWasQuotedHere
    SettledByAValidPass
PROPERTIES
    OrdersAreFinal
    EveryRequestEnds
CHECK_DEADLOCK FALSE
