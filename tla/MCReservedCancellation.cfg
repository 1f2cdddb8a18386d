CONSTANTS
    x = x
    y = y
    z = z
    q1 = q1
    q2 = q2
    k1 = k1
    k2 = k2
    v1 = v1
    p1 = p1
    Seats = {x, y}
    BaseFare <- MCBaseFare
    Toll <- MCToll
    Fee <- MCFee
    Departs = 4321
    Retention = 43200
    SweepEvery = 1
    Instants = {0, 1, 47522}
    Procs = {p1}
    Mortal = {p1}
    Requests = {q1, q2, k1, k2, v1}
    KindOf <- MCKindOf
    Selections <- MCPartThenWhole
    ProcOf <- MCProcOf
    None = None
SPECIFICATION Spec
INVARIANTS
    LedgerAddsUp
    PaidAsQuoted
    OnlyARewriteBringsNamesBack
PROPERTY
    RefundsAreFrozen
CHECK_DEADLOCK FALSE
