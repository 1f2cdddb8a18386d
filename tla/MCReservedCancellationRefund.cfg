CONSTANTS
    x = x
    y = y
    z = z
    q1 = q1
    q2 = q2
    k1 = k1
    k2 = k2
    v1 = v1
    p1 = p1
    Seats = {x, y}
    BaseFare <- MCBaseFare
    Toll <- MCToll
    Fee <- MCFee
    Departs = 4321
    Retention = 43200
    SweepEvery = 1
    Instants = {0, 1}
    Procs = {p1}
    Mortal = {}
    Requests = {q1, q2, k1, k2}
    KindOf <- MCKindOf
    Selections <- MCWhole
    ProcOf <- MCProcOf
    None = None
SPECIFICATION Spec
INVARIANT
    AnsweredRefundIsStored
CHECK_DEADLOCK FALSE
