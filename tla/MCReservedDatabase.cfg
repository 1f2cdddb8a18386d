CONSTANTS
    Txs = {u1, u2}
    Readers = {r1}
    Writes = 2
    MaxFaults = 2
SPECIFICATION FairSpec
INVARIANTS
    CommittedMeansDurable
    AllOrNothing
    OneTransactionAtATime
PROPERTY
    EveryCallSettles
CHECK_DEADLOCK FALSE
