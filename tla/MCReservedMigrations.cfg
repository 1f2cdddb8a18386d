CONSTANTS
    p1 = p1
    p2 = p2
    None = None
    Processes = {p1, p2}
    Builds <- MCBuilds
    Needs <- MCNeeds
    MaxFaults = 2
    MaxDeploys = 1
SPECIFICATION FairSpec
INVARIANTS
    SchemaIsOnRecord
    ServesOnItsSchema
PROPERTY
    EveryProcessServes
CHECK_DEADLOCK FALSE
