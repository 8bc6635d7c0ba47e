SPECIFICATION FairSpec
CONSTANTS
    Owners = {o1, o2}
    Ids = {i1, i2}
    MaxActive = 2
    MaxRetained = 2
    MaxPerOwner = 1
    SpawnMayFail = TRUE
    NoJob = NoJob
    NoOwner = NoOwner
PROPERTIES
    FiniteWait
    CapacityReturns
CHECK_DEADLOCK FALSE
