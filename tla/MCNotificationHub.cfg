CONSTANTS
    s1 = s1
    Boss = Boss
    None = None
    ModuleSessions <- MCModuleSessions
    Ids <- MCIds
    MaxShown = 2
    Limit = 2
SPECIFICATION HubSpec
INVARIANTS
    ReachesItsSession
    ShownIsRouted
CHECK_DEADLOCK FALSE
PROPERTIES
    ActionsArrive
    ClosedIsReleased
