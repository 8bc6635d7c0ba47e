SPECIFICATION FairSpec
CONSTANTS
    c1 = c1
    c2 = c2
    s1 = s1
    s2 = s2
    Connections = {c1, c2}
    SessionIds = {s1, s2}
    SessionOf <- OwnSessions
    Requests = {r1, r2}
    Timed = {r1}
    WriterMayFail = TRUE
    NoConnection = NoConnection
    NoSession = NoSession
INVARIANTS
    WaiterIsOwned
    ExactIncarnation
    OutcomeIsHonest
PROPERTIES
    FiniteCalls
    DisconnectWakes
CHECK_DEADLOCK FALSE
