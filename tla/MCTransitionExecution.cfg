CONSTANTS
    Ops <- MCOps
    Graphs <- MCGraphs
    Needs <- MCNeeds
    Attempts <- MCAttempts
    Deadlines <- MCOps
    Blocking <- MCBlocking
    MayCancel = TRUE
SPECIFICATION Spec
INVARIANTS
    RunsOnCertainGround
    ReportIsTrue
PROPERTIES
    ProgressOnlyGrows
    TransitionEnds
CHECK_DEADLOCK FALSE
