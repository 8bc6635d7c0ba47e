CONSTANTS
    Ops <- MCOps
    Graphs <- Chain
    Needs <- NoNeeds
    Attempts <- MCAttempts
    Deadlines <- MCOps
    Blocking <- MCBlocking
    MayCancel = FALSE
SPECIFICATION Spec
INVARIANT AcceptedPlanIsReported
CHECK_DEADLOCK FALSE
