SPECIFICATION FairSpec
CONSTANTS
    Opens = {o1, o2}
    Processes = {p1, p2}
    Nobody = Nobody
    NoOpening = NoOpening
INVARIANTS SomebodyEndsIt ExecutionIsCovered ShownIsCurrent
PROPERTIES SuccessIsBacked DeadOpeningEnds
CHECK_DEADLOCK FALSE
