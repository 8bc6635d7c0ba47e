SPECIFICATION Spec
CONSTANTS
    u1 = u1 u2 = u2 u3 = u3 u4 = u4
    Units <- FourUnits
    Transition <- EveryTransition
INVARIANTS KnownGoodSurvives OutcomeIsTrue
PROPERTY ServicesFollowModule
CHECK_DEADLOCK FALSE
