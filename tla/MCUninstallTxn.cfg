SPECIFICATION CommandSpec
CONSTANTS
    u1 = u1 u2 = u2 a1 = a1 d1 = d1 d2 = d2
    Units <- ThreeExtras
    Autostarts = {a1}
    Required = {u2}
    Directories <- TwoDirectories
    UserChoice = {d2}
    ConfigWrites = 2
INVARIANTS ReportIsTrue NothingLostEarly InstallReportIsTrue
PROPERTIES StartsOnlyIntact CommitIsFinal
CHECK_DEADLOCK FALSE
