CONSTANTS
    u1 = u1
    u2 = u2
    d1 = d1
    d2 = d2
    Nobody = Nobody
    Units <- MCUnits
    Drivers <- MCDrivers
    Scenarios <- MCScenarios
SPECIFICATION Spec
INVARIANTS
    ScopeCoversChange
PROPERTIES
    ImplementsContract
    FilesChangeAtRest
SYMMETRY Symmetry
CHECK_DEADLOCK FALSE
