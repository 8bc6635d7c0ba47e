SPECIFICATION Spec
CONSTANTS
    Owners = {o1, o2}
    Ids = {i1, i2, i3}
    MaxActive = 1
    MaxRetained = 2
    MaxPerOwner = 2
    SpawnMayFail = TRUE
    NoJob = NoJob
    NoOwner = NoOwner
SYMMETRY Symmetry
INVARIANTS
    RegistryBounded
    ResultAccountedFor
    Observable
PROPERTIES
    LateIsMarked
    ImplementsContract
