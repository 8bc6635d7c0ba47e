SPECIFICATION Spec
CONSTANTS
    r1 = r1 r2 = r2 v1 = v1 v2 = v2 v3 = v3
    main = main daemon = daemon
    ui = ui d1 = d1 d2 = d2
    k1 = k1 k2 = k2 a = a b = b
    Nothing = Nothing
    SessionOf <- MainSession
    ProcessOf <- MainProcess
    Runtimes = {r1, r2}
    Services = {v1, v2, v3}
    Sessions = {main, daemon}
    Processes = {ui, d1, d2}
    Snapshots <- TwoKeys
    MaxPublishers = 2
INVARIANTS PublicationHasRevoker ShownIsCurrent ConnectionScoped
PROPERTY OnlyOwnerWithdraws
SYMMETRY Alike
CHECK_DEADLOCK FALSE
