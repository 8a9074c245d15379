SPECIFICATION Spec
CONSTANTS
    l1 = l1
    l2 = l2
    l3 = l3
    i1 = i1
    i2 = i2
    Logins <- MCLogins
    Ids <- MCIds
    Tables <- MCTables
    MaxRotations = 2
    MaxFaults = 1
    None = None
SYMMETRY Requests
INVARIANTS
    LegacyIsRetired
    BootstrapConverges
PROPERTY
    LaterLoginsChangeNothing
CHECK_DEADLOCK FALSE
