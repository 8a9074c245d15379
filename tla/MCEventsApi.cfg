SPECIFICATION Spec
CONSTANTS
    Events = {1, 2, 3}
    TypeOf <- MCTypeOf
    SiteOf <- MCSiteOf
    g1 = g1
    g2 = g2
    Clients <- MCClients
    Queries <- MCQueries
    None = None
    MaxTime = 2
SYMMETRY MCSymmetry
INVARIANTS
    PagesDoNotRepeat
    NoneSkipped
    OneReaderBehindGate
