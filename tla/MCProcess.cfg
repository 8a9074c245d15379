SPECIFICATION Spec
CONSTANTS
    sender = sender
    events = events
    p1 = p1
    e1 = e1
    e2 = e2
    Workers <- MCWorkers
    Pollers <- MCPollers
    WorkerOf <- MCWorkerOf
    ProcessingDeadline <- MCProcessingDeadline
    WorkerStale = 2
    ReceiveDeadline = 1
    MaxBackoff = 1
    TelemetryStale = 3
    Grace = 1
    MaxTime = 4
    MaxFaults = 2
    None = None
SYMMETRY Siblings
INVARIANTS
    ExitCodeIsHonest
    LostWorkerRestartsInTime
    ReadyIsJustified
    UndisturbedIsOk
PROPERTY
    ImplementsGroups
