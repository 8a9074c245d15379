SPECIFICATION FairSpec
CONSTANTS
    q1 = q1
    q2 = q2
    m1 = m1
    m2 = m2
    Pollers <- MCPollers
    Messages <- MCMessages
    BatchSize = 2
    Concurrency = 1
    HandlerDeadline = TRUE
    MaxErrors = 2
    MaxFaults = 2
INVARIANTS
    DeletedWasHandled
    SettledIsOver
PROPERTIES
    ImplementsGroup
    WorkerSettles
    MessagesAreWorkedOff
