SPECIFICATION FairSpec
CONSTANTS
    b1 = b1
    b2 = b2
    e1 = e1
    e2 = e2
    t1 = t1
    t2 = t2
    t3 = t3
    a1 = a1
    a2 = a2
    None = None
    Batches <- MCBatches
    EmailIds <- MCEmailIds
    EmailIdOf <- MCEmailIdOf
    Tasks <- MCTasks
    BatchOf <- MCBatchOf
    Addresses <- MCAddresses
    AddressOf <- MCAddressOf
    Poison <- MCPoison
    MaxConcurrent = 2
    Procs = {p1, p2}
    MaxFaults = 1
INVARIANTS
    AckedBatchIsFullySent
    DuplicatesBoundedByLostRows
PROPERTIES
    NoResendAfterRow
    AcceptedIsEventuallySent
