SPECIFICATION Spec
CONSTANTS
    b1 = b1
    b2 = b2
    e1 = e1
    e2 = e2
    t1 = t1
    t2 = t2
    t3 = t3
    a1 = a1
    a2 = a2
    None = None
    Batches <- TwinBatches
    EmailIds <- TwinEmailIds
    EmailIdOf <- TwinEmailIdOf
    Tasks <- TwinTasks
    BatchOf <- TwinBatchOf
    Addresses <- TwinAddresses
    AddressOf <- TwinAddressOf
    Poison <- NoBatch
    MaxConcurrent = 2
    Procs = {p1}
    MaxFaults = 1
INVARIANT
    SesFailureIsRecorded
