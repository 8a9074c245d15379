CONSTANTS
    Batches = {1, 3}
    m1 = m1  m2 = m2  e1 = e1  n1 = n1
    f1 = f1  f2 = f2  f3 = f3  f4 = f4
    SiteOf <- MCSiteOf
    BatchIdOf <- MCBatchIdOf
    CreatedOf <- MCCreatedOf
    BatchOf <- MCBatchOf
    MessageOf <- MCMessageOf
    None = None
    Messages = {m1}
    Errors = {e1}
    Notifications = {n1}
    DryRuns = {d1, d2}
    Applies = {a1}
    Paths = {f1, f2, f3, f4}
    DryRunLines <- SharedOutputs
    ApplyLines <- WideOnly
SPECIFICATION Spec
INVARIANTS EscrowIsConsistentCut SuccessPublishedOwnFiles
CHECK_DEADLOCK FALSE
SYMMETRY Symmetry
