CONSTANTS
    Batches = {1, 2, 3}
    m1 = m1  m2 = m2  e1 = e1  n1 = n1
    f1 = f1  f2 = f2  f3 = f3  f4 = f4
    Messages = {m1, m2}
    Errors = {e1}
    Notifications = {n1}
    SiteOf <- MCSiteOf
    BatchIdOf <- MCBatchIdOf
    CreatedOf <- MCCreatedOf
    BatchOf <- MCBatchOf
    MessageOf <- MCMessageOf
    DryRuns = {d1}
    Applies = {a1, a2}
    Paths = {f1, f2, f3}
    DryRunLines <- OneSet
    ApplyLines <- MixedInputs
    None = None
SPECIFICATION Spec
INVARIANTS TypeOK DeletedIsEscrowed ForeignKeysHold OnlyExpiredDeleted WithinCaps ReportIsExact EndedHoldsNoLock
PROPERTY ReconcilableStaysSo
CHECK_DEADLOCK FALSE
SYMMETRY Symmetry
