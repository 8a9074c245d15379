CONSTANTS
    Ids = {1, 2}
    Indexes = {0, 1, 2}
    Site = 1
    RecordLimit = 6
    BatchLimit = 2
    MessageLimit = 2
SPECIFICATION StreamSpec
INVARIANTS VerdictIsRight ReturnedIsVerified
CHECK_DEADLOCK FALSE
