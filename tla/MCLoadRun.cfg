SPECIFICATION Spec

CONSTANTS
    None = None
    u1 = u1
    u2 = u2
    Users <- TwoUsers
    FlushEvery = 3
    MaxRows = 7
    MaxHead = 3
    ProofCsv = TRUE
    GasEnabled = TRUE

SYMMETRY AnyUser

INVARIANTS
    RowsAreKept
    RangeIsTrue

\* The test ends.
CHECK_DEADLOCK FALSE
