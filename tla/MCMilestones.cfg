SPECIFICATION Spec
SYMMETRY Swaps

CONSTANTS
    v1 = v1
    v2 = v2
    v3 = v3
    Dirs <- AllDirs
    MaxRuns = 3
    Faults = {"sync", "capture", "du", "locust", "kill"}

INVARIANTS
    ReportedLoadIsItsOwn
    SyncPartsAgree
    BaselineIsLatest
PROPERTIES
    SkipSyncKeeps

\* All the runs are over.
CHECK_DEADLOCK FALSE
