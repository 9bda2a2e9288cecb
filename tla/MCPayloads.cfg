SPECIFICATION FileSpec

CONSTANTS
    None = None
    Jobs <- AllJobs
    Fork <- Forks5
    Tip = 4

INVARIANTS
    FramingsAgree
    ConvertedIsSlice
    RecordedIsChain
    VersionFitsFork

\* A conversion or a recording ends.
CHECK_DEADLOCK FALSE
