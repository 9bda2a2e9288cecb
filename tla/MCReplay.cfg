SPECIFICATION FairSpec
CONSTANTS
    Hash <- MCHash
    Known <- MCKnown
    SnapshotHead = 1
    MaxAttempts = 2
    MaxRestarts = 1
    Malformed = Malformed
    NoFile = NoFile
    NoHash = NoHash
    Files <- MCFiles
    Counts <- MCCounts
    MaxPolls = 1
INVARIANTS
    LandedRowsImported
    RowsChained
    NeverPollsAcrossAGap
    ReportIsFresh
    HeadFollowsReport
PROPERTIES
    ImplementsPromise
    ReplayEnds
CHECK_DEADLOCK FALSE
