SPECIFICATION Spec

CONSTANTS
    Milestones <- AllMilestones
    NoRun = NoRun
    NoFile = NoFile
    Snapshots <- TwoSnapshots
    SnapHead <- TwoHeads
    Described <- OneDescribed
    Durations = 2
    Manifests <- SomeManifests
    Knobs <- SomeKnobs
    FaultSets <- SomeFaults
    MaxSweeps = 2
    MaxKilled = 1

INVARIANTS
    OkRowsAreTrue
    NodeKeepsItsSnapshot
    NoStrayReplay
PROPERTIES
    EverySnapshotReported

\* The last sweep has ended.
CHECK_DEADLOCK FALSE
