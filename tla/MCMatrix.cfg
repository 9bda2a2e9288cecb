SPECIFICATION Spec

CONSTANTS
    a = a
    b = b
    Clients <- Two
    Matrix <- MatrixOfTwo
    MaxGens = 4
    Attempts = 2
    OverlayEnabled = TRUE
    Settings <- TidyAndUntidy
    MaxRunners = 2

PROPERTIES
    KeepsTenancies

INVARIANTS
    NoLiveWipe
    NoStackedMounts
    AttributedToItsClient
    DriverServesCurrent
    OnlyOwnFaults
    StoppedLeavesNothing

\* The last runner has ended.
CHECK_DEADLOCK FALSE
