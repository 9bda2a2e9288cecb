SPECIFICATION Spec

CONSTANTS
    a = a
    b = b
    Clients <- Two
    Matrix <- MatrixOfTwo
    MaxGens = 1
    Attempts = 1
    OverlayEnabled = FALSE
    Settings <- JustDefault
    MaxRunners = 1

INVARIANTS
    OthersStillRun

\* The last runner has ended.
CHECK_DEADLOCK FALSE
