SPECIFICATION Spec

CONSTANTS
    a = a
    b = b
    Clients <- One
    Matrix <- MatrixOfOne
    MaxGens = 2
    Attempts = 2
    OverlayEnabled = TRUE
    Settings <- JustDefault
    MaxRunners = 2

INVARIANTS
    NeverLiveWipe

\* The last runner has ended.
CHECK_DEADLOCK FALSE
