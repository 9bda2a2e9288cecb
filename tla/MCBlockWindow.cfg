SPECIFICATION FairSpec

CONSTANTS
    StartHeads <- Heads
    MaxHead = 12
    Window = 6
    MinPinned = 2
    Margin = 2
    MaxAdvance = 2
    Hiccups = 2

INVARIANTS
    ClampedServable
    DepthIsExact
PROPERTIES
    FallBackOnlyIfShrunk
    RefresherEnds

\* The test is over and the thread with it.
CHECK_DEADLOCK FALSE
