SPECIFICATION Spec

CONSTANTS
    Configs <- AllConfigs
    NoNumber = NoNumber
    Target = 3
    StartHeads <- AnyHead
    MaxRestarts = 1
    Margin = 1
    Confirmations = 2
    RpcCap = 2

INVARIANTS
    FinishedMeansSynced
    TimedMeansSynced
PROPERTIES
    MeasurementEnds
    SyncEventuallyMeasured

\* The run is over: the runner has its answer and the driver is gone.
CHECK_DEADLOCK FALSE
