SPECIFICATION Spec

CONSTANTS
    Configs <- NoneOnly
    NoNumber = NoNumber
    Target = 3
    StartHeads <- Synced
    MaxRestarts = 0
    Margin = 1
    Confirmations = 3
    RpcCap = 2

INVARIANTS
    AlreadySyncedIsNull

\* The run is over: the runner has its answer and the driver is gone.
CHECK_DEADLOCK FALSE
