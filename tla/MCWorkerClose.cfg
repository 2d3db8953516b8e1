\* close() does not stop every loop.
CONSTANTS
    MaxHeight = 1
    MaxReqs = 2
    MaxTxs = 1
    MaxToggles = 1
    ResultQueueSize <- MCResultQueueSize
    ChainHeadChanSize <- MCChainHeadChanSize
    ResubmitAdjustChanSize <- MCResubmitAdjustChanSize
    StaleThreshold <- MCStaleThreshold
    ProduceEmptyBlock = FALSE
    EnvFaults = FALSE
    MayClose = TRUE
SPECIFICATION Spec
\* After close() the loops that return stop for good; the rest block.
CHECK_DEADLOCK FALSE
PROPERTIES
    CloseStopsAllLoops
