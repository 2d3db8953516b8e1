\* A new chain head does not interrupt the build in progress.
CONSTANTS
    MaxHeight = 1
    MaxReqs = 2
    MaxTxs = 1
    MaxToggles = 1
    ResultQueueSize <- MCResultQueueSize
    ChainHeadChanSize <- MCChainHeadChanSize
    ResubmitAdjustChanSize <- MCResubmitAdjustChanSize
    StaleThreshold <- MCStaleThreshold
    ProduceEmptyBlock = FALSE
    EnvFaults = FALSE
    MayClose = FALSE
SPECIFICATION Spec
\* Terminal states are the idle worker once the bounds are used up.
CHECK_DEADLOCK FALSE
INVARIANTS
    StaleBuildInterrupted
