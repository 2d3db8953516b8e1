\* Safety and liveness of the sealing pipeline.
CONSTANTS
    MaxHeight <- MCMaxHeight
    MaxReqs <- MCMaxReqs
    MaxTxs <- MCMaxTxs
    MaxToggles <- MCMaxToggles
    ResultQueueSize <- MCResultQueueSize
    ChainHeadChanSize <- MCChainHeadChanSize
    ResubmitAdjustChanSize <- MCResubmitAdjustChanSize
    StaleThreshold <- MCStaleThreshold
    ProduceEmptyBlock = FALSE
    EnvFaults = TRUE
    MayClose = FALSE
SPECIFICATION Spec
\* Once the bounded callers and network stop producing events the worker
\* idles in its selects; such terminal states are not deadlocks.
CHECK_DEADLOCK FALSE
INVARIANTS
    TypeOK
    OneLiveSealer
    ResultHasPendingTask
