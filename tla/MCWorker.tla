------------------------------ MODULE MCWorker ------------------------------
(* Model-checking instance of Worker: heights 0..2, two build requests,    *)
(* at most one pending transaction, start/stop/start, the channel          *)
(* capacities of worker.go and a staleness depth of one block.             *)
EXTENDS Worker

MCMaxHeight == 2
MCMaxReqs == 2
MCMaxTxs == 1
MCMaxToggles == 3
MCResultQueueSize == 10
MCChainHeadChanSize == 10
MCResubmitAdjustChanSize == 10
MCStaleThreshold == 1
=============================================================================
