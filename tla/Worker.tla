------------------------------- MODULE Worker -------------------------------
(***************************************************************************)
(* The sealing pipeline of miner/worker.go together with the part of the   *)
(* Istanbul backend (build/env.sh, package backend) that it drives:        *)
(* Prepare, Finalize, Seal with its result goroutine, and Start/Stop.      *)
(*                                                                         *)
(* Four long-lived goroutines communicate over channels:                   *)
(*   newWorkLoop  nw...  decides when to build and owns the interrupt flags *)
(*   mainLoop     ml...  builds one candidate block per newWorkReq          *)
(*   taskLoop     tl...  hands candidate blocks to engine.Seal              *)
(*   resultLoop   rl...  writes sealed blocks to the chain                  *)
(* plus one goroutine per Seal call (sealers) waiting on sb.commitCh.      *)
(*                                                                         *)
(* Data is abstracted: a block is a record of its number, the timestamp    *)
(* token Prepare gave it and the number of transactions it carries; two    *)
(* candidates with equal records have equal seal hashes.  Transactions,   *)
(* receipts, state and the recommit interval are not represented.          *)
(***************************************************************************)
EXTENDS Naturals, Sequences, FiniteSets

CONSTANTS
    MaxHeight,              \* highest block number the chain may reach
    MaxReqs,                \* bound on newWorkReqs issued (interrupt flags allocated)
    MaxTxs,                 \* bound on pending transactions PendingLimited returns
    MaxToggles,             \* bound on start()/stop() calls by the user
    ResultQueueSize,        \* cap of w.resultCh                (worker.go:43)
    ChainHeadChanSize,      \* cap of w.chainHeadCh             (worker.go:50)
    ResubmitAdjustChanSize, \* cap of w.resubmitAdjustCh        (worker.go:53)
    StaleThreshold,         \* staleThreshold                   (worker.go:75)
    ProduceEmptyBlock,      \* common.SysCfg.IsProduceEmptyBlock()
    EnvFaults,              \* Prepare, Finalize, Seal and WriteBlockWithState may fail
    MayClose                \* the worker may be closed

ASSUME /\ MaxHeight \in Nat \ {0}
       /\ MaxReqs \in Nat \ {0}
       /\ MaxTxs \in Nat
       /\ ResultQueueSize \in Nat \ {0}
       /\ ChainHeadChanSize \in Nat \ {0}
       /\ ResubmitAdjustChanSize \in Nat \ {0}
       /\ ProduceEmptyBlock \in BOOLEAN
       /\ EnvFaults \in BOOLEAN /\ MayClose \in BOOLEAN

\* commitInterruptNone, commitInterruptNewHead, commitInterruptResubmit (worker.go:101-105)
InterruptNone == 0
InterruptNewHead == 1
InterruptResubmit == 2

\* A block.  ts = 0 is the timestamp parent.Time + BlockPeriod that Prepare
\* picks while the period has not elapsed; ts = i > 0 is "now" as read by
\* the build of request i.  by tells a local candidate from a peer's block.
LocalBlock(n, t, c) == [num |-> n, ts |-> t, cnt |-> c, by |-> "local"]
PeerBlock(n) == [num |-> n, ts |-> 0, cnt |-> 0, by |-> "peer"]
Genesis == PeerBlock(0)
NoBlock == [num |-> 0, ts |-> 0, cnt |-> 0, by |-> "nil"]

Blocks == {LocalBlock(n, t, c) : n \in 1..MaxHeight + 1, t \in 0..MaxReqs, c \in 0..MaxTxs}
          \cup {PeerBlock(n) : n \in 0..MaxHeight}

VARIABLES
    running,      \* w.running == 1
    exited,       \* w.exitCh has been closed
    toggles,      \* start()/stop() calls so far (bounded by MaxToggles)
    engStarted,   \* sb.coreStarted
    chain,        \* blocks in the local chain database
    head,         \* w.chain.CurrentBlock()
    decided,      \* block the consensus has decided at head.num+1, not yet inserted
    startCh,      \* items in w.startCh (cap 1)
    headCh,       \* w.chainHeadCh: numbers of the ChainHeadEvents queued
    adjustCh,     \* items in w.resubmitAdjustCh
    nwPc,         \* newWorkLoop: "loop", "send" (blocked in w.newWorkCh <- req), "done"
    nwInt,        \* the closure variable `interrupt`: id of the latest flag, 0 = nil
    timer,        \* the recommit timer is armed
    reqs,         \* number of interrupt flags allocated so far
    interrupt,    \* interrupt[i]: value of the *int32 flag of request i
    mlPc,         \* mainLoop: "idle","exec","adjInc","adjDec","commit","task","done"
    mlReq,        \* request being built
    mlBlk,        \* header of the block being built
    mlPhases,     \* pending txs left per remaining commitTransactionsWithHeader call
    pendingBlock, \* w.snapshotBlock (updateSnapshot)
    pendingTasks, \* seal hashes in w.pendingTasks
    tlPrev,       \* taskLoop `prev`: seal hash of the last task handled
    tlStop,       \* taskLoop `stopCh`: id of the open stop channel, 0 = nil
    tlDone,       \* taskLoop returned
    closedStops,  \* ids of stop channels that have been closed
    proposed,     \* sb.proposedBlockHash
    proposals,    \* blocks posted to the Istanbul core (RequestEvent)
    sealers,      \* result goroutines spawned by Seal
    commitCh,     \* sb.commitCh (cap 1)
    resultCh,     \* w.resultCh
    rlPc,         \* resultLoop: "loop", "post" (blocked in PostChainEvents), "done"
    rlBlk         \* block resultLoop is posting the head event for

nwVars == <<nwPc, nwInt, timer, reqs, interrupt>>
mlVars == <<mlPc, mlReq, mlBlk, mlPhases, pendingBlock>>
tlVars == <<tlPrev, tlStop, tlDone, closedStops, pendingTasks>>
engVars == <<engStarted, proposed, proposals, sealers, commitCh>>
chainVars == <<chain, head, decided>>
envVars == <<running, exited, toggles>>
chanVars == <<startCh, headCh, adjustCh, resultCh>>
rlVars == <<rlPc, rlBlk>>
vars == <<nwVars, mlVars, tlVars, engVars, chainVars, envVars, chanVars, rlVars>>

Sealer == [blk : Blocks, stop : 1..MaxReqs, st : {"wait", "send"}, res : Blocks \cup {NoBlock}]

TypeOK ==
    /\ running \in BOOLEAN /\ exited \in BOOLEAN /\ engStarted \in BOOLEAN
    /\ toggles \in 0..MaxToggles
    /\ chain \subseteq Blocks /\ head \in chain /\ decided \in Blocks \cup {NoBlock}
    /\ startCh \in 0..1
    /\ headCh \in Seq(0..MaxHeight + 1) /\ Len(headCh) <= ChainHeadChanSize
    /\ adjustCh \in 0..ResubmitAdjustChanSize
    /\ nwPc \in {"loop", "send", "done"} /\ nwInt \in 0..MaxReqs /\ timer \in BOOLEAN
    /\ reqs \in 0..MaxReqs /\ interrupt \in [1..MaxReqs -> {0, 1, 2}]
    /\ mlPc \in {"idle", "exec", "adjInc", "adjDec", "commit", "task", "done"}
    /\ mlReq \in 0..MaxReqs /\ mlBlk \in Blocks \cup {NoBlock}
    /\ mlPhases \in Seq(0..MaxTxs) /\ Len(mlPhases) <= 2
    /\ pendingBlock \in Blocks \cup {NoBlock}
    /\ pendingTasks \subseteq Blocks
    /\ tlPrev \in Blocks \cup {NoBlock} /\ tlStop \in 0..MaxReqs /\ tlDone \in BOOLEAN
    /\ closedStops \subseteq 1..MaxReqs
    /\ proposed \in Blocks \cup {NoBlock} /\ proposals \subseteq Blocks
    /\ sealers \subseteq Sealer
    /\ commitCh \in Seq(Blocks) /\ Len(commitCh) <= 1
    /\ resultCh \in Seq(Blocks \cup {NoBlock}) /\ Len(resultCh) <= ResultQueueSize
    /\ rlPc \in {"loop", "post", "done"} /\ rlBlk \in Blocks \cup {NoBlock}

Init ==
    /\ running = FALSE /\ exited = FALSE /\ toggles = 0 /\ engStarted = FALSE
    /\ chain = {Genesis} /\ head = Genesis /\ decided = NoBlock
    /\ startCh = 1            \* newWorker: w.startCh <- struct{}{} (worker.go:245)
    /\ headCh = <<>> /\ adjustCh = 0
    /\ nwPc = "loop" /\ nwInt = 0 /\ timer = FALSE /\ reqs = 0
    /\ interrupt = [i \in 1..MaxReqs |-> InterruptNone]
    /\ mlPc = "idle" /\ mlReq = 0 /\ mlBlk = NoBlock /\ mlPhases = <<>>
    /\ pendingBlock = NoBlock /\ pendingTasks = {}
    /\ tlPrev = NoBlock /\ tlStop = 0 /\ tlDone = FALSE /\ closedStops = {}
    /\ proposed = NoBlock /\ proposals = {} /\ sealers = {} /\ commitCh = <<>>
    /\ resultCh = <<>> /\ rlPc = "loop" /\ rlBlk = NoBlock

-----------------------------------------------------------------------------
(* newWorkLoop (worker.go:319-437)                                         *)

\* The comparison of clearPending turned around.
StaleTaskReversed(t, number) == t.num + StaleThreshold >= number

\* clearPending: drop the pending tasks that are staleThreshold blocks deep.
StaleTask(t, number) == t.num + StaleThreshold <= number

ClearPending(number) ==
    pendingTasks' = {t \in pendingTasks : ~StaleTask(t, number)}

\* The `commit` closure up to its blocking send on the unbuffered
\* w.newWorkCh: the previous request's flag is set to s and a new flag is
\* allocated.  The send completes in MLReceive.
NWCommit(s) ==
    /\ reqs < MaxReqs
    /\ interrupt' = IF nwInt # 0 THEN [interrupt EXCEPT ![nwInt] = s] ELSE interrupt
    /\ nwInt' = reqs + 1
    /\ reqs' = reqs + 1
    /\ nwPc' = "send"

\* case <-w.startCh: clearPending(CurrentBlock) and commit(commitInterruptNewHead).
NWStart ==
    /\ nwPc = "loop" /\ startCh = 1
    /\ startCh' = 0
    /\ ClearPending(head.num)
    /\ NWCommit(InterruptNewHead)
    /\ UNCHANGED <<timer, mlVars, tlPrev, tlStop, tlDone, closedStops, engVars,
                   chainVars, envVars, headCh, adjustCh, resultCh, rlVars>>

\* case head := <-w.chainHeadCh: clearPending(head) only; the
\* commit(commitInterruptNewHead) of the original loop is commented out.
NWHead ==
    /\ nwPc = "loop" /\ headCh # <<>>
    /\ ClearPending(Head(headCh))
    /\ headCh' = Tail(headCh)
    /\ UNCHANGED <<nwVars, mlVars, tlPrev, tlStop, tlDone, closedStops, engVars,
                   chainVars, envVars, startCh, adjustCh, resultCh, rlVars>>

\* case <-timer.C: when not running the loop `continue`s without re-arming
\* the timer; otherwise (ShouldSeal true) commit(commitInterruptResubmit).
\* The ShouldSeal-false branch only re-arms the timer and is a stutter.
\* The recommit interval is at least 500ms, far longer than draining an
\* interval adjustment already queued, so the timer fires with none queued.
NWTimer ==
    /\ nwPc = "loop" /\ timer /\ adjustCh = 0
    /\ \/ /\ ~running
          /\ timer' = FALSE
          /\ UNCHANGED <<nwPc, nwInt, reqs, interrupt, pendingTasks>>
       \/ /\ running
          /\ NWCommit(InterruptResubmit)
          /\ UNCHANGED <<timer, pendingTasks>>
    /\ UNCHANGED <<mlVars, tlPrev, tlStop, tlDone, closedStops, engVars,
                   chainVars, envVars, chanVars, rlVars>>

\* case adjust := <-w.resubmitAdjustCh: recalcRecommit (interval not modelled).
NWAdjust ==
    /\ nwPc = "loop" /\ adjustCh > 0
    /\ adjustCh' = adjustCh - 1
    /\ UNCHANGED <<nwVars, mlVars, tlVars, engVars, chainVars, envVars,
                   startCh, headCh, resultCh, rlVars>>

\* case <-w.exitCh: return.  Not offered while blocked in the send.
NWExit ==
    /\ nwPc = "loop" /\ exited
    /\ nwPc' = "done"
    /\ UNCHANGED <<nwInt, timer, reqs, interrupt, mlVars, tlVars, engVars,
                   chainVars, envVars, chanVars, rlVars>>

-----------------------------------------------------------------------------
(* mainLoop: commitNewWork, commitTransactionsWithHeader and commit         *)
(* (worker.go:440-477, 672-936)                                            *)

\* The phases of commitNewWork: one commitTransactionsWithHeader call for the
\* local accounts, then one for the remote accounts, each only if non-empty.
Phases(local, remote) == SelectSeq(<<local, remote>>, LAMBDA k : k > 0)

\* case req := <-w.newWorkCh: completes newWorkLoop's send (which then
\* re-arms the timer) and runs commitNewWork up to its first transaction.
\* Prepare, makeCurrent or PendingLimited may fail, and the build returns.
\* Prepare sets Time = max(parent.Time + BlockPeriod, now): either the
\* parent-determined time (ts 0) or a clock reading unique to this build.
MLReceive ==
    /\ mlPc = "idle" /\ nwPc = "send"
    /\ nwPc' = "loop" /\ timer' = TRUE
    /\ mlReq' = nwInt
    /\ \/ /\ EnvFaults /\ mlPc' = "idle"
          /\ UNCHANGED <<mlBlk, mlPhases>>
       \/ \E t \in {0, nwInt}, pending \in 0..MaxTxs, local \in 0..MaxTxs :
            /\ local <= pending
            /\ mlBlk' = LocalBlock(head.num + 1, t, 0)
            /\ mlPhases' = Phases(local, pending - local)
            /\ mlPc' = IF pending = 0 THEN "commit" ELSE "exec"
    /\ UNCHANGED <<nwInt, reqs, interrupt, pendingBlock, tlVars, engVars,
                   chainVars, envVars, chanVars, rlVars>>

\* Leave the current commitTransactionsWithHeader call with result false:
\* go on with the next phase, or commit(fullTaskHook) after the last one.
EndPhase ==
    /\ mlPhases' = Tail(mlPhases)
    /\ mlPc' = IF Tail(mlPhases) = <<>> THEN "commit" ELSE "exec"

\* commitTransaction on one of the left transactions: ApplyTransaction
\* succeeds, the transaction and receipt are appended and the caller
\* Shifts; or it fails, the state is reverted, and the caller's switch
\* Shifts or Pops what is left of the account.
CommitTransaction(left) ==
    \/ /\ mlBlk' = [mlBlk EXCEPT !.cnt = @ + 1]
       /\ mlPhases' = [mlPhases EXCEPT ![1] = left - 1]
    \/ /\ \E rest \in 0..left - 1 : mlPhases' = [mlPhases EXCEPT ![1] = rest]
       /\ UNCHANGED mlBlk

\* One iteration of the loop of commitTransactionsWithHeader.  The interrupt
\* flag is polled first: resubmit goes on to notify newWorkLoop, new head
\* discards the block.  Then the gas check (only once some transaction
\* consumed gas) and Peek; otherwise one transaction is applied: success
\* counts it and Shifts, a failure Shifts (nonce too low, other error) or
\* Pops the rest of the account (gas limit, nonce too high).
MLExec ==
    LET flag == interrupt[mlReq]
        left == Head(mlPhases)
    IN
    /\ mlPc = "exec"
    /\ \/ /\ flag = InterruptResubmit
          /\ mlPc' = "adjInc"
          /\ UNCHANGED <<mlBlk, mlPhases>>
       \/ /\ flag = InterruptNewHead
          /\ mlPc' = "idle"
          /\ UNCHANGED <<mlBlk, mlPhases>>
       \/ /\ flag = InterruptNone
          /\ left = 0 \/ mlBlk.cnt > 0
          /\ mlPc' = "adjDec"
          /\ UNCHANGED <<mlBlk, mlPhases>>
       \/ /\ flag = InterruptNone /\ left > 0
          /\ CommitTransaction(left)
          /\ UNCHANGED mlPc
    /\ UNCHANGED <<mlReq, pendingBlock, nwVars, tlVars, engVars, chainVars,
                   envVars, chanVars, rlVars>>

\* w.resubmitAdjustCh <- {inc: true}, a blocking send, then
\* `return flag == commitInterruptNewHead`, which is false here: each flag is
\* stored at most once, so it is still commitInterruptResubmit.
MLAdjInc ==
    /\ mlPc = "adjInc" /\ adjustCh < ResubmitAdjustChanSize
    /\ adjustCh' = adjustCh + 1
    /\ EndPhase
    /\ UNCHANGED <<mlReq, mlBlk, pendingBlock, nwVars, tlVars, engVars,
                   chainVars, envVars, startCh, headCh, resultCh, rlVars>>

\* After the loop: w.resubmitAdjustCh <- {inc: false} (interrupt is never
\* nil here), a blocking send, then return false.
MLAdjDec ==
    /\ mlPc = "adjDec" /\ adjustCh < ResubmitAdjustChanSize
    /\ adjustCh' = adjustCh + 1
    /\ EndPhase
    /\ UNCHANGED <<mlReq, mlBlk, pendingBlock, nwVars, tlVars, engVars,
                   chainVars, envVars, startCh, headCh, resultCh, rlVars>>

\* updateSnapshot(block): w.snapshotBlock = block under snapshotMu.  The
\* block is never nil here: commit passes Finalize's result.
UpdateSnapshot(b) == pendingBlock' = b

\* commit: Finalize may fail (VrfElection), and commit returns without
\* touching the snapshot.  If running, block in select{taskCh<-task;
\* <-exitCh}; otherwise updateSnapshot(block) at once.
MLCommit ==
    /\ mlPc = "commit"
    /\ \/ /\ EnvFaults /\ mlPc' = "idle"
          /\ UNCHANGED pendingBlock
       \/ /\ running
          /\ mlPc' = "task"
          /\ UNCHANGED pendingBlock
       \/ /\ ~running
          /\ UpdateSnapshot(mlBlk)
          /\ mlPc' = "idle"
    /\ UNCHANGED <<mlReq, mlBlk, mlPhases, nwVars, tlVars, engVars, chainVars,
                   envVars, chanVars, rlVars>>

\* commit's send on w.taskCh without the exitCh alternative.
MLTaskExitNoExit == FALSE

\* The exitCh alternative of commit's select, then updateSnapshot(block).
MLTaskExit ==
    /\ mlPc = "task" /\ exited
    /\ UpdateSnapshot(mlBlk)
    /\ mlPc' = "idle"
    /\ UNCHANGED <<mlReq, mlBlk, mlPhases, nwVars, tlVars, engVars, chainVars,
                   envVars, chanVars, rlVars>>

\* case <-w.exitCh: return.
MLExit ==
    /\ mlPc = "idle" /\ exited
    /\ mlPc' = "done"
    /\ UNCHANGED <<mlReq, mlBlk, mlPhases, pendingBlock, nwVars, tlVars,
                   engVars, chainVars, envVars, chanVars, rlVars>>

-----------------------------------------------------------------------------
(* taskLoop (worker.go:481-539) and backend.Seal (env.sh:429-503)          *)

\* Close of a nil channel panics: the closure checks stopCh != nil.  The
\* model records a close of the nil channel as a close of id 0.
TaskInterruptNoNilCheck ==
    closedStops' = closedStops \cup {tlStop}

TaskInterruptNoClose ==
    closedStops' = closedStops

\* interrupt(): close(stopCh) if it is not nil (stopCh is then reset by
\* the caller or left behind on exit).
TaskInterrupt ==
    closedStops' = IF tlStop # 0 THEN closedStops \cup {tlStop} ELSE closedStops

\* backend.Seal: the snapshot lookup, the authorisation check, the parent
\* lookup or updateBlock may fail (the error is only logged).  Otherwise
\* proposedBlockHash is set, the block is posted to the Istanbul core
\* (dropped by its event mux while the core is stopped) and a goroutine
\* starts waiting on sb.commitCh or stop.
Seal(b, stop) ==
    \/ /\ EnvFaults
       /\ UNCHANGED <<proposed, proposals, sealers>>
    \/ /\ proposed' = b
       /\ proposals' = IF engStarted THEN proposals \cup {b} ELSE proposals
       /\ sealers' = sealers \cup {[blk |-> b, stop |-> stop, st |-> "wait", res |-> NoBlock]}

\* case task := <-w.taskCh, received from commit's select, which then runs
\* updateSnapshot(block).  A task whose seal hash equals prev is skipped.
\* Otherwise the previous seal is interrupted, a fresh stopCh made, the task
\* registered when non-empty or empty blocks are allowed, and Seal called.
TLReceive ==
    LET b == mlBlk IN
    /\ mlPc = "task" /\ ~tlDone
    /\ mlPc' = "idle" /\ UpdateSnapshot(b)
    /\ \/ /\ b = tlPrev
          /\ UNCHANGED <<tlPrev, tlStop, closedStops, pendingTasks, proposed,
                         proposals, sealers>>
       \/ /\ b # tlPrev
          /\ TaskInterrupt
          /\ tlStop' = mlReq /\ tlPrev' = b
          /\ pendingTasks' = IF b.cnt > 0 \/ ProduceEmptyBlock
                             THEN pendingTasks \cup {b} ELSE pendingTasks
          /\ Seal(b, mlReq)
    /\ UNCHANGED <<mlReq, mlBlk, mlPhases, tlDone, engStarted, commitCh,
                   nwVars, chainVars, envVars, chanVars, rlVars>>

\* case <-w.exitCh: interrupt(); return.
TLExit ==
    /\ ~tlDone /\ exited
    /\ TaskInterrupt
    /\ tlDone' = TRUE
    /\ UNCHANGED <<tlPrev, tlStop, pendingTasks, nwVars, mlVars, engVars,
                   chainVars, envVars, chanVars, rlVars>>

\* The Seal goroutine receives from sb.commitCh: a matching block is its
\* result; any other block is dropped and the goroutine keeps waiting.
SealerRecv(s) ==
    /\ s \in sealers /\ s.st = "wait" /\ commitCh # <<>>
    /\ commitCh' = Tail(commitCh)
    /\ sealers' = IF Head(commitCh) = s.blk
                  THEN (sealers \ {s}) \cup {[s EXCEPT !.st = "send", !.res = Head(commitCh)]}
                  ELSE sealers
    /\ UNCHANGED <<engStarted, proposed, proposals, nwVars, mlVars, tlVars,
                   chainVars, envVars, chanVars, rlVars>>

\* The goroutine's case <-stop: return.
SealerStop(s) ==
    /\ s \in sealers /\ s.st = "wait" /\ s.stop \in closedStops
    /\ sealers' = sealers \ {s}
    /\ UNCHANGED <<engStarted, proposed, proposals, commitCh, nwVars, mlVars,
                   tlVars, chainVars, envVars, chanVars, rlVars>>

\* sealResultCh <- result (or nil), a blocking send on w.resultCh.
SealerSend(s) ==
    /\ s \in sealers /\ s.st = "send" /\ Len(resultCh) < ResultQueueSize
    /\ resultCh' = Append(resultCh, s.res)
    /\ sealers' = sealers \ {s}
    /\ UNCHANGED <<engStarted, proposed, proposals, commitCh, nwVars, mlVars,
                   tlVars, chainVars, envVars, startCh, headCh, adjustCh, rlVars>>

-----------------------------------------------------------------------------
(* resultLoop (worker.go:543-614)                                          *)

\* case block := <-w.resultCh.  nil, a block the chain already has, and a
\* block with no pending task are skipped.  Otherwise WriteBlockWithState:
\* on error the loop continues; a block extending the head is canonical
\* and its ChainHeadEvent is posted next, any other is a side block.
RLRecv ==
    LET r == Head(resultCh) IN
    /\ rlPc = "loop" /\ resultCh # <<>>
    /\ resultCh' = Tail(resultCh)
    /\ \/ /\ r = NoBlock \/ r \in chain \/ r \notin pendingTasks
          /\ UNCHANGED <<chainVars, rlVars>>
       \/ /\ r # NoBlock /\ r \notin chain /\ r \in pendingTasks
          /\ \/ /\ EnvFaults /\ UNCHANGED <<chainVars, rlVars>>
             \/ /\ chain' = chain \cup {r}
                /\ IF r.num = head.num + 1
                   THEN /\ head' = r /\ rlPc' = "post" /\ rlBlk' = r
                        /\ decided' = IF decided = r THEN NoBlock ELSE decided
                   ELSE UNCHANGED <<head, decided, rlPc, rlBlk>>
    /\ UNCHANGED <<nwVars, mlVars, tlVars, engVars, envVars, startCh, headCh,
                   adjustCh>>

\* PostChainEvents: the ChainHeadEvent is delivered to w.chainHeadCh, a
\* blocking feed send.
RLPost ==
    /\ rlPc = "post" /\ Len(headCh) < ChainHeadChanSize
    /\ headCh' = Append(headCh, rlBlk.num)
    /\ rlPc' = "loop"
    /\ UNCHANGED <<rlBlk, nwVars, mlVars, tlVars, engVars, chainVars, envVars,
                   startCh, adjustCh, resultCh>>

\* case <-w.exitCh: return.
RLExit ==
    /\ rlPc = "loop" /\ exited
    /\ rlPc' = "done"
    /\ UNCHANGED <<rlBlk, nwVars, mlVars, tlVars, engVars, chainVars, envVars,
                   chanVars>>

-----------------------------------------------------------------------------
(* The worker's callers and the engine's lifecycle                         *)
(* (worker.go:289-316, env.sh:533-570)                                     *)

NoSealer == [blk |-> NoBlock, stop |-> 0, st |-> "none", res |-> NoBlock]

\* close(sb.commitCh): every goroutine blocked on the old channel receives.
\* One of them may still get the buffered block (its own, or it drops it
\* and then reads the closed channel); all others receive nil and send it.
CloseCommitCh(w) ==
    sealers' = {IF s.st = "wait"
                THEN [s EXCEPT !.st = "send", !.res = IF s = w THEN Head(commitCh) ELSE NoBlock]
                ELSE s : s \in sealers}

\* backend.Start: ErrStartedEngine if started; otherwise clear
\* proposedBlockHash, close and replace sb.commitCh, start the core.
EngineStart ==
    IF engStarted
    THEN UNCHANGED <<engStarted, proposed, sealers, commitCh>>
    ELSE /\ engStarted' = TRUE
         /\ proposed' = NoBlock
         /\ commitCh' = <<>>
         /\ \E w \in {s \in sealers : s.st = "wait" /\ commitCh # <<>> /\ Head(commitCh) = s.blk}
                     \cup {NoSealer} :
              CloseCommitCh(w)

\* worker.start: running = 1, w.startCh <- struct{}{} (blocks while the
\* one-slot channel is full), then eng.Start.
Start ==
    /\ ~exited /\ toggles < MaxToggles /\ startCh = 0
    /\ running' = TRUE /\ toggles' = toggles + 1
    /\ startCh' = 1
    /\ EngineStart
    /\ UNCHANGED <<exited, proposals, nwVars, mlVars, tlVars, chainVars,
                   headCh, adjustCh, resultCh, rlVars>>

\* worker.stop: running = 0, then eng.Stop (ErrStoppedEngine if stopped).
Stop ==
    /\ ~exited /\ toggles < MaxToggles
    /\ running' = FALSE /\ toggles' = toggles + 1
    /\ engStarted' = FALSE
    /\ UNCHANGED <<exited, proposed, proposals, sealers, commitCh, nwVars,
                   mlVars, tlVars, chainVars, chanVars, rlVars>>

\* worker.close: close(w.exitCh).  A second close panics; it is called once.
Close ==
    /\ MayClose /\ ~exited
    /\ exited' = TRUE
    /\ UNCHANGED <<running, toggles, nwVars, mlVars, tlVars, engVars,
                   chainVars, chanVars, rlVars>>

\* The Istanbul core and the network (outside the worker): the validators
\* decide one block at height head+1, either this node's proposal or a
\* peer's.  backend.Commit hands the decided block to sb.commitCh when it
\* is the proposedBlockHash (a blocking send on the one-slot channel).
CoreDecide ==
    /\ decided = NoBlock /\ head.num < MaxHeight
    /\ \E p \in {q \in proposals : q.num = head.num + 1 /\ engStarted}
                \cup {PeerBlock(head.num + 1)} :
         /\ decided' = p
         /\ IF p = proposed
            THEN /\ commitCh = <<>>
                 /\ commitCh' = <<p>>
            ELSE UNCHANGED commitCh
    /\ UNCHANGED <<chain, head, engStarted, proposed, proposals, sealers,
                   nwVars, mlVars, tlVars, envVars, chanVars, rlVars>>

\* The decided block reaches the chain through block propagation and the
\* fetcher (InsertChain), which posts a ChainHeadEvent (blocking feed send).
SyncInsert ==
    /\ decided # NoBlock /\ Len(headCh) < ChainHeadChanSize
    /\ chain' = chain \cup {decided}
    /\ head' = decided
    /\ decided' = NoBlock
    /\ headCh' = Append(headCh, decided.num)
    /\ UNCHANGED <<nwVars, mlVars, tlVars, engVars, envVars,
                   startCh, adjustCh, resultCh, rlVars>>

-----------------------------------------------------------------------------
NewWorkLoop == NWStart \/ NWHead \/ NWTimer \/ NWAdjust \/ NWExit
MainLoop == MLReceive \/ MLExec \/ MLAdjInc \/ MLAdjDec \/ MLCommit \/ MLTaskExit \/ MLExit
TaskLoop == TLReceive \/ TLExit
SealGoroutines == \E s \in sealers : SealerRecv(s) \/ SealerStop(s) \/ SealerSend(s)
ResultLoop == RLRecv \/ RLPost \/ RLExit
Environment == Start \/ Stop \/ Close \/ CoreDecide \/ SyncInsert

Next == NewWorkLoop \/ MainLoop \/ TaskLoop \/ SealGoroutines \/ ResultLoop \/ Environment

\* Every runnable goroutine is eventually scheduled, and the recommit timer
\* eventually fires; the callers and the network are not assumed to act.
Fairness ==
    /\ WF_vars(NewWorkLoop) /\ WF_vars(MainLoop) /\ WF_vars(TaskLoop)
    /\ WF_vars(SealGoroutines) /\ WF_vars(ResultLoop)

Spec == Init /\ [][Next]_vars /\ Fairness

-----------------------------------------------------------------------------
(* Properties                                                              *)

\* taskLoop's interrupt() closes the previous stopCh before a new one is
\* made, and on exit: at any time at most one Seal goroutine is waiting on
\* an open stop channel, and it is the one for the latest task (prev).
OneLiveSealer ==
    \A s \in sealers :
        (s.st = "wait" /\ s.stop \notin closedStops) => (s.stop = tlStop /\ s.blk = tlPrev)

\* Blocks on their way to resultLoop: sent by a Seal goroutine or queued.
InFlightResults ==
    {s.res : s \in {x \in sealers : x.st = "send"}} \cup {resultCh[i] : i \in 1..Len(resultCh)}

\* resultLoop drops a sealed block with no pending task ("Block found but
\* no relative pending task").  A non-empty block of this node that the
\* consensus returns and the chain does not yet have is never dropped so:
\* taskLoop registered it before Seal, and newWorkLoop's clearPending does
\* not purge it while it is in flight.
ResultHasPendingTask ==
    \A r \in InFlightResults :
        (r # NoBlock /\ r.cnt > 0 /\ r \notin chain) => r \in pendingTasks

\* Every build commitNewWork starts ends: the blocking sends on
\* resubmitAdjustCh and taskCh, and the exitCh alternative of commit,
\* never leave mainLoop stuck inside a build.
BuildsTerminate ==
    mlPc \in {"exec", "adjInc", "adjDec", "commit", "task"} ~> mlPc \in {"idle", "done"}

\* The comment of commitTransactionsWithHeader (worker.go:688-692) and the
\* design say a new head event interrupts the build in progress: once
\* newWorkLoop has taken the ChainHeadEvent of a head at or above the block
\* being built, the build's interrupt flag is commitInterruptNewHead.
StaleBuildInterrupted ==
    (mlPc = "exec" /\ mlBlk.num <= head.num /\ headCh = <<>> /\ rlPc # "post")
        => interrupt[mlReq] = InterruptNewHead

\* close() closes exitCh, on which all four loops select, so that they
\* all terminate.
CloseStopsAllLoops ==
    exited ~> (nwPc = "done" /\ mlPc = "done" /\ tlDone /\ rlPc = "done")
=============================================================================
