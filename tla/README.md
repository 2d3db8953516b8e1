# TLA+ models of the Venachain block-proposal engine

These modules model the concurrent and protocol-level behaviour of the
Venachain BFT block-proposal engine described in `spec.md`. Each module
is written from the Go sources under `src/`. `PROJECT.json` maps every
modelled definition to the source lines it translates. It also lists the
TLC runs, the mutants that show each property can fail, the findings,
and the hazards.

## 1. The system

| Part | Source | State | Operations |
|---|---|---|---|
| Sealing pipeline (`worker`) | `src/miner/worker.go` | `running`; `exitCh`; the channels `startCh` (1), `newWorkCh` (0), `taskCh` (0), `resultCh` (10), `chainHeadCh` (10), `resubmitAdjustCh` (10); one `*int32` interrupt flag per build request; `pendingTasks` (seal hash → task); `snapshotBlock` | `start`, `stop`, `close`; the four goroutines `newWorkLoop`, `mainLoop`, `taskLoop`, `resultLoop`; `commitNewWork`, `commitTransactionsWithHeader`, `commit` |
| Istanbul backend | `src/build/env.sh`, lines 37-804 (a Go file) | `coreStarted`, `proposedBlockHash`, `commitCh` (1), the `recents` snapshot cache (128), the signature caches | `Prepare`, `Finalize`, `Seal` (plus one goroutine per call), `Start`, `Stop` |
| Header verifier | `env.sh` 142-358 | none of its own: it reads snapshots | `VerifyHeader(s)`, `verifyCascadingFields`, `verifySigner`, `verifyCommittedSeals` |
| Snapshot engine | `env.sh` 573-670 | recents cache; checkpoints on disk every 1024 blocks | `snapshot`: walk back to a cached or checkpointed snapshot or genesis, then replay |
| Peer set | `src/unnamed/part_000` | peers by node id, known-tx and known-block sets, broadcast queues (128), `term`, `closed` | `Register`, `Unregister`, `Close`; `broadcast` goroutines; `Async*` senders; `Handshake` with two goroutines and a timeout |
| VM return encoding | `src/core/vm/util.go` | none | `MakeReturnBytes`, `toContractReturnValue*Type` |
| Build script | `env.sh` 1-36 | none | shell workspace setup |

How the parts interact:

- `newWorkLoop` decides when to build and sends a request carrying a fresh interrupt flag to `mainLoop`. It triggers on `startCh`, on the recommit timer while running, and, per the spec, on a new head.
- `mainLoop` builds the candidate: `Prepare`, two transaction phases, `Finalize`. If the worker is running, it hands the candidate to `taskLoop`.
- `taskLoop` drops a task whose seal hash equals the previous one. Otherwise it closes the previous seal's stop channel, registers the task, and calls `Seal`.
- `Seal` posts the block to the Istanbul core and starts a goroutine. That goroutine waits on `commitCh` for the decided block with its own hash, or on its stop channel.
- Decided blocks go to `resultLoop`, which writes them to the chain. The chain's head event comes back to `newWorkLoop`.
- `backend.Start` closes `commitCh` and replaces it. Every goroutine still waiting on the old channel then receives nil.
- The protocol handler (not under `src/`) runs `Handshake` on each new connection and then `Register`s the peer, which starts its broadcast goroutines. The handler's read loop and the goroutines call `removePeer(p.id)` when the transport fails, and `Unregister` closes `p.term`, which ends the goroutines.

## 2. Hard behaviours

- Interleavings of the four loops, the Seal goroutines, and the user's `start`/`stop`/`close`.
- Blocking sends: on the unbuffered `newWorkCh` and `taskCh`, and on the bounded `resubmitAdjustCh` and `resultCh`. Which of these offer an `exitCh` alternative matters, because it decides whether the loop can exit while blocked.
- Interrupt flags: each is written at most once, by the next `commit`, and polled between transactions.
- Pending tasks purged by head events while sealed results are still in flight.
- Several Seal goroutines racing for the one-slot `commitCh`.
- Failures of `Prepare`, `Finalize`, `Seal` and `WriteBlockWithState`. Each is only logged, and the loop goes on.
- Pending transactions checked against the pool's state and executed on the new head's state: nonces too low or too high, a gas pool shared by the local and the remote call, and a resubmit interrupt seen by both calls.

`PROJECT.json` lists every hazard at the line where it bites, with the property that covers it or the reason none does yet.

## 3. Modules

### `Worker.tla` (with `MCWorker.tla`)

This module models the whole sealing pipeline and the part of the backend it drives.

**Blocks.** A block is a record `[num, ts, cnt, by]`. Equal records have equal seal hashes.

- `ts` is the timestamp `Prepare` chooses, `max(parent.Time + BlockPeriod, now)`:
  - `0` stands for the parent-derived time;
  - a request id stands for a clock reading unique to that build.
- `cnt` is the number of transactions applied.
- `by` tells the node's own candidates from peers' blocks.

**Actions.** There is one action per `select` case of each loop:

| Loop | Actions |
|---|---|
| `newWorkLoop` | `NWStart`, `NWHead`, `NWTimer`, `NWAdjust`, `NWExit` |
| `mainLoop` | `MLReceive`, `MLExec`, `MLAdjInc`, `MLAdjDec`, `MLCommit`, `MLTaskExit`, `MLExit` |
| `taskLoop` | `TLReceive`, `TLExit` |
| Seal goroutines | `SealerRecv`, `SealerStop`, `SealerSend` |
| `resultLoop` | `RLRecv`, `RLPost`, `RLExit` |

Notes on specific actions:

- `MLExec` is one iteration of the loop in `commitTransactionsWithHeader`. `CommitTransaction` is the outcome of one `commitTransaction` and the Shift or Pop that follows it.
- `UpdateSnapshot` is `updateSnapshot`, run by `commit` in every branch that produced a block.
- Blocking sends are separate control points of a loop: `nwPc = "send"`, `mlPc = "adjInc"`/`"adjDec"`/`"task"`, `rlPc = "post"`, sealer `st = "send"`. This lets other goroutines interleave while a loop is blocked.
- `Start`, `Stop` and `Close` model `worker.start`/`stop`/`close`. `Start` and `Stop` include `backend.Start`/`Stop`.

**Environment.** The Istanbul core, `backend.Commit`, and block import are not under `src/`. They are modelled from the spec:

- `CoreDecide` decides one block per height: the node's own proposal, or a peer's.
- `CoreDecide` hands the decided block to `commitCh` only if it is the `proposedBlockHash`.
- `SyncInsert` inserts the decided block through propagation and posts a head event.

**Abstractions.** The transaction pool is abstracted to a count of pending transactions per phase (local and remote). A failed transaction either shifts one transaction or pops the rest of its account.

**Left out of this module.** The value of the recommit interval, which `Recommit.tla` models on its own: the interval only sets the timer, and the model's timer fires at any time. Receipts, logs and state.

### `Recommit.tla`

The resubmit interval of `newWorkLoop` (worker.go 58-72, 229-235, 319-359, 406-428, 696-699). Durations are in milliseconds.

- `Init` is `newWorker` sanitizing the user's interval and `newWorkLoop` taking it as both `minRecommit` and `recommit`.
- `SetRecommitInterval` is `setRecommitInterval` and the `resubmitIntervalCh` case. It sanitizes only from below, so a user's interval may exceed `maxRecommitInterval`.
- `AdjustInc(used)` is a resubmit interrupt reporting `used` of `GasLimit` gas (`GasRatio`, floored at 0.1), then `recalcRecommit(recommit/ratio, true)`. `AdjustDec` is `recalcRecommit(minRecommit, false)`.
- `RecalcRecommit` computes the moving average `0.9*prev + 0.1*(target ± bias)` and recaps it. It then floors the result to whole milliseconds. The code keeps fractions of a millisecond and truncates only to nanoseconds in `time.Duration(int64(next))`, so the model's interval can differ from the code's by less than a millisecond. The limits the code compares against (1 s, 15 s, the user's minimum) are whole milliseconds, so the properties about them are unaffected.

The `Worker` model handles the sending and receiving of these adjustments (`MLAdjInc`, `MLAdjDec`, `NWAdjust`). This module handles their values.

### `HeaderVerifier.tla`

Header verification (env.sh 149-346, 690-708) as pure operators, one per Go function, returning `"ok"` or the error the code returns:

- `VerifyHeader` covers both `VerifyHeader` and `verifyHeader`: the pivot shortcut, then the future-block check. The unparsed extra is ignored, as the commented-out rejection leaves it.
- `VerifyCascadingFields`, `VerifySigner` (with `Ecrecover`), `VerifyVRF` and `VerifyCommittedSeals` follow the code's order of checks.
- `CountSeals` is the seal loop as a RECURSIVE operator: an unrecoverable seal fails, a validator still in the copied set counts and is removed, anything else fails.
- `Quorum` is `Size - F`. `QuorumTwoF` is the commented-out `2*F` threshold, used as a mutant.
- The header is abstracted to the facts the checks read: whether the parent is known, the timestamp class (`early`/`ok`/`future`), whether the extra parses, the recovered signer, whether the VRF nonce is valid, and the sequence of recovered committed-seal addresses (`BadSig` for one that does not recover, `Outsider` for a non-validator).
- `SpecAccepts` states spec section 8's rule declaratively (distinct seals via `ToSet`, counted with `Cardinality`). It is the reference the code is checked against.

### `VerifierAgreement.tla` (with `MCVerifierAgreement.tla`)

This module shows what the quorum check is for. The Istanbul core and the chain import are not under `src/`, so both are modelled from the spec:

- `CommitSeal` lets an honest validator give a committed seal to one block of a height.
- A byzantine validator's seal is available for every block.
- `InsertHeader` is block propagation (the fetcher). It imports a header for a block only when `VerifyHeader` accepts it. The header's seals may be any sequence, up to `MaxSeals` long, of the block's sealers, an outsider and unrecoverable seals (`Importable`).
- The syncing node (`Syncer`) can also import through the downloader. `StartBatch` calls `VerifyHeaders` on a batch of `BatchLen` headers whose first header is one of block `b`. Its answer, `verifyHeader` without the pivot shortcut, is fixed by that header. The batch's producer goroutine is `VerifyHeaders.tla` itself, taken in with `VH == INSTANCE VerifyHeaders WITH ...`. `BatchProducer` is its step, and `BatchReceive` and `BatchAbort` are the import reading a result or closing `abort`. A nil result for the height-1 header inserts its block.
- `MCVerifierAgreement` also checks `VerifyHeader` against `SpecAccepts` in every state, over every header of a block whose seals come from that block's current sealers, an outsider or an unrecoverable seal. Once the honest validators have all sealed `b1`, these are all of the about 37,000 headers with up to three seals.

### `VerifyHeaders.tla`

The batch verifier's producer goroutine (env.sh 229-244):

- `Verify` computes one result.
- `SendAbort` and `SendResult` are the two cases of its `select`.
- The results channel has `ResultsCap(N) = N` slots.
- The caller (`Receive`, `Abort`) is the chain import and is modelled from the spec. It may read, close `abort`, or do nothing.
- `VerifierAgreement` instantiates this module for the syncing node's batch.

### `Snapshot.tla` and `AbstractSnapshot.tla` (with `MCSnapshot.tla`)

`backend.snapshot` (env.sh 573-669). Each iteration of its `for` loop is one action:

- `WalkRecents`: a cache hit.
- `WalkDisk`: a checkpoint hit.
- `WalkGenesis`: builds the one-validator genesis snapshot and stores it.
- `WalkGenesisSpin`: the `continue` taken when the first validator's key does not unmarshal.
- `WalkBack`: gathers the header and moves to its parent.

`Finish` is everything after the loop, in one step:

- the reversal loop (`SwapLoop`, RECURSIVE, written as the Go loop is);
- the replay;
- `recents.Add`, with ARC eviction at capacity (`AddRecent`);
- the checkpoint store.

Other callers and a restart (the cache is lost, the disk kept) interleave between iterations. `Snapshot.apply`, `newSnapshot`, `store` and `loadSnapshot` are not under `src/`. The spec says apply replays each header's votes in order, so a vote here adds or drops one validator.

`AbstractSnapshot` is the promise: a lookup of height `n` answers `SnapAt(n)`, which is defined recursively from genesis. `Snapshot` instantiates it with a refinement mapping in which a walking caller is `busy`, and checks `AbsSnap!ASpec` as a property.

### `ReturnBytes.tla` (with `MCReturnBytes.tla`)

`core/vm/util.go` as operators over byte sequences:

- `MakeReturnBytes`: an offset word holding 32, a length word, then the data zero-padded by `DataRealSize`.
- `BytesToHash`: left-pads to 32 bytes.
- `BigEndian`: `Int32ToBytes` and `Int64ToBytes`.
- `toContractReturnValueIntType` and `UintType`: for a call, `Int64ToBytes`/`Uint64ToBytes` (8 bytes, two's complement for `int64`); otherwise `Align32Bytes` of `math.U256(x).Bytes()` or of the 8 bytes. `U256Bytes` wraps a negative value to `2^256 + n`, which is 32 bytes of two's complement. `AbsBytes` is `big.Int.Bytes()`, minimal and big-endian. The `life/utils` helpers and `math.U256` are outside the repository and are modelled by what they do.
- `toContractReturnValueStringType` and `toContractReturnValueStructType`: the struct path's `json.Marshal` is reduced to its bytes or its failure (an empty slice).

`IsABIBytes` is the reference: the ABI dynamic-bytes layout stated by decoding the words (a RECURSIVE `WordValue`), not by building them. `SignedValue` reads a word back as a two's-complement number. `MCReturnBytes` walks every value up to 65 bytes, as a string or a struct, under three transaction types, and 18 integers on both sides of the byte boundaries, 0 and -1 included.

### `PeerSet.tla` (with `MCPeerSet.tla`)

The eth protocol's peer and peer set (`src/unnamed/part_000`). A connection is a peer object; two connections of one remote node share an id.

- `Connect` starts `Handshake`: `errc` with `ErrcCap = 2` slots and the two goroutines. `HsSend` is one goroutine sending its result (blocking while `errc` is full). `HsReceive` is one iteration of the `HandshakeLoops = 2` loop, ending with the status `json.Unmarshal`, which may fail, and `Register`. `HsTimeout` is the timer case.
- `Register` fails with `errClosed` or `errAlreadyRegistered`, or stores the peer and starts its goroutines. `Unregister` deletes the peer and closes `term`. `Close` disconnects every registered peer and sets `closed`.
- `BcastTake`, `BcastSent` and `BcastTerm` are the transaction and hash goroutines of `broadcast`: take a batch, `p2p.Send` it (on error `removePeer(p.id)` and return), or return on `term`.
- `AsyncSendTransactions` queues or drops. `AnnounceHashes`, `AnnounceQueued` and `AnnounceDropped` are `AsyncSendPooledTransactionHashes`: it blocks until the queue has room or `term` closes.
- The protocol handler is not under `src/`, and is modelled as the go-ethereum handler this code follows. `Connect` admits one live connection per node. `HandlerFails` is an error return, after which p2p drops the connection. `HandlerExit` is the read loop failing and its deferred `removePeer`. `LinkFails` is the transport going away. `RemovePeer` is `Unregister` plus a disconnect of the peer under that id.
- Left out: the `knownTxs`/`knownBlocks` sets, which only filter later broadcasts, and the block goroutine, which has the same shape as the two modelled.


### `CommitTxs.tla` (with `MCCommitTxs.tla`)

This module models the transaction phase of one build in detail. `Worker` reduces that phase to counts in `MLExec`. The code is worker.go 617-642, 658-782 and 866-888.

- **State.** `nonce` and `txs` are `w.current`'s state nonces and transactions. `gasPool` is `w.current.gasPool`, which is nil until the first call uses it. `calls` holds the `TransactionsByPriceAndNonce` of this call and of the next one. `interrupt` is the build's flag.
- **`Init`.** It covers `makeCurrent`, `PendingLimited` and the split by `Locals()`. The first `commitTransactionsWithHeader` call gets the local accounts, or the remote accounts if no local account has transactions. It also creates the pool. An empty pending set goes straight to commit.
- **`Iterate`.** This is one turn of the loop, in the code's order:
  1. the interrupt poll;
  2. the `TxGas` check;
  3. `Peek`;
  4. `commitTransaction`;
  5. the switch. Gas limit and nonce too high `Pop` the account. Nonce too low, success and any other error `Shift`.
- **`AdjInc` and `AdjDec`.** These are the feedback sends followed by `return false`. That return goes on to the next call, carrying the pool over, or to commit. `StoreInterrupt` is `newWorkLoop`'s `commit` storing the flag once.
- **Assumptions not taken from `src/`.** `ApplyTransaction` (`Verdict`) checks the nonce, then the balance, then `SubGas`, as go-ethereum does. Every error happens before the state changes. Prices are not represented, so `Peek` may return any account's head.

### Later modules

1. The snapshot walk with explicit batch parents and `ErrUnknownAncestor`, and the verifier reading the snapshot it computes.

## 4. Runs

| Run | cfg | Expect | Checks |
|---|---|---|---|
| `worker_safety` | `MCWorker.cfg` | pass | `TypeOK`, `OneLiveSealer`, `ResultHasPendingTask` |
| `worker_shutdown` | `MCWorkerShutdown.cfg` | pass | `BuildsTerminate` |
| `worker_stale_build` | `MCWorkerStaleBuild.cfg` | violation | `StaleBuildInterrupted` |
| `worker_close` | `MCWorkerClose.cfg` | violation | `CloseStopsAllLoops` |
| `hv_agreement` | `MCVerifierAgreement.cfg` | pass | `Agreement`, `VerifyMatchesSpec`, `BatchProducerTerminates` |
| `snapshot_refinement` | `MCSnapshot.cfg` | pass | `RefinesAbstract` |
| `snapshot_genesis_spin` | `MCSnapshotGenesis.cfg` | violation | `LookupTerminates` |
| `commit_txs` | `MCCommitTxs.cfg` | pass | `TypeOK`, `BlockGasWithinLimit`, `PendingExhausted`, `BuildEnds` |
| `recommit_limits` | `MCRecommit.cfg` | pass | `RecommitWithinLimits`, `FeedbackReachesLimits` |
| `returnbytes_abi` | `MCReturnBytes.cfg` | pass | `ReturnEncoding`, `IntegerEncoding` |
| `peerset_liveness` | `MCPeerSet.cfg` | pass | `HandshakeOkAfterBothResults`, `HandshakeGoroutinesExit`, `AnnouncerReturns`, `CloseStopsPeers` |
| `peerset_stale_remove` | `MCPeerSetStaleRemove.cfg` | violation | `OwnRemovalOnly` |

What each run shows:

- **`OneLiveSealer`**: at most one Seal goroutine waits on an open stop channel, and it belongs to the latest task. This is what `taskLoop`'s `interrupt()` is for. The mutant that leaves out the close breaks it.
- **`ResultHasPendingTask`**: a non-empty sealed block that the chain lacks always still has its pending task, so `resultLoop` never drops it.
  - Breaking it takes four actors: `taskLoop` registers the block, the consensus decides it, a Seal goroutine forwards it, and a head event makes `clearPending` run meanwhile.
  - The mutant with the staleness comparison turned around breaks it.
- **`BuildsTerminate`**: every build `mainLoop` starts returns to its `select`, through the blocking adjust sends and `commit`'s task send. It still holds when `close()` happens during a build and `taskLoop` has already returned. Without `commit`'s `exitCh` alternative, it fails.
- **`TypeOK`** also states that no nil stop channel is ever closed, which would panic.
- **`StaleBuildInterrupted`** (violation, 6 steps): a peer block becomes the head while a build on the old head runs, and `newWorkLoop` takes the head event. The build's flag stays `commitInterruptNone`, because the head case's `commit` is commented out (worker.go:381).
- **`CloseStopsAllLoops`** (violation): after `close()`, `mainLoop` returns. `newWorkLoop` then takes `startCh`, which is also ready, and blocks forever sending on `newWorkCh` (worker.go:335).

- **`VerifyMatchesSpec`**: in every state of the agreement model, on every header of a valid chain that the seals given so far allow, the cascade of checks accepts exactly what spec section 8 accepts. The mutant with the `2*F` threshold breaks it.
- **Known divergence, no run:** with a replay pivot at height 1, `VerifyHeader` skips every check at or below the pivot (env.sh:150), so `VerifyMatchesSpec` fails in the initial state. The spec does not mention the pivot. `VerifyHeaders` calls `verifyHeader` directly and would reject the same header. The runs use `Pivot = 0`.
- **`Agreement`**: with one byzantine validator of four, two nodes never import different blocks of one height, whether through propagation or the syncing node's batch.
  - Breaking it takes the byzantine validator sealing both blocks, the honest validators split between them, and two imports.
  - The mutant whose seal loop forgets `RemoveValidator` (a validator counted twice) breaks it.
- **`BatchProducerTerminates`**: once a batch is started, its producer goroutine finishes even if the import never reads and never aborts, because the buffer holds the whole batch. A buffer one slot short leaks it.
- **`RecommitWithinLimits`**: whatever the user sets and whatever feedback arrives, `recommit` stays at or above 1 s. It stays at or below 15 s, or at or below the user's interval if that is larger. It stays at or above the user's minimum while that minimum is at most 15 s. Above 15 s an increase recaps the interval below the user's minimum, and the next decrease floors it back up. The property states that boundary exactly. An increase that is not recapped breaks it.
- **`FeedbackReachesLimits`**: in every reachable state, an increase at any gas ratio raises the interval or lands on the cap, and a decrease above the user's minimum lowers it. With a full block, the ratio is 1 and the moving average alone would leave the interval where it is. The comment on `intervalAdjustBias` says the bias exists to make the limits reachable, and dropping the bias breaks the property.
- **`BlockGasWithinLimit`**: the gas of the transactions taken and the gas left in the pool add up to `header.GasLimit`, across the local and the remote call. A pool refilled on every call, without the nil check, breaks it on the second call.
- **`PendingExhausted`**: a build that runs to its end without an interrupt leaves no account with an executable transaction that still fits the pool. An executable transaction carries the account's nonce and is not rejected for balance. Pending lists that start below the build's nonce come from the race between the pool and a new head. Their stale head must be `Shift`ed so the account's next transaction is tried, as spec section 9 says. Treating nonce too low like nonce too high, with a `Pop`, breaks it.
- **`BuildEnds`**: every build ends, committed or discarded. The loop has no bound of its own and ends only because each outcome shifts or pops. A nonce-too-low case without its `Shift` spins forever.
- **`RefinesAbstract`**: every snapshot answered equals the one replayed from genesis. This holds whether the answer comes from the cache, a checkpoint or genesis, across evictions, a restart and a concurrent caller's cache writes and checkpoints. The reversal loop run one step past the middle breaks it.
- **`LookupTerminates`** (violation): with a first-validator key that does not unmarshal, a walk reaching genesis `continue`s forever with `number = 0` (env.sh:616). The spec calls genesis misconfiguration a fatal error.
- **`ReturnEncoding`**: calls and Solidity-compatible WASM calls get the raw bytes; every other transaction type gets a well-formed ABI encoding of exactly the data. A size computation that pads even at a multiple of 32 breaks it.
- **`IntegerEncoding`**: an `int64` return is 8 bytes for a call and one 32-byte word otherwise, and reads back as the value returned, negative values included. A `uint64` return reads back as its value. Encoding a negative value by its magnitude, without `math.U256`, breaks it.
- **`HandshakeOkAfterBothResults`**: a peer is active only when both handshake goroutines have reported success, whichever order their results reach `errc`. A loop that stops after the first value breaks it.
- **`HandshakeGoroutinesExit`**: no handshake goroutine stays blocked on `errc`, even after a timeout or an early error has made `Handshake` return. An `errc` with one slot breaks it.
- **`AnnouncerReturns`**: a caller blocked in `AsyncSendPooledTransactionHashes` always returns. The hash goroutine may have quit on a send error, so this relies on `Unregister` closing `term`. An `Unregister` that does not call `p.close()` breaks it.
- **`CloseStopsPeers`**: after `peerSet.Close`, every handler returns and every broadcast goroutine exits. A `Close` that only sets `closed` breaks it.
- **`OwnRemovalOnly`** (violation, 16 states): a peer leaves the set only when its own connection failed or the set closed. TLC's trace:
  1. Connection `c1` registers.
  2. Its link fails, and its handler removes it.
  3. A batch queued to `c1` is still taken by its transaction goroutine, because `select` may pick it although `term` is closed.
  4. The node reconnects as `c2` and registers.
  5. `c1`'s send fails, and `removePeer(n1)` unregisters and disconnects the healthy `c2` (part_000:177).

### Bounds

- Heights 0..2 (`MaxHeight`): a head can move while a build, a seal and a result are in flight, and a task can become stale.
- Two build requests (`MaxReqs`): enough for a resubmit interrupting a running build, and for two Seal goroutines with one stop closed.
- At most one pending transaction per build (`MaxTxs`): empty and non-empty blocks, successful and failed transactions.
- Start/stop/start (`MaxToggles` = 3): exercises `backend.Start` closing a `commitCh` that still holds a block.
- Channel capacities are those of worker.go (10).
- Staleness depth: `StaleThreshold` = 1 instead of 7, so that `clearPending` deletes tasks within three heights. The comparison itself is unchanged.

`worker_safety` explores about 2 million states. `worker_shutdown` uses one height and no failures but allows `close()`; it explores about 0.4 million states.

- Header verifier: four validators (the smallest set with `F = 1`), up to three committed seals (one below and at the quorum of 3, with room for a duplicate), every timestamp class and flag. Agreement uses two blocks and two nodes, one of which also imports a batch of two headers. That is enough for the two entry points to race and for the one-slot-short buffer to block. About 5,000 states are explored in about 80 s, most of it spent checking `VerifyMatchesSpec` in every state.
- Recommit: the user's intervals 500 ms (sanitized), 3 s and 20 s (above the cap), and a gas limit of ten units, which gives every ratio from the 0.1 floor to a full block. This reaches about 26,000 (minimum, interval) pairs: every duration the feedback can produce from these settings.
- Return values: 0..65 bytes, which covers the empty value, one byte short of a word, exactly one and two words, and one byte past them. The byte is 255, so data and zero padding differ.
- Peer set: two successive connections of one node (the smallest case with a stale goroutine and a live peer under one id), one transaction, one-slot queues (so a full queue blocks or drops), and `Close` at any point. This gives about 70,000 states.
- Transaction phase: two senders, each with up to two transactions whose nonces start one below, at or one above the parent state's nonce. Each transaction uses 3 or 6 gas of a 10-gas block, and some fail the balance check. Every local/remote split is taken, with an interrupt at any point. This covers every branch of the switch, the gas break and both calls sharing a pool, in about 94,000 states.
- Integers: -65537..65536 around the 1-, 2- and 3-byte boundaries, both signs.
- Snapshot: headers 0..3 with checkpoint interval 2, so both a checkpoint hit and a replay of two headers on top of genesis happen. The cache holds two entries, so eviction happens. There are two callers and one restart.

`MCWorker.cfg` switches on `EnvFaults`: `Prepare`, `Finalize`, `Seal` and `WriteBlockWithState` may fail.

### Fairness and deadlock

- Fairness is weak fairness on each goroutine: the four loops and the Seal goroutines. The Go scheduler eventually runs every runnable goroutine, and the recommit timer eventually fires.
- The callers (`start`/`stop`/`close`) and the network (`CoreDecide`, `SyncInsert`) get no fairness.
- In `PeerSet` the handshake goroutines, the handshake loop with its timer, the handler's read loop, the broadcast goroutines and a blocked announcer are weakly fair. The transport has read and write deadlines, so `p2p.Send` and the read return. Connections, link failures, callers and `Close` are not fair. Deadlock checking is off, because once both connections have ended nothing is left to do.
- In `VerifierAgreement` only the batch producer goroutine is fair. `Recommit` has no liveness property and no fairness. Its feedback comes from builds, which the environment drives. In `Snapshot` each walking caller is fair; requests and restarts are not. In `CommitTxs` only `mainLoop`'s build is fair; `newWorkLoop` may or may not interrupt it. Deadlock checking is off there, because a committed or discarded build is finished.
- Deadlock checking is off. Once the bounded callers and network stop producing events, the worker idles in its `select`s. After `close()`, the loops that return stop for good. `BuildsTerminate` checks that no build is left stuck.
- `VerifierAgreement` also runs without deadlock checking: honest validators can split so that no block reaches a quorum, and the core's round change that would resolve this is not modelled.
- `Recommit` is checked for deadlock. A new adjustment can always arrive.
- `Snapshot` and `ReturnBytes` are checked for deadlock.

### Timing assumption

`NWTimer` fires only when `resubmitAdjustCh` is empty. The recommit interval is at least 500 ms, much longer than draining an adjustment already queued. Without this assumption, an adversarial `select` could let the adjust channel fill.

## 5. Not modelled

- **Build script** (env.sh 1-36): pure I/O.
- **Signature and extra-data encoding**: byte-level work (sigHash, the recovery inside ecrecover, prepareExtra, writeSeal). `Ecrecover` keeps only its outcomes.
- **The Istanbul core's message protocol**: not under `src/`; only its decisions are modelled.
- **The chain database, the transaction pool and EVM execution**: abstracted to counts and outcomes.
- **The peer's known sets and block goroutine**: `knownTxs` and `knownBlocks` only filter later broadcasts. Their growth past `maxKnownTxs` is a size question that a model with one transaction cannot reach. The block goroutine has the same `select` as the two that are modelled. The `Send*`/`Request*` helpers are single `p2p.Send` calls, and the peer queries only read the set.
- **The gas-price order of `TransactionsByPriceAndNonce`**: `CommitTxs` lets `Peek` return any account's head, which covers every price assignment.
- **The `StateDB` tests in worker.go (1003-1311)**: they test `state.StateDB`, which is not under `src/`. Nothing in the miner depends on their scenarios.
- **The abort promptness of `VerifyHeaders`**: after `close(abort)` the producer may still send results, because Go's `select` has no order between ready cases. The spec's wording suggests it stops, but the buffer holds the batch, so nothing blocks (`BatchProducerTerminates`).
- **`VerifySeal`**: it is `verifySigner` after a genesis check.
- **The snapshot lookup inside the verifier**: it always succeeds there. The snapshot engine is checked on its own.
- **The vote tally of `Snapshot.apply`**: not under `src/`. It is reduced to one add or drop per header.
