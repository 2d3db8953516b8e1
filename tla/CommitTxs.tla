------------------------------ MODULE CommitTxs ------------------------------
(***************************************************************************)
(* The transaction phase of one build of miner/worker.go: commitNewWork    *)
(* splits the pending transactions into local and remote accounts and      *)
(* calls commitTransactionsWithHeader once for each non-empty half; each   *)
(* call walks a TransactionsByPriceAndNonce, polling the build's interrupt *)
(* flag, which newWorkLoop may store at any time, before every transaction. *)
(*                                                                         *)
(* A transaction is a record of its sender, nonce, the gas it uses and     *)
(* whether ApplyTransaction rejects it for another reason (balance).       *)
(* TransactionsByPriceAndNonce keeps each account's transactions in nonce  *)
(* order and Peeks the head with the highest gas price; prices are not     *)
(* represented, so Peek may return any account's head.                     *)
(***************************************************************************)
EXTENDS Integers, Sequences, SequencesExt

CONSTANTS
    Accounts,   \* senders
    Pendings,   \* pending maps PendingLimited may return: [Accounts -> Seq(Tx)]
    ParentNonces, \* account nonces the parent state may hold
    GasLimit,   \* header.GasLimit
    TxGas       \* params.TxGas, the least gas of any transaction

\* commitInterruptNone, commitInterruptNewHead, commitInterruptResubmit
InterruptNone == 0
InterruptNewHead == 1
InterruptResubmit == 2

\* w.current.gasPool before its first use in a build
NilPool == -1

Tx == [acct : Accounts, nonce : Nat, gas : Nat, bad : BOOLEAN]

VARIABLES
    pc,         \* "loop", "adjInc", "adjDec", "discarded", "committed"
    calls,      \* the TransactionsByPriceAndNonce of this call and the next
    nonce,      \* account nonces of w.current.state
    gasPool,    \* w.current.gasPool
    txs,        \* w.current.txs
    interrupt,  \* the build's *int32 interrupt flag
    pending     \* what PendingLimited returned, for the properties

vars == <<pc, calls, nonce, gasPool, txs, interrupt, pending>>

TypeOK ==
    /\ pc \in {"loop", "adjInc", "adjDec", "discarded", "committed"}
    /\ calls \in Seq([Accounts -> Seq(Tx)]) /\ Len(calls) <= 2
    /\ nonce \in [Accounts -> Nat]
    /\ gasPool \in {NilPool} \cup 0..GasLimit
    /\ txs \in Seq(Tx)
    /\ interrupt \in {InterruptNone, InterruptNewHead, InterruptResubmit}

\* Gas used so far by the build, the numerator of the resubmit ratio.
GasUsed == IF gasPool = NilPool THEN 0 ELSE GasLimit - gasPool

\* The gas pool without the nil check: every call refills it.
PoolOnEntryRefill(pool) == GasLimit

\* if w.current.gasPool == nil { ... AddGas(header.GasLimit) }: the pool is
\* created by the first call of a build and carried over to the next.
PoolOnEntry(pool) == IF pool = NilPool THEN GasLimit ELSE pool

\* The heap of accounts of one call.
Heap(p, accts) == [a \in Accounts |-> IF a \in accts THEN p[a] ELSE <<>>]

NonEmpty(h) == \E a \in Accounts : h[a] # <<>>

\* commitNewWork after makeCurrent (tcount 0, no gas pool): PendingLimited,
\* then the split by TxPool().Locals() and the first call, for the local
\* accounts if any has transactions.  An empty pending set goes straight
\* to commit.
Init ==
    \E p \in Pendings, locals \in SUBSET Accounts, n0 \in ParentNonces :
        LET heaps == SelectSeq(<<Heap(p, locals), Heap(p, Accounts \ locals)>>, NonEmpty)
        IN  /\ pending = p
            /\ nonce = n0
            /\ txs = <<>>
            /\ interrupt = InterruptNone
            /\ calls = heaps
            /\ pc = IF heaps = <<>> THEN "committed" ELSE "loop"
            /\ gasPool = IF heaps = <<>> THEN NilPool ELSE PoolOnEntry(NilPool)

\* `return false` from a call: the next call with the pool carried over,
\* or commit when this was the last.
ReturnFalse ==
    /\ calls' = Tail(calls)
    /\ IF Tail(calls) = <<>>
       THEN pc' = "committed" /\ UNCHANGED gasPool
       ELSE pc' = "loop" /\ gasPool' = PoolOnEntry(gasPool)

\* ApplyTransaction without gasPool.SubGas's check.
VerdictNoGasCheck(tx) ==
    CASE tx.nonce < nonce[tx.acct] -> "ErrNonceTooLow"
      [] tx.nonce > nonce[tx.acct] -> "ErrNonceTooHigh"
      [] tx.bad                    -> "other"
      [] OTHER                     -> "ok"

\* core.ApplyTransaction's verdict on tx in the current state: the nonce
\* checks, then the sender's balance, then gasPool.SubGas.  Every error is
\* raised before the state changes, so RevertToSnapshot restores nothing.
Verdict(tx) ==
    CASE tx.nonce < nonce[tx.acct] -> "ErrNonceTooLow"
      [] tx.nonce > nonce[tx.acct] -> "ErrNonceTooHigh"
      [] tx.bad                    -> "other"
      [] tx.gas > gasPool          -> "ErrGasLimitReached"
      [] OTHER                     -> "ok"

Shift(h, a) == [h EXCEPT ![a] = Tail(@)]
Pop(h, a) == [h EXCEPT ![a] = <<>>]

\* The switch with nonce-too-low popping the account like nonce-too-high.
AfterTxLowPops(h, a, verdict) ==
    IF verdict \in {"ErrGasLimitReached", "ErrNonceTooLow", "ErrNonceTooHigh"}
    THEN Pop(h, a) ELSE Shift(h, a)

\* The switch with the Shift of the nonce-too-low case left out.
AfterTxLowStays(h, a, verdict) ==
    CASE verdict = "ErrNonceTooLow"                       -> h
      [] verdict \in {"ErrGasLimitReached", "ErrNonceTooHigh"} -> Pop(h, a)
      [] OTHER                                              -> Shift(h, a)

\* The switch on commitTransaction's error.
AfterTx(h, a, verdict) ==
    CASE verdict = "ErrGasLimitReached" -> Pop(h, a)
      [] verdict = "ErrNonceTooLow"     -> Shift(h, a)
      [] verdict = "ErrNonceTooHigh"    -> Pop(h, a)
      [] verdict = "ok"                 -> Shift(h, a)
      [] OTHER                          -> Shift(h, a)

\* commitTransaction: on success the transaction is appended, the nonce
\* advanced and its gas taken from the pool.
CommitTransaction(tx) ==
    IF Verdict(tx) = "ok"
    THEN /\ txs' = Append(txs, tx)
         /\ nonce' = [nonce EXCEPT ![tx.acct] = @ + 1]
         /\ gasPool' = gasPool - tx.gas
    ELSE UNCHANGED <<txs, nonce, gasPool>>

\* One iteration of the loop of commitTransactionsWithHeader: the interrupt
\* poll (resubmit goes on to report the gas ratio, new head returns true
\* and commitNewWork discards the build), the gas check, Peek, and one
\* transaction with the switch on its error.
Iterate ==
    LET h == Head(calls) IN
    /\ pc = "loop"
    /\ \/ /\ interrupt = InterruptResubmit
          /\ pc' = "adjInc"
          /\ UNCHANGED <<calls, nonce, gasPool, txs>>
       \/ /\ interrupt = InterruptNewHead
          /\ pc' = "discarded"
          /\ UNCHANGED <<calls, nonce, gasPool, txs>>
       \/ /\ interrupt = InterruptNone
          /\ gasPool < TxGas \/ ~NonEmpty(h)
          /\ pc' = "adjDec"
          /\ UNCHANGED <<calls, nonce, gasPool, txs>>
       \/ /\ interrupt = InterruptNone /\ gasPool >= TxGas
          /\ \E a \in {x \in Accounts : h[x] # <<>>} :
               LET tx == Head(h[a]) IN
               /\ CommitTransaction(tx)
               /\ calls' = [calls EXCEPT ![1] = AfterTx(h, a, Verdict(tx))]
          /\ UNCHANGED pc
    /\ UNCHANGED <<interrupt, pending>>

\* w.resubmitAdjustCh <- {ratio, inc: true}, then return false (the flag is
\* commitInterruptResubmit, not commitInterruptNewHead).
AdjInc ==
    /\ pc = "adjInc"
    /\ ReturnFalse
    /\ UNCHANGED <<nonce, txs, interrupt, pending>>

\* After the loop: w.resubmitAdjustCh <- {inc: false}, then return false.
AdjDec ==
    /\ pc = "adjDec"
    /\ ReturnFalse
    /\ UNCHANGED <<nonce, txs, interrupt, pending>>

\* newWorkLoop's commit stores a signal in the build's flag, once: it then
\* allocates a fresh flag for the next build.
StoreInterrupt ==
    /\ interrupt = InterruptNone /\ pc \notin {"discarded", "committed"}
    /\ \E s \in {InterruptNewHead, InterruptResubmit} : interrupt' = s
    /\ UNCHANGED <<pc, calls, nonce, gasPool, txs, pending>>

Next == Iterate \/ AdjInc \/ AdjDec \/ StoreInterrupt

\* mainLoop runs the build; newWorkLoop is not assumed to interrupt it.
Spec == Init /\ [][Next]_vars /\ WF_vars(Iterate \/ AdjInc \/ AdjDec)

-----------------------------------------------------------------------------
BlockGas == FoldLeft(LAMBDA g, tx : g + tx.gas, 0, txs)

\* The block never uses more gas than its header allows, across the local
\* and the remote call: once the pool exists, the gas of the transactions
\* taken and the gas left add up to header.GasLimit.
BlockGasWithinLimit ==
    gasPool # NilPool => BlockGas + gasPool = GasLimit

\* The next transaction an account could execute: its pending transaction
\* whose nonce is the account's nonce in the build's state.
Executable(a) ==
    {tx \in ToSet(pending[a]) : tx.nonce = nonce[a] /\ ~tx.bad}

\* Spec 4.4 and 9: a nonce-too-low transaction makes the build try the
\* account's next one, and only nonce-too-high or the gas limit give up on
\* an account.  A build that ran to its end without an interrupt leaves
\* no account with an executable transaction that still fits the pool.
PendingExhausted ==
    (pc = "committed" /\ interrupt = InterruptNone) =>
        \A a \in Accounts : \A tx \in Executable(a) :
            tx.gas > gasPool \/ gasPool < TxGas

\* Every build mainLoop starts ends, committed or discarded: each turn of
\* the loop shifts or pops a transaction, or leaves the call.
BuildEnds == <>(pc \in {"discarded", "committed"})
====
