------------------------- MODULE VerifierAgreement -------------------------
(***************************************************************************)
(* Nodes importing competing blocks of one height.  Every node can import *)
(* a propagated block through VerifyHeader; the syncing node can also    *)
(* import one through a batch of VerifyHeaders, whose producer goroutine   *)
(* (VerifyHeaders.tla) calls verifyHeader, without the pivot shortcut.   *)
(* The Istanbul core (not under src/) gives committed seals: an honest    *)
(* validator seals at most one block of a height, a byzantine one any     *)
(* number.  A node accepts a header only when VerifyHeader returns nil.    *)
(* What a header can carry is bounded by who sealed what: its committed   *)
(* seals are drawn from the sealers of its block, an outsider's and       *)
(* unrecoverable ones, repeated in any order.                              *)
(***************************************************************************)
EXTENDS HeaderVerifier

CONSTANTS
    Syncer,     \* the node whose downloader imports a batch
    BatchLen    \* len(headers) of that batch: height 1, then later heights

ASSUME Syncer \in Nodes /\ BatchLen \in Nat \ {0}

VARIABLES
    sealed,     \* sealed[v]: the block an honest validator committed to
    accepted,   \* accepted[n]: the block node n imported at height 1
    batch,      \* the batch's height-1 block and whether verifyHeader
                \* accepts its header, or NoBatch
    vhPc, vhI, vhResults, vhAbort, vhReceived   \* VerifyHeaders' state

vhVars == <<vhPc, vhI, vhResults, vhAbort, vhReceived>>
vars == <<sealed, accepted, batch, vhVars>>

\* The batch verifier, run over this batch.
VH == INSTANCE VerifyHeaders
    WITH N <- BatchLen, pc <- vhPc, i <- vhI, results <- vhResults,
         abortClosed <- vhAbort, received <- vhReceived

NoBatch == [block |-> NoBlock, ok |-> FALSE]

Honest == Validators \ Byzantine

\* Addresses whose committed seal on block b can exist.
SealersOf(b) == Byzantine \cup {v \in Honest : sealed[v] = b}

\* The height-1 headers of block b a node can be given: otherwise well
\* formed, proposed by any validator, with committed seals drawn from b's
\* sealers, an outsider and unrecoverable ones.
Importable(b) ==
    {[num |-> 1, block |-> b, parentOk |-> TRUE, time |-> "ok", extraOk |-> TRUE,
      signer |-> signer, vrfOk |-> TRUE, seals |-> seals] :
        seals \in BoundedSeq(SealersOf(b) \cup {Outsider, BadSig}, MaxSeals),
        signer \in Validators}

Init ==
    /\ sealed = [v \in Honest |-> NoBlock]
    /\ accepted = [n \in Nodes |-> NoBlock]
    /\ batch = NoBatch
    /\ VH!Init

\* The core's commit step: an honest validator signs a committed seal for
\* the one block it commits to at this height.
CommitSeal(v, b) ==
    /\ sealed[v] = NoBlock
    /\ sealed' = [sealed EXCEPT ![v] = b]
    /\ UNCHANGED <<accepted, batch, vhVars>>

\* Block propagation: the chain inserts a header only if VerifyHeader
\* accepts it.
InsertHeader(n, b) ==
    /\ accepted[n] = NoBlock
    /\ \E h \in Importable(b) : VerifyHeader(Validators, h) = "ok"
    /\ accepted' = [accepted EXCEPT ![n] = b]
    /\ UNCHANGED <<sealed, batch, vhVars>>

\* The downloader calls VerifyHeaders on a batch starting with a header of
\* block b; what verifyHeader will answer for it is fixed by the header.
StartBatch(b) ==
    /\ batch = NoBatch
    /\ \E h \in Importable(b) :
          batch' = [block |-> b, ok |-> verifyHeader(Validators, h) = "ok"]
    /\ UNCHANGED <<sealed, accepted, vhVars>>

\* The producer goroutine takes a step.
BatchProducer ==
    /\ batch # NoBatch
    /\ VH!Producer
    /\ UNCHANGED <<sealed, accepted, batch>>

\* The import reads the next result; a nil result for the height-1 header
\* inserts its block, unless the node has one at that height already.
BatchReceive ==
    /\ VH!Receive
    /\ accepted' = IF Head(vhResults) = 1 /\ batch.ok /\ accepted[Syncer] = NoBlock
                   THEN [accepted EXCEPT ![Syncer] = batch.block]
                   ELSE accepted
    /\ UNCHANGED <<sealed, batch>>

\* The import gives up on the batch: close(abort).
BatchAbort ==
    /\ batch # NoBatch
    /\ VH!Abort
    /\ UNCHANGED <<sealed, accepted, batch>>

Next ==
    \/ \E v \in Honest, b \in Blocks : CommitSeal(v, b)
    \/ \E n \in Nodes, b \in Blocks : InsertHeader(n, b)
    \/ \E b \in Blocks : StartBatch(b)
    \/ BatchProducer \/ BatchReceive \/ BatchAbort

\* The producer goroutine runs whenever it can; the import, the core and
\* propagation are under no obligation.
Spec == Init /\ [][Next]_vars /\ WF_vars(BatchProducer)

-----------------------------------------------------------------------------
(* Agreement: two nodes never import different blocks at the same height. *)
(* verifyCommittedSeals counts each validator once (RemoveValidator on a   *)
(* copy of the set) and demands Size - F seals, so two quorums share an    *)
(* honest validator, who seals one block only.  Violating it needs a      *)
(* byzantine validator sealing both blocks and honest ones split between  *)
(* them, then two imports.                                                 *)
Agreement ==
    \A n, m \in Nodes :
        accepted[n] # NoBlock /\ accepted[m] # NoBlock => accepted[n] = accepted[m]

(* The batch producer goroutine always finishes, whether the import reads *)
(* every result, aborts, or walks away after an error: results has room   *)
(* for the whole batch, so no send blocks (spec section 4.4: the producer *)
(* must not leak).                                                         *)
BatchProducerTerminates == batch # NoBatch ~> vhPc = "done"
=============================================================================
