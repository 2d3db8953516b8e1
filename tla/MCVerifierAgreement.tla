----------------------- MODULE MCVerifierAgreement -------------------------
(* Four validators (F = 1, quorum 3), one of them byzantine, two nodes,     *)
(* two competing blocks, headers with up to three committed seals.  Beside *)
(* the import model, VerifyHeader is checked against the declarative rule  *)
(* of spec section 8 on every header a node can be presented with.        *)
EXTENDS VerifierAgreement

CONSTANTS v1, v2, v3, v4, b1, b2, n1, n2

MCValidators == {v1, v2, v3, v4}
MCByzantine == {v1}
MCBlocks == {b1, b2}
MCNodes == {n1, n2}

\* What a recovered address can be.
Addresses == MCValidators \cup {Outsider, BadSig}

\* Every height-1 header of block b that can exist now: each flag, each
\* timestamp class, each signer, and every sequence of up to MaxSeals
\* committed seals from b's sealers, an outsider or an unrecoverable one.
\* Once every honest validator has sealed b1, its headers carry any
\* sequence of addresses.
HeadersOf(b) ==
    [num : {1}, block : {b}, parentOk : BOOLEAN, time : Times, extraOk : BOOLEAN,
     signer : Addresses, vrfOk : BOOLEAN,
     seals : BoundedSeq(SealersOf(b) \cup {Outsider, BadSig}, MaxSeals)]

-----------------------------------------------------------------------------
(* VerifyHeader agrees with spec section 8 on every header of a valid      *)
(* chain that the seals given so far allow: it returns nil iff the signer  *)
(* is in the parent snapshot's validator set, the timestamp is at least    *)
(* parent.Time + BlockPeriod, and the committed seals are distinct         *)
(* validators, at least Size - F of them.  It relates the pivot shortcut,  *)
(* the order of the cascading checks and the counting loop of              *)
(* verifyCommittedSeals to one declarative rule.                           *)
VerifyMatchesSpec ==
    \A b \in Blocks : \A h \in HeadersOf(b) :
        ValidChainHeader(h) =>
            (VerifyHeader(MCValidators, h) = "ok" <=> SpecAccepts(MCValidators, h))
=============================================================================
