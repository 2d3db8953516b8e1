--------------------------- MODULE HeaderVerifier ---------------------------
(***************************************************************************)
(* Header verification of the Istanbul backend (build/env.sh, package      *)
(* backend): VerifyHeader, verifyHeader, verifyCascadingFields,            *)
(* verifySigner, verifyVRF and verifyCommittedSeals, for a header at       *)
(* height 1 whose parent snapshot holds the validator set Validators.      *)
(*                                                                         *)
(* A header is a record of the facts the checks read: whether its parent  *)
(* is known, how its timestamp compares with parent.Time + BlockPeriod and *)
(* now + 30s, whether its istanbul extra parses, whom its proposer seal   *)
(* recovers to, whether its VRF nonce verifies, and the addresses its     *)
(* committed seals recover to (BadSig for one that does not recover).     *)
(*                                                                         *)
(* Two nodes import headers for competing blocks; honest validators give  *)
(* a committed seal to at most one block of a height, byzantine ones to   *)
(* any.  The quorum check is what keeps the two nodes in agreement.       *)
(***************************************************************************)
EXTENDS Naturals, FiniteSets, Sequences, SequencesExt

CONSTANTS
    Validators,   \* the parent snapshot's validator set
    Byzantine,    \* validators that seal anything (at most F of them)
    Outsider,     \* an address outside the validator set
    BadSig,       \* a seal from which no address can be recovered
    Nodes,        \* nodes importing headers
    Blocks,       \* competing blocks at height 1
    NoBlock,      \* nothing imported / nothing sealed
    MaxSeals,     \* bound on the committed seals of a header
    Pivot,        \* common.SysCfg.ReplayParam.Pivot
    VRFEnabled    \* common.SysCfg.SysParam.VRF.ElectionEpoch != 0

ASSUME /\ Byzantine \subseteq Validators
       /\ Outsider \notin Validators /\ BadSig \notin Validators \cup {Outsider}
       /\ NoBlock \notin Blocks
       /\ MaxSeals \in Nat /\ Pivot \in Nat /\ VRFEnabled \in BOOLEAN

\* The header's timestamp: before parent.Time + BlockPeriod, in range, or
\* later than now + 30000 ms.
Times == {"early", "ok", "future"}

Header(b, seals) ==
    [num : {1}, block : {b}, parentOk : BOOLEAN, time : Times, extraOk : BOOLEAN,
     signer : Validators \cup {Outsider, BadSig}, vrfOk : BOOLEAN, seals : seals]

-----------------------------------------------------------------------------
(* The checks, in the order the code makes them                            *)

\* ValSet.F(): the faults tolerated by a set of n validators (spec:
\* F = (S-1)/3); the validator set implementation is not under src/.
F(vals) == (Cardinality(vals) - 1) \div 3

\* The threshold of the commented-out alternative 2*snap.ValSet.F().
QuorumTwoF(vals) == 2 * F(vals)

\* validSeal < snap.ValSet.Size()-snap.ValSet.F() fails.
Quorum(vals) == Cardinality(vals) - F(vals)

\* The seal loop without RemoveValidator's removal: a validator that
\* signed twice counts twice.
RECURSIVE CountSealsNoRemove(_, _, _)
CountSealsNoRemove(seals, remaining, valid) ==
    IF seals = <<>> THEN [err |-> "ok", valid |-> valid]
    ELSE IF Head(seals) = BadSig THEN [err |-> "errInvalidSignature", valid |-> valid]
    ELSE IF Head(seals) \in remaining
         THEN CountSealsNoRemove(Tail(seals), remaining, valid + 1)
         ELSE [err |-> "errInvalidCommittedSeals", valid |-> valid]

\* The loop over extra.CommittedSeal on a copy of the validator set: a
\* seal that does not recover fails with errInvalidSignature; one whose
\* address RemoveValidator finds counts and is removed; any other (an
\* outsider, or a validator already counted) fails with
\* errInvalidCommittedSeals.
RECURSIVE CountSeals(_, _, _)
CountSeals(seals, remaining, valid) ==
    IF seals = <<>> THEN [err |-> "ok", valid |-> valid]
    ELSE IF Head(seals) = BadSig THEN [err |-> "errInvalidSignature", valid |-> valid]
    ELSE IF Head(seals) \in remaining
         THEN CountSeals(Tail(seals), remaining \ {Head(seals)}, valid + 1)
         ELSE [err |-> "errInvalidCommittedSeals", valid |-> valid]

VerifyCommittedSeals(vals, seals) ==
    IF seals = <<>> THEN "errEmptyCommittedSeals"
    ELSE LET r == CountSeals(seals, vals, 0) IN
         IF r.err # "ok" THEN r.err
         ELSE IF r.valid < Quorum(vals) THEN "errInvalidCommittedSeals"
         ELSE "ok"

\* ecrecover: ExtractIstanbulExtra's error, else GetSignatureAddress's,
\* else the recovered address.  (The recentAddresses cache is keyed by the
\* header hash and returns the same address.)
Ecrecover(h) ==
    IF ~h.extraOk THEN [err |-> "errExtract", addr |-> BadSig]
    ELSE IF h.signer = BadSig THEN [err |-> "errRecover", addr |-> BadSig]
    ELSE [err |-> "ok", addr |-> h.signer]

\* verifySigner: the recovered signer must be in the parent's validator set.
VerifySigner(vals, h) ==
    IF Ecrecover(h).err # "ok" THEN Ecrecover(h).err
    ELSE IF Ecrecover(h).addr \notin vals THEN "errUnauthorized"
    ELSE "ok"

\* verifyVRF: the parent is known and recoverPubkey succeeds (both already
\* established), then VerifyVrf.
VerifyVRF(h) == IF h.vrfOk THEN "ok" ELSE "errInvalidVRF"

\* verifyCascadingFields: parent lookup, timestamp, snapshot, signer, VRF
\* when enabled, committed seals.
VerifyCascadingFields(vals, h) ==
    IF h.num = 0 THEN "ok"
    ELSE IF ~h.parentOk THEN "ErrUnknownAncestor"
    ELSE IF h.time = "early" THEN "errInvalidTimestamp"
    ELSE IF VerifySigner(vals, h) # "ok" THEN VerifySigner(vals, h)
    ELSE IF VRFEnabled /\ VerifyVRF(h) # "ok" THEN VerifyVRF(h)
    ELSE VerifyCommittedSeals(vals, h.seals)

\* verifyHeader: it rejects future blocks and ignores an extra that does
\* not parse (the rejection is commented out).  VerifyHeaders calls it
\* directly.
verifyHeader(vals, h) ==
    IF h.time = "future" THEN "ErrFutureBlock"
    ELSE VerifyCascadingFields(vals, h)

\* VerifyHeader: nothing is checked at or below the replay pivot.
VerifyHeader(vals, h) ==
    IF h.num <= Pivot THEN "ok" ELSE verifyHeader(vals, h)

-----------------------------------------------------------------------------
(* The rule of spec section 8, stated declaratively: a header of a valid   *)
(* chain (known parent, valid VRF nonce, not from the future) is accepted *)
(* iff its extra parses (section 7: a malformed extension payload is       *)
(* rejected), its signer is a validator, its timestamp is not before       *)
(* parent.Time + BlockPeriod, and its committed seals are distinct         *)
(* recoverable validator addresses, at least Size - F of them.             *)

ValidChainHeader(h) == h.parentOk /\ h.vrfOk /\ h.time # "future"

SpecAccepts(vals, h) ==
    /\ h.extraOk
    /\ h.signer \in vals
    /\ h.time = "ok"
    /\ ToSet(h.seals) \subseteq vals
    /\ Cardinality(ToSet(h.seals)) = Len(h.seals)
    /\ Len(h.seals) >= Cardinality(vals) - (Cardinality(vals) - 1) \div 3
=============================================================================
