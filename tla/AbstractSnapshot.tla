------------------------- MODULE AbstractSnapshot --------------------------
(***************************************************************************)
(* What the snapshot engine promises (spec section 4.2): a lookup of the   *)
(* snapshot at height n answers with the validator set obtained by         *)
(* applying the votes of headers 1..n, in order, to the genesis snapshot,  *)
(* whose only validator is the configured first validator.  Callers make  *)
(* lookups concurrently; a restart abandons the lookups in progress.       *)
(***************************************************************************)
EXTENDS Naturals

CONSTANTS
    Callers,          \* goroutines calling sb.snapshot
    MaxNum,           \* the chain holds headers 0..MaxNum
    FirstValidator,   \* config.FirstValidatorNode's address
    VoteAt            \* VoteAt[n]: the vote header n carries

VARIABLES
    apc,              \* apc[c]: "idle", "busy" or "done"
    atarget,          \* atarget[c]: the height looked up
    aresult           \* aresult[c]: the snapshot answered

avars == <<apc, atarget, aresult>>

\* Snapshot.apply of one header's vote: it adds or drops one validator.
ApplyVote(vals, v) == IF v.op = "add" THEN vals \cup {v.who} ELSE vals \ {v.who}

\* The snapshot at height n, replayed from genesis.
RECURSIVE SnapAt(_)
SnapAt(n) == IF n = 0 THEN {FirstValidator} ELSE ApplyVote(SnapAt(n - 1), VoteAt[n])

AInit ==
    /\ apc = [c \in Callers |-> "idle"]
    /\ atarget = [c \in Callers |-> 0]
    /\ aresult = [c \in Callers |-> {}]

ARequest(c, n) ==
    /\ apc[c] = "idle"
    /\ apc' = [apc EXCEPT ![c] = "busy"]
    /\ atarget' = [atarget EXCEPT ![c] = n]
    /\ UNCHANGED aresult

AAnswer(c) ==
    /\ apc[c] = "busy"
    /\ apc' = [apc EXCEPT ![c] = "done"]
    /\ aresult' = [aresult EXCEPT ![c] = SnapAt(atarget[c])]
    /\ UNCHANGED atarget

AConsume(c) ==
    /\ apc[c] = "done"
    /\ apc' = [apc EXCEPT ![c] = "idle"]
    /\ UNCHANGED <<atarget, aresult>>

AReset ==
    /\ apc' = [c \in Callers |-> "idle"]
    /\ UNCHANGED <<atarget, aresult>>

ANext ==
    \/ \E c \in Callers, n \in 0..MaxNum : ARequest(c, n)
    \/ \E c \in Callers : AAnswer(c) \/ AConsume(c)
    \/ AReset

ASpec == AInit /\ [][ANext]_avars
=============================================================================
