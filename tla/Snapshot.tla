----------------------------- MODULE Snapshot ------------------------------
(***************************************************************************)
(* backend.snapshot (build/env.sh): walk back from (number, hash) until    *)
(* the recents cache, a disk checkpoint (number % checkpointInterval = 0)  *)
(* or genesis gives a base snapshot, collecting the headers passed; then   *)
(* reverse them, apply them to the base, cache the result by hash and, at *)
(* a checkpoint reached by replay, store it to disk.  One chain of headers *)
(* 0..MaxNum: a height stands for its hash.  Several callers walk at once; *)
(* the ARC cache evicts at capacity; a restart loses the cache and the    *)
(* walks in progress, never the disk.                                      *)
(***************************************************************************)
EXTENDS Naturals, FiniteSets, Sequences, SequencesExt, Functions, TLC

CONSTANTS
    Callers, MaxNum, FirstValidator, VoteAt,
    CheckpointInterval,   \* checkpointInterval (1024 in the code)
    RecentsCap,           \* inmemorySnapshots (128 in the code)
    KeyOk,                \* possible outcomes of crypto.UnmarshalPubkey on
                          \* the configured first validator's node id
    MaxRestarts

VARIABLES
    recents,    \* sb.recents: height -> snapshot
    disk,       \* checkpoints stored by snap.store: height -> snapshot
    keyOk,      \* whether the configured first validator key unmarshals
    pc,         \* pc[c]: "idle", "walk" (the for loop) or "done"
    target,     \* target[c]: the (number, hash) looked up
    num,        \* num[c]: the loop's current number
    hdrs,       \* hdrs[c]: the headers gathered, newest first
    result,     \* result[c]: the snapshot returned
    restarts

vars == <<recents, disk, keyOk, pc, target, num, hdrs, result, restarts>>

\* The abstract snapshot engine, seen through this module's variables: a
\* walking caller is busy.
AbsSnap == INSTANCE AbstractSnapshot
    WITH apc <- [c \in Callers |-> IF pc[c] = "walk" THEN "busy" ELSE pc[c]],
         atarget <- target, aresult <- result

\* The loop reversing headers, running i one step past the middle.
RECURSIVE SwapLoopPastHalf(_, _)
SwapLoopPastHalf(s, i) ==
    IF i <= Len(s) \div 2
    THEN SwapLoopPastHalf([s EXCEPT ![i + 1] = s[Len(s) - i], ![Len(s) - i] = s[i + 1]], i + 1)
    ELSE s

\* for i := 0; i < len(headers)/2; i++ { swap headers[i], headers[len-1-i] }
RECURSIVE SwapLoop(_, _)
SwapLoop(s, i) ==
    IF i < Len(s) \div 2
    THEN SwapLoop([s EXCEPT ![i + 1] = s[Len(s) - i], ![Len(s) - i] = s[i + 1]], i + 1)
    ELSE s

\* snap.apply(chain, sb, headers): the votes of the headers, oldest first.
ApplyHeaders(base, hs) == FoldLeft(LAMBDA vals, n : AbsSnap!ApplyVote(vals, VoteAt[n]), base, hs)

\* sb.recents.Add: the ARC cache evicts an entry of its choice when full.
AddRecent(n, s) ==
    \/ /\ Cardinality(DOMAIN recents) < RecentsCap \/ n \in DOMAIN recents
       /\ recents' = (n :> s) @@ recents
    \/ /\ Cardinality(DOMAIN recents) = RecentsCap /\ n \notin DOMAIN recents
       /\ \E old \in DOMAIN recents :
            recents' = (n :> s) @@ Restrict(recents, DOMAIN recents \ {old})

\* After the loop: reverse, apply, cache, and store over the database d a
\* checkpoint that was reached by replaying headers.
Finish(c, base, d) ==
    LET snap == ApplyHeaders(base, SwapLoop(hdrs[c], 0))
    IN  /\ AddRecent(target[c], snap)
        /\ disk' = IF target[c] % CheckpointInterval = 0 /\ hdrs[c] # <<>>
                   THEN (target[c] :> snap) @@ d ELSE d
        /\ result' = [result EXCEPT ![c] = snap]
        /\ pc' = [pc EXCEPT ![c] = "done"]

Init ==
    /\ recents = <<>>
    /\ disk = <<>>
    /\ keyOk \in KeyOk
    /\ pc = [c \in Callers |-> "idle"]
    /\ target = [c \in Callers |-> 0]
    /\ num = [c \in Callers |-> 0]
    /\ hdrs = [c \in Callers |-> <<>>]
    /\ result = [c \in Callers |-> {}]
    /\ restarts = 0

\* A verifier step asks for the snapshot of a height.
Request(c, n) ==
    /\ pc[c] = "idle"
    /\ pc' = [pc EXCEPT ![c] = "walk"]
    /\ target' = [target EXCEPT ![c] = n]
    /\ num' = [num EXCEPT ![c] = n]
    /\ hdrs' = [hdrs EXCEPT ![c] = <<>>]
    /\ UNCHANGED <<recents, disk, keyOk, result, restarts>>

\* One iteration of the for loop, by the case that applies.
WalkRecents(c) ==
    /\ pc[c] = "walk"
    /\ num[c] \in DOMAIN recents
    /\ Finish(c, recents[num[c]], disk)
    /\ UNCHANGED <<keyOk, target, num, hdrs, restarts>>

NoCachedBase(c) ==
    /\ num[c] \notin DOMAIN recents
    /\ ~(num[c] % CheckpointInterval = 0 /\ num[c] \in DOMAIN disk)

WalkDisk(c) ==
    /\ pc[c] = "walk"
    /\ num[c] \notin DOMAIN recents
    /\ num[c] % CheckpointInterval = 0 /\ num[c] \in DOMAIN disk
    /\ Finish(c, disk[num[c]], disk)
    /\ UNCHANGED <<keyOk, target, num, hdrs, restarts>>

\* Genesis: the one-validator snapshot of the configured first validator,
\* stored to disk, then the replay.
WalkGenesis(c) ==
    /\ pc[c] = "walk"
    /\ NoCachedBase(c) /\ num[c] = 0
    /\ keyOk
    /\ Finish(c, {FirstValidator}, (0 :> {FirstValidator}) @@ disk)
    /\ UNCHANGED <<keyOk, target, num, hdrs, restarts>>

\* UnmarshalPubkey fails: log and continue, with number still 0.
WalkGenesisSpin(c) ==
    /\ pc[c] = "walk"
    /\ NoCachedBase(c) /\ num[c] = 0
    /\ ~keyOk
    /\ UNCHANGED vars

\* No base here: gather the header and move to its parent.
WalkBack(c) ==
    /\ pc[c] = "walk"
    /\ NoCachedBase(c) /\ num[c] # 0
    /\ hdrs' = [hdrs EXCEPT ![c] = Append(@, num[c])]
    /\ num' = [num EXCEPT ![c] = @ - 1]
    /\ UNCHANGED <<recents, disk, keyOk, pc, target, result, restarts>>

Walk(c) ==
    WalkRecents(c) \/ WalkDisk(c) \/ WalkGenesis(c) \/ WalkGenesisSpin(c) \/ WalkBack(c)

\* The caller takes the answer.
Consume(c) ==
    /\ pc[c] = "done"
    /\ pc' = [pc EXCEPT ![c] = "idle"]
    /\ UNCHANGED <<recents, disk, keyOk, target, num, hdrs, result, restarts>>

\* The process restarts: memory is lost, the snapshot database is not.
Restart ==
    /\ restarts < MaxRestarts
    /\ restarts' = restarts + 1
    /\ recents' = <<>>
    /\ pc' = [c \in Callers |-> "idle"]
    /\ UNCHANGED <<disk, keyOk, target, num, hdrs, result>>

Next ==
    \/ \E c \in Callers, n \in 0..MaxNum : Request(c, n)
    \/ \E c \in Callers : Walk(c) \/ Consume(c)
    \/ Restart

\* Each walking goroutine keeps running; callers and restarts are free.
Spec == Init /\ [][Next]_vars /\ \A c \in Callers : WF_vars(Walk(c))

-----------------------------------------------------------------------------
(* The snapshot engine implements its abstract specification: every      *)
(* answer, whether it came from the cache, a disk checkpoint or genesis    *)
(* plus a replay of the gathered headers in the order the swap loop leaves *)
(* them, is the snapshot replayed from genesis; across evictions, restarts *)
(* and concurrent walks that cache and checkpoint for each other.          *)
RefinesAbstract == AbsSnap!ASpec

(* Every lookup finishes: a walk always reaches a cached snapshot, a       *)
(* checkpoint or genesis, and genesis yields a snapshot (spec section 4.2: *)
(* a misconfigured genesis is a fatal error, not a hang).                  *)
LookupTerminates == \A c \in Callers : (pc[c] = "walk") ~> (pc[c] # "walk")
=============================================================================
