---------------------------- MODULE MCSnapshot ------------------------------
(* Two callers over headers 0..3, checkpoints every 2 blocks, a cache of   *)
(* two snapshots.  Header 1 adds v2, header 2 drops it again and header 3  *)
(* adds v3: replaying them in the wrong order gives a different set.       *)
EXTENDS Snapshot

CONSTANTS c1, c2, v1, v2, v3

MCCallers == {c1, c2}

MCVoteAt == (1 :> [op |-> "add", who |-> v2]) @@ (2 :> [op |-> "drop", who |-> v2])
            @@ (3 :> [op |-> "add", who |-> v3])
=============================================================================
