------------------------------ MODULE MCPeerSet -----------------------------
(* Two successive connections of one remote node, one transaction hash,   *)
(* one-slot queues.                                                        *)
EXTENDS PeerSet

CONSTANTS c1, c2, n1, t1

MCConns == {c1, c2}
MCIdOf == [c \in MCConns |-> n1]
MCTxs == {t1}
=============================================================================
