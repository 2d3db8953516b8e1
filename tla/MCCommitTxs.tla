----------------------------- MODULE MCCommitTxs -----------------------------
(* Two senders, each with up to two pending transactions of contiguous     *)
(* nonces starting one below, at or one above the parent's nonce, using 3  *)
(* or 6 gas of a 10-gas block, some rejected for their balance.            *)
EXTENDS CommitTxs

CONSTANTS a1, a2

MCAccounts == {a1, a2}

\* The account's pending lists: contiguous nonces from start.
AccountTxs(a) ==
    {<<>>} \cup
    {<<[acct |-> a, nonce |-> s, gas |-> g, bad |-> b]>> : s \in 0..2, g \in {3, 6}, b \in BOOLEAN} \cup
    {<<[acct |-> a, nonce |-> s, gas |-> g1, bad |-> FALSE],
       [acct |-> a, nonce |-> s + 1, gas |-> g2, bad |-> b]>> :
         s \in 0..2, g1 \in {3, 6}, g2 \in {3, 6}, b \in BOOLEAN}

MCPendings == {p \in [MCAccounts -> UNION {AccountTxs(a) : a \in MCAccounts}] :
                 \A a \in MCAccounts : p[a] \in AccountTxs(a)}

MCParentNonces == [MCAccounts -> {1}]
=============================================================================
