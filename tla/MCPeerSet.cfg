\* A node reconnecting once, one transaction, queues of one batch.
CONSTANTS
    c1 = c1  c2 = c2  n1 = n1  t1 = t1
    NoConn = NoConn
    NoTx = NoTx
    Conns <- MCConns
    IdOf <- MCIdOf
    Txs <- MCTxs
    QueueCap = 1
SPECIFICATION Spec
\* Once both connections have ended nothing is left to do.
CHECK_DEADLOCK FALSE
INVARIANTS HandshakeOkAfterBothResults
PROPERTIES HandshakeGoroutinesExit AnnouncerReturns CloseStopsPeers
