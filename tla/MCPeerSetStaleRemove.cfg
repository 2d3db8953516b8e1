\* A node reconnecting once while a goroutine of its first connection is
\* still sending.
CONSTANTS
    c1 = c1  c2 = c2  n1 = n1  t1 = t1
    NoConn = NoConn
    NoTx = NoTx
    Conns <- MCConns
    IdOf <- MCIdOf
    Txs <- MCTxs
    QueueCap = 1
SPECIFICATION Spec
\* Once both connections have ended nothing is left to do.
CHECK_DEADLOCK FALSE
PROPERTIES OwnRemovalOnly
