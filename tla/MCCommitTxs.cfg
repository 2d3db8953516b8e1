\* The transaction phase of one build.
CONSTANTS
    a1 = a1
    a2 = a2
    Accounts <- MCAccounts
    Pendings <- MCPendings
    ParentNonces <- MCParentNonces
    GasLimit = 10
    TxGas = 2
SPECIFICATION Spec
\* A build that committed or was discarded is finished.
CHECK_DEADLOCK FALSE
INVARIANTS
    TypeOK
    BlockGasWithinLimit
    PendingExhausted
PROPERTIES
    BuildEnds
