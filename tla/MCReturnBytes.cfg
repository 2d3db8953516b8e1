\* Return values of 0..65 bytes (around one and two words) of a non-zero
\* byte, so that data and padding differ, as strings and structs, under
\* three transaction types; integers on both sides of the byte boundaries.
CONSTANTS
    CallFlag = CallFlag  SollWasm = SollWasm  Deploy = Deploy
    TxTypes <- MCTxTypes
    CallContractFlag = CallFlag
    TxTypeCallSollCompatibleWasm = SollWasm
    Bytes = {255}
    MaxLen = 65
    Ints <- MCInts

SPECIFICATION Spec

INVARIANTS ReturnEncoding IntegerEncoding
