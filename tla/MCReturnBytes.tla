--------------------------- MODULE MCReturnBytes ----------------------------
(* Every return value up to MaxLen bytes, of a string or of a struct whose *)
(* JSON encoding is ret or fails, under every transaction type: the        *)
(* variable ret grows a byte at a time and starts over.  Integer returns  *)
(* are checked on the values of Ints, around the byte boundaries.         *)
EXTENDS ReturnBytes

CONSTANTS CallFlag, SollWasm, Deploy, Ints

MCTxTypes == {CallFlag, SollWasm, Deploy}

\* int64 returns at zero and on both sides of the one- and two-byte limits.
MCInts == {-65537, -65536, -257, -256, -255, -129, -128, -127, -2, -1,
           0, 1, 127, 128, 255, 256, 65535, 65536}

\* "string", or a struct whose Marshal gives ret ("struct") or fails
\* ("structErr").
Kinds == {"string", "struct", "structErr"}

VARIABLES ret, txType, kind

vars == <<ret, txType, kind>>

Init == ret = <<>> /\ txType \in TxTypes /\ kind \in Kinds

Grow ==
    /\ Len(ret) < MaxLen
    /\ \E b \in Bytes : ret' = Append(ret, b)
    /\ UNCHANGED <<txType, kind>>

Restart ==
    /\ ret # <<>>
    /\ ret' = <<>>
    /\ txType' \in TxTypes
    /\ kind' \in Kinds

Next == Grow \/ Restart

Spec == Init /\ [][Next]_vars

(* What a contract's string or struct return is handed back as: the raw    *)
(* bytes (the JSON, or nothing when Marshal fails) for a contract call or  *)
(* a Solidity-compatible WASM call, otherwise the ABI encoding of dynamic  *)
(* bytes (offset word, length word, data padded to a whole word) that a    *)
(* Solidity caller decodes.  MakeReturnBytes's padding at an exact         *)
(* multiple of 32 and its left-padded big-endian words are what this pins *)
(* down.                                                                   *)
ReturnEncoding ==
    LET data == IF kind = "structErr" THEN <<>> ELSE ret
        out == IF kind = "string" THEN toContractReturnValueStringType(txType, ret)
               ELSE toContractReturnValueStructType(txType, ret, kind = "structErr")
    IN  IF txType \in {CallContractFlag, TxTypeCallSollCompatibleWasm}
        THEN out = data
        ELSE IsABIBytes(out, data)

(* What a contract's integer return is handed back as: for a contract     *)
(* call the 8-byte big-endian word that reads back as the value, otherwise *)
(* one 32-byte ABI word that a Solidity caller reads back as the same     *)
(* int256 or uint256: negative values sign-extended over all 32 bytes,    *)
(* zero a word of zeros.  The U256 wrap of big.Int and the padding of     *)
(* Align32Bytes have to agree on this.                                     *)
IntegerEncoding ==
    \A tt \in TxTypes, res \in Ints :
        LET w == IF tt = CallContractFlag THEN 8 ELSE 32
            i == toContractReturnValueIntType(tt, res)
            u == toContractReturnValueUintType(tt, res)
        IN  /\ Len(i) = w /\ SignedValue(i) = res
            /\ res >= 0 => Len(u) = w /\ WordValue(u, 1, w) = res
=============================================================================
