---------------------------- MODULE ReturnBytes -----------------------------
(***************************************************************************)
(* core/vm/util.go: how a contract's string or struct return value is     *)
(* handed back.  Plain contract calls and Solidity-compatible WASM calls   *)
(* get the raw bytes; every other transaction type gets MakeReturnBytes's *)
(* encoding: a 32-byte word holding 32 (the offset), a 32-byte word        *)
(* holding the length, and the data zero-padded to a multiple of 32.       *)
(* Integer returns are an 8-byte big-endian word for a contract call and  *)
(* a 32-byte ABI word otherwise.  A byte is a number in 0..255 and a byte *)
(* slice a sequence of them.                                               *)
(***************************************************************************)
EXTENDS Integers, Sequences

CONSTANTS
    Bytes,                          \* byte values the inputs use
    MaxLen,                         \* bound on len(ret)
    TxTypes,                        \* transaction types of the caller
    CallContractFlag,               \* common.CallContractFlag
    TxTypeCallSollCompatibleWasm    \* common.TxTypeCallSollCompatibleWasm

Zeros(k) == [i \in 1..k |-> 0]

\* common.Int32ToBytes / Int64ToBytes: big-endian in the given width in
\* bytes.  Both calls pass a non-negative value (32, len(ret)) that fits,
\* so the two's complement of negative values never arises.
RECURSIVE BigEndian(_, _)
BigEndian(n, width) ==
    IF width = 0 THEN <<>> ELSE BigEndian(n \div 256, width - 1) \o <<n % 256>>

\* common.BytesToHash: the last 32 bytes, left-padded with zeros.
BytesToHash(b) ==
    IF Len(b) > 32 THEN SubSeq(b, Len(b) - 31, Len(b)) ELSE Zeros(32 - Len(b)) \o b

\* The size rounded up with the remainder added back even at a multiple
\* of 32.
DataRealSizeAlwaysPad(n) == n + (32 - (n % 32))

\* dataRealSize: len(ret) rounded up to a multiple of 32.
DataRealSize(n) == IF n % 32 # 0 THEN n + (32 - (n % 32)) ELSE n

MakeReturnBytes(ret) ==
    LET dataByt == ret \o Zeros(DataRealSize(Len(ret)) - Len(ret))
        strHash == BytesToHash(BigEndian(32, 4))
        sizeHash == BytesToHash(BigEndian(Len(ret), 8))
    IN  strHash \o sizeHash \o dataByt

toContractReturnValueStringType(txType, res) ==
    IF txType \in {CallContractFlag, TxTypeCallSollCompatibleWasm}
    THEN res ELSE MakeReturnBytes(res)

\* toContractReturnValueStructType on json.Marshal's outcome: its bytes, or
\* an empty slice when it fails; then as for strings.
toContractReturnValueStructType(txType, b, marshalErr) ==
    LET out == IF marshalErr THEN <<>> ELSE b IN
    IF txType \in {CallContractFlag, TxTypeCallSollCompatibleWasm}
    THEN out ELSE MakeReturnBytes(out)

\* n as width bytes of two's complement: a negative n is the bitwise
\* complement of -n - 1.
TwosComplement(n, width) ==
    IF n >= 0 THEN BigEndian(n, width)
    ELSE [i \in 1..width |-> 255 - BigEndian(-n - 1, width)[i]]

\* utils.Int64ToBytes / Uint64ToBytes: binary.BigEndian of uint64(n).
Int64ToBytes(n) == TwosComplement(n, 8)

Uint64ToBytes(n) == BigEndian(n, 8)

\* big.Int.Bytes(): the absolute value, big-endian, without leading zeros.
RECURSIVE AbsBytes(_)
AbsBytes(n) ==
    IF n = 0 THEN <<>> ELSE AbsBytes(n \div 256) \o <<n % 256>>

\* big.Int.Bytes() of the value itself, without math.U256.
U256BytesNoWrap(n) == AbsBytes(IF n < 0 THEN -n ELSE n)

\* math.U256(bigRes).Bytes(): a negative int64 wraps to 2^256 + n, whose
\* 32 bytes start with 0xff; a non-negative one keeps its minimal bytes.
U256Bytes(n) == IF n < 0 THEN TwosComplement(n, 32) ELSE AbsBytes(n)

\* utils.Align32Bytes (life/utils, outside the repository): the bytes
\* left-padded with zeros to one 32-byte word.
Align32Bytes(b) == Zeros(32 - Len(b)) \o b

toContractReturnValueIntType(txType, res) ==
    IF txType = CallContractFlag THEN Int64ToBytes(res)
    ELSE Align32Bytes(U256Bytes(res))

toContractReturnValueUintType(txType, res) ==
    IF txType = CallContractFlag THEN Uint64ToBytes(res)
    ELSE Align32Bytes(Uint64ToBytes(res))

-----------------------------------------------------------------------------
(* The ABI encoding of a dynamic bytes value, stated by decoding: a        *)
(* sequence of whole 32-byte words whose first word reads 32, whose second *)
(* reads the length, followed by the data and fewer than 32 zero bytes.    *)

RECURSIVE WordValue(_, _, _)
WordValue(e, from, k) ==
    IF k = 0 THEN 0 ELSE WordValue(e, from, k - 1) * 256 + e[from + k - 1]

IsABIBytes(e, data) ==
    /\ Len(e) % 32 = 0
    /\ Len(e) >= 64 + Len(data)
    /\ WordValue(e, 1, 32) = 32
    /\ WordValue(e, 33, 32) = Len(data)
    /\ SubSeq(e, 65, 64 + Len(data)) = data
    /\ \A i \in 65 + Len(data)..Len(e) : e[i] = 0
    /\ Len(e) - 64 - Len(data) < 32

(* A word of two's complement, read as a signed number: a set top bit     *)
(* makes it -(complement) - 1.                                             *)
SignedValue(e) ==
    IF e[1] >= 128 THEN -WordValue([i \in DOMAIN e |-> 255 - e[i]], 1, Len(e)) - 1
    ELSE WordValue(e, 1, Len(e))
=============================================================================
