--------------------------- MODULE BeaconTxLength ---------------------------
(***************************************************************************)
(* calcBeaconTransactionLength (src/services/block_processor.go): the     *)
(* size a transaction takes in an SSZ beacon body, computed from its      *)
(* in-gateway encoding.  The gateway holds a typed (non-legacy) tx as an  *)
(* RLP string wrapping type byte and payload; the beacon body holds the   *)
(* type byte and payload bare, behind a 4-byte SSZ length.  The tx is     *)
(* abstracted to its length and first byte, all the function reads.      *)
(***************************************************************************)
EXTENDS Integers

CONSTANT MaxLen     \* longest raw tx enumerated

Bytes == 0..255

VARIABLES len, first   \* len(rawTx), rawTx[0] (0 when empty)

vars == <<len, first>>

(* new(big.Int).Sub(b, 0xb7).Uint64(): Uint64 of a negative big.Int       *)
(* yields the low 64 bits of its absolute value.                           *)
BigSubUint64(b) == IF b >= 183 THEN b - 183 ELSE 183 - b

(* Mutant of calcBeaconTransactionLength: the length-of-length bytes are  *)
(* subtracted without the header byte itself.                              *)
calcBeaconTransactionLengthNoHeader(n, b) ==
    IF n = 0 THEN 0
    ELSE IF b < 192 /\ b = 128 THEN n + 4 - 2
    ELSE IF b < 192 /\ b > 128 THEN n + 4 - BigSubUint64(b)
    ELSE n + 4

calcBeaconTransactionLength(n, b) ==
    IF n = 0 THEN 0
    ELSE IF b < 192 /\ b = 128 THEN n + 4 - 2
    ELSE IF b < 192 /\ b > 128 THEN n + 4 - (BigSubUint64(b) + 1)
    ELSE n + 4

(* Reference: the header of an RLP string whose first byte is b (b in     *)
(* 0x80..0xBF): one byte up to 55 bytes of content, else one byte plus    *)
(* b - 0xB7 length bytes.                                                  *)
RlpStringHeader(b) == IF b <= 183 THEN 1 ELSE 1 + (b - 183)

Init == /\ len \in 0..MaxLen
        /\ first \in IF len = 0 THEN {0} ELSE Bytes

Next == UNCHANGED vars

Spec == Init /\ [][Next]_vars

(* For a legacy tx (first byte >= 0xC0, kept as is) and for a typed tx    *)
(* whose RLP string uses the long form (first byte 0xB8..0xBF), the       *)
(* computed size is the beacon encoding's: the raw length less the RLP    *)
(* string header, plus the 4-byte SSZ length.                              *)
LengthMatchesBeaconEncoding ==
    len > 0 /\ first >= 184 =>
        calcBeaconTransactionLength(len, first) =
            IF first >= 192 THEN len + 4 ELSE len + 4 - RlpStringHeader(first)

=============================================================================
