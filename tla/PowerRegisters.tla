--------------------------- MODULE PowerRegisters ---------------------------
(***************************************************************************)
(* The value of a register reply of the WiNet-S module: the bytes of       *)
(* param_value, which parseHexRegisterValue makes a number of watts.       *)
(*                                                                         *)
(* A byte has Byte values, 256 in the code; with a smaller even Byte every *)
(* reply is checked.                                                       *)
(***************************************************************************)
EXTENDS Integers, Sequences

CONSTANT Byte

ASSUME ByteAssumption == Byte \in Nat /\ Byte > 0 /\ Byte % 2 = 0

Error == "error"

\* The values of a word and of a double word.
Word == Byte * Byte
DoubleWord == Word * Word

Greater(a, b) == IF a > b THEN a ELSE b

\* int16 and int32: the value of w bits of which n = 2^w is the number of
\* patterns.
AsSigned(u, n) == IF u >= n \div 2 THEN u - n ELSE u

\* The words of the reply; an odd byte at the end is ignored.
words(bytes) ==
    [i \in 1 .. Len(bytes) \div 2 |-> bytes[2 * i - 1] * Byte + bytes[2 * i]]

\* Mutant: the first word is the high one.
combinedHighFirst(w) == w[1] * Word + w[2]

\* The low word comes first; words after the second are ignored.
combined(w) == w[2] * Word + w[1]

parseHexRegisterValue(bytes, signed) ==
    LET w == words(bytes)
        u == IF Len(w) = 1 THEN w[1] ELSE combined(w)
        n == IF Len(w) = 1 THEN Word ELSE DoubleWord
    IN  IF Len(bytes) < 2 THEN Error
        ELSE IF signed THEN AsSigned(u, n) ELSE u

\* pollPowerData: what is fed into the grid is surplus.
surplusWatts(gridWatts) == Greater(0, -gridWatts)

----------------------------------------------------------------------------
(* External: how the module encodes a value                                 *)

WordBytes(w) == <<w \div Byte, w % Byte>>

\* The two's complement of v, low word first, the high byte of each first.
Reply(v) ==
    LET u == v % DoubleWord
    IN  WordBytes(u % Word) \o WordBytes(u \div Word)

Watts == -(DoubleWord \div 2) .. (DoubleWord \div 2) - 1

\* The value v of a register is read with its sign and size, with or without
\* further bytes after it: power fed into the grid is surplus of exactly that
\* size and power drawn from it is none.
DecodedRight(v) ==
    \A tail \in {<<>>, <<1>>, <<1, 0>>} :
        /\ parseHexRegisterValue(Reply(v) \o tail, TRUE) = v
        /\ surplusWatts(parseHexRegisterValue(Reply(v) \o tail, TRUE))
             = IF v < 0 THEN -v ELSE 0
        /\ v >= 0 => parseHexRegisterValue(Reply(v) \o tail, FALSE) = v

AllDecodedRight == \A v \in Watts : DecodedRight(v)
=============================================================================
