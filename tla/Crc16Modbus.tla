----------------------------- MODULE Crc16Modbus -----------------------------
(***************************************************************************)
(* CRC16_MODBUS::CalcCRC16Modbus as it runs over data of any length.  Next *)
(* to it runs the same loop over data in which one byte, or two bytes next *)
(* to each other, have been changed.                                       *)
(***************************************************************************)
EXTENDS CrcTables

CONSTANTS
    MaxData,        \* bound: bytes of data
    Alphabet,       \* the bytes tried at each place
    Flips           \* the bits changed in a byte

ASSUME AlphabetAssumption == MaxData \in Nat /\ Alphabet \in [1..MaxData -> SUBSET Byte]
ASSUME FlipAssumption     == Flips \subseteq Byte \ {0}

VARIABLES
    data,       \* history: the bytes read
    crc,        \* crchi and crclo
    changed,    \* the place of the first byte that was changed, or 0
    crc2        \* the checksum of the changed data

vars == <<data, crc, changed, crc2>>

Init == data = << >> /\ crc = Start /\ changed = 0 /\ crc2 = Start

\* The next byte is b in the data and d in the changed data.
Read(b, d) ==
    /\ data' = Append(data, b)
    /\ crc' = Turn(crc, b)
    /\ crc2' = Turn(crc2, d)

ReadSame ==
    /\ Len(data) < MaxData
    /\ \E b \in Alphabet[Len(data) + 1] : Read(b, b)
    /\ UNCHANGED changed

\* The change reaches over two bytes at most.
ReadChanged ==
    /\ Len(data) < MaxData
    /\ changed \in {0, Len(data)}
    /\ \E b \in Alphabet[Len(data) + 1], x \in Flips : Read(b, Xor(b, x))
    /\ changed' = IF changed = 0 THEN Len(data) + 1 ELSE changed

Next == ReadSame \/ ReadChanged
Spec == Init /\ [][Next]_vars

-----------------------------------------------------------------------------
(* The definition of the checksum, bit by bit: the register is shifted to  *)
(* the right, and 16#A001 is added whenever a 1 falls out.                 *)

Xor16(r, s) == 256 * Xor(r \div 256, s \div 256) + Xor(r % 256, s % 256)
Shift(r)    == IF r % 2 = 1 THEN Xor16(r \div 2, 40961) ELSE r \div 2

Preset           == 256 * 255 + 255    \* every bit set
BitStep(s, k, r) == Shift(IF k % 8 = 1 THEN Xor16(r, s[(k \div 8) + 1]) ELSE r)

Polynomial(s) ==
    LET bits[k \in 0..(8 * Len(s))] == IF k = 0 THEN Preset ELSE BitStep(s, k, bits[k - 1])
    IN  bits[8 * Len(s)]

\* The entry n of the tables is what eight shifts make of the low half n.
Shift8(r) == Shift(Shift(Shift(Shift(Shift(Shift(Shift(Shift(r))))))))
ASSUME ShiftAssumption ==
    \A h, n \in Byte : Shift8(256 * h + n) = 256 * crcLo[n + 1] + Xor(h, crcHi[n + 1])

-----------------------------------------------------------------------------
(* Properties.                                                             *)

\* Every variable keeps its type.
TypeOK ==
    /\ data \in Seq(Byte) /\ Len(data) <= MaxData
    /\ crc \in Crc /\ crc2 \in Crc /\ changed \in 0..Len(data)

\* The two tables compute the checksum src/README.md:107 names, CRC16_MODBUS: the
\* remainder by its polynomial, over all 256 entries.
MatchesPolynomial == 256 * crc.crchi + crc.crclo = Polynomial(data)

\* Data in which one byte, or two neighbours, have been changed never has the same
\* checksum, so the parser does not dispatch a body damaged in that way.
ChangeDetected == changed # 0 => crc2 # crc
=============================================================================
