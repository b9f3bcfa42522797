------------------------------- MODULE CrcTables -------------------------------
(***************************************************************************)
(* The checksum of the virtual robot's frames                              *)
(* (src/include/util/crc16_modbus.h): two tables of 256 bytes, and one turn*)
(* of the loop that uses them.  Entry n of a C++ table is entry n + 1 here.*)
(***************************************************************************)
EXTENDS Bytes, Sequences

\* The C++ operator ^ on halves of a byte and on bytes: a bit of the result is the
\* parity of the two bits.
Bit(n, w)       == (n \div w) % 2
Parity(h, k, w) == w * ((Bit(h, w) + Bit(k, w)) % 2)
XorHalf(h, k)   == Parity(h, k, 1) + Parity(h, k, 2) + Parity(h, k, 4) + Parity(h, k, 8)
XorTable  == [h \in 0..15 |-> [k \in 0..15 |-> XorHalf(h, k)]]
Xor(a, b) == 16 * XorTable[a \div 16][b \div 16] + XorTable[a % 16][b % 16]

crcHi == <<
    0, 193, 129, 64, 1, 192, 128, 65, 1, 192, 128, 65, 0, 193, 129, 64, 1, 192, 128, 65, 0,
    193, 129, 64, 0, 193, 129, 64, 1, 192, 128, 65, 1, 192, 128, 65, 0, 193, 129, 64, 0, 193,
    129, 64, 1, 192, 128, 65, 0, 193, 129, 64, 1, 192, 128, 65, 1, 192, 128, 65, 0, 193, 129,
    64, 1, 192, 128, 65, 0, 193, 129, 64, 0, 193, 129, 64, 1, 192, 128, 65, 0, 193, 129, 64,
    1, 192, 128, 65, 1, 192, 128, 65, 0, 193, 129, 64, 0, 193, 129, 64, 1, 192, 128, 65, 1,
    192, 128, 65, 0, 193, 129, 64, 1, 192, 128, 65, 0, 193, 129, 64, 0, 193, 129, 64, 1, 192,
    128, 65, 1, 192, 128, 65, 0, 193, 129, 64, 0, 193, 129, 64, 1, 192, 128, 65, 0, 193, 129,
    64, 1, 192, 128, 65, 1, 192, 128, 65, 0, 193, 129, 64, 0, 193, 129, 64, 1, 192, 128, 65,
    1, 192, 128, 65, 0, 193, 129, 64, 1, 192, 128, 65, 0, 193, 129, 64, 0, 193, 129, 64, 1,
    192, 128, 65, 0, 193, 129, 64, 1, 192, 128, 65, 1, 192, 128, 65, 0, 193, 129, 64, 1, 192,
    128, 65, 0, 193, 129, 64, 0, 193, 129, 64, 1, 192, 128, 65, 1, 192, 128, 65, 0, 193, 129,
    64, 0, 193, 129, 64, 1, 192, 128, 65, 0, 193, 129, 64, 1, 192, 128, 65, 1, 192, 128, 65,
    0, 193, 129, 64 >>

crcLo == <<
    0, 192, 193, 1, 195, 3, 2, 194, 198, 6, 7, 199, 5, 197, 196, 4, 204, 12, 13, 205, 15,
    207, 206, 14, 10, 202, 203, 11, 201, 9, 8, 200, 216, 24, 25, 217, 27, 219, 218, 26, 30, 222,
    223, 31, 221, 29, 28, 220, 20, 212, 213, 21, 215, 23, 22, 214, 210, 18, 19, 211, 17, 209, 208,
    16, 240, 48, 49, 241, 51, 243, 242, 50, 54, 246, 247, 55, 245, 53, 52, 244, 60, 252, 253, 61,
    255, 63, 62, 254, 250, 58, 59, 251, 57, 249, 248, 56, 40, 232, 233, 41, 235, 43, 42, 234, 238,
    46, 47, 239, 45, 237, 236, 44, 228, 36, 37, 229, 39, 231, 230, 38, 34, 226, 227, 35, 225, 33,
    32, 224, 160, 96, 97, 161, 99, 163, 162, 98, 102, 166, 167, 103, 165, 101, 100, 164, 108, 172, 173,
    109, 175, 111, 110, 174, 170, 106, 107, 171, 105, 169, 168, 104, 120, 184, 185, 121, 187, 123, 122, 186,
    190, 126, 127, 191, 125, 189, 188, 124, 180, 116, 117, 181, 119, 183, 182, 118, 114, 178, 179, 115, 177,
    113, 112, 176, 80, 144, 145, 81, 147, 83, 82, 146, 150, 86, 87, 151, 85, 149, 148, 84, 156, 92,
    93, 157, 95, 159, 158, 94, 90, 154, 155, 91, 153, 89, 88, 152, 136, 72, 73, 137, 75, 139, 138,
    74, 78, 142, 143, 79, 141, 77, 76, 140, 68, 132, 133, 69, 135, 71, 70, 134, 130, 66, 67, 131,
    65, 129, 128, 64 >>

\* What the proofs use of them: ^ is its own inverse, and no two entries of crcLo
\* are equal.
ASSUME XorAssumption ==
    \A h, k \in 0..15 :
        /\ XorHalf(h, k) \in 0..15 /\ XorHalf(h, k) = XorHalf(k, h)
        /\ XorHalf(h, XorHalf(h, k)) = k /\ XorHalf(h, 0) = h
ASSUME TableAssumption ==
    /\ \A k \in 1..256 : crcHi[k] \in Byte /\ crcLo[k] \in Byte
    /\ \A k, n \in 1..256 : crcLo[k] = crcLo[n] => k = n

-----------------------------------------------------------------------------
Crc   == [crchi : Byte, crclo : Byte]
Start == [crchi |-> 255, crclo |-> 255]

\* mutants: the low half is not carried over, the halves are swapped, + instead of ^
TurnLow(c, b)  == [crchi |-> crcLo[Xor(c.crclo, b) + 1], crclo |-> crcHi[Xor(c.crclo, b) + 1]]
TurnSwap(c, b) == [crchi |-> crcHi[Xor(c.crclo, b) + 1],
                   crclo |-> Xor(c.crchi, crcLo[Xor(c.crclo, b) + 1])]

TurnAdd(c, b)  == [crchi |-> crcLo[Xor(c.crclo, b) + 1],
                   crclo |-> c.crchi + crcHi[Xor(c.crclo, b) + 1]]

\* One turn of the loop, with the next byte of the data.
Turn(c, b) == [crchi |-> crcLo[Xor(c.crclo, b) + 1],
               crclo |-> Xor(c.crchi, crcHi[Xor(c.crclo, b) + 1])]

\* The whole loop; Step is a function so that TLC evaluates its argument once.
Step == [c \in Crc |-> [b \in Byte |-> Turn(c, b)]]
CalcCRC16Modbus(data) ==
    LET turn[n \in 0..Len(data)] == IF n = 0 THEN Start ELSE Step[turn[n - 1]][data[n]]
    IN  turn[Len(data)]
=============================================================================
