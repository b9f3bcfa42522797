------------------------------- MODULE CrcProofs -------------------------------
(***************************************************************************)
(* The checksum, for data of any length and every choice of its bytes: no  *)
(* change of one byte, or of two bytes next to each other, goes unnoticed. *)
(*                                                                         *)
(* TLC evaluates XorAssumption and TableAssumption on the tables; the rest *)
(* follows from the injectivity of crcLo.  The two checksums are equal     *)
(* before the change, differ in crchi right after its first byte, and      *)
(* differ ever after.                                                      *)
(***************************************************************************)
EXTENDS Crc16Modbus, ByteLemmas

-----------------------------------------------------------------------------
(* One turn of the loop.                                                   *)

LEMMA ChangedByte ==
    ASSUME NEW b \in Byte, NEW x \in Flips
    PROVE  Xor(b, x) \in Byte /\ Xor(b, x) # b
<1>1. x \in Byte /\ x # 0 /\ 0 \in Byte
  BY FlipAssumption DEF Byte
<1>2. Xor(b, x) \in Byte /\ Xor(b, 0) = b
  BY <1>1, ByteXor
<1>3. Xor(b, x) = Xor(b, 0) => x = 0
  BY <1>1, XorCancels
<1> QED  BY <1>1, <1>2, <1>3

\* Two turns that end alike began with the same crchi, and looked up the same entry.
LEMMA TurnBack ==
    ASSUME NEW c \in Crc, NEW d \in Crc, NEW a \in Byte, NEW b \in Byte,
           Turn(c, a).crchi = Turn(d, b).crchi
    PROVE  /\ Xor(c.crclo, a) = Xor(d.crclo, b)
           /\ Turn(c, a).crclo = Turn(d, b).crclo => c.crchi = d.crchi
<1> DEFINE n == Xor(c.crclo, a)
           k == Xor(d.crclo, b)
<1>1. n \in Byte /\ k \in Byte /\ c.crchi \in Byte /\ d.crchi \in Byte
  BY ByteXor DEF Crc
<1>2. /\ Turn(c, a).crchi = crcLo[n + 1] /\ Turn(c, a).crclo = Xor(c.crchi, crcHi[n + 1])
      /\ Turn(d, b).crchi = crcLo[k + 1] /\ Turn(d, b).crclo = Xor(d.crchi, crcHi[k + 1])
  BY DEF Turn
<1> HIDE DEF n, k
<1>3. n = k /\ crcHi[n + 1] \in Byte
  BY <1>1, <1>2, Tables
<1>4. Xor(c.crchi, crcHi[n + 1]) = Xor(d.crchi, crcHi[n + 1]) => c.crchi = d.crchi
  BY <1>1, <1>3, XorCancels
<1>5. n = Xor(c.crclo, a) /\ k = Xor(d.crclo, b)
  BY DEF n, k
<1> QED  BY <1>2, <1>3, <1>4, <1>5

LEMMA RecordsDiffer ==
    ASSUME NEW c \in Crc, NEW d \in Crc
    PROVE  c = d <=> c.crchi = d.crchi /\ c.crclo = d.crclo
BY DEF Crc

\* A turn with the same byte keeps two checksums apart.
LEMMA ApartSame ==
    ASSUME NEW c \in Crc, NEW d \in Crc, NEW b \in Byte, c # d
    PROVE  Turn(c, b) # Turn(d, b)
<1> SUFFICES ASSUME Turn(c, b) = Turn(d, b) PROVE c = d
  OBVIOUS
<1>1. Xor(c.crclo, b) = Xor(d.crclo, b) /\ c.crchi = d.crchi
  BY TurnBack
<1>2. c.crclo = d.crclo
  BY <1>1, XorCancels DEF Crc
<1> QED  BY <1>1, <1>2, RecordsDiffer

\* A turn with two different bytes sets equal checksums apart, in crchi; and it
\* keeps checksums apart that differ in crchi.
LEMMA ApartChanged ==
    ASSUME NEW c \in Crc, NEW d \in Crc, NEW a \in Byte, NEW b \in Byte, a # b
    PROVE  /\ c = d => Turn(c, a).crchi # Turn(d, b).crchi
           /\ c.crchi # d.crchi => Turn(c, a) # Turn(d, b)
<1>1. ASSUME c = d, Turn(c, a).crchi = Turn(d, b).crchi PROVE FALSE
  <2>1. Xor(c.crclo, a) = Xor(c.crclo, b)
    BY <1>1, TurnBack
  <2> QED  BY <2>1, XorCancels DEF Crc
<1>2. ASSUME c.crchi # d.crchi, Turn(c, a) = Turn(d, b) PROVE FALSE
  BY <1>2, TurnBack
<1> QED  BY <1>1, <1>2

-----------------------------------------------------------------------------
\* The inductive invariant.
Apart ==
    /\ changed = 0 => crc2 = crc
    /\ changed # 0 => crc2 # crc
    /\ changed # 0 /\ changed = Len(data) => crc2.crchi # crc.crchi

IInv == TypeOK /\ Apart

LEMMA InitInv == Init => IInv
<1>1. Start \in Crc
  BY DEF Start, Crc, Byte
<1> QED  BY <1>1, AlphabetAssumption DEF Init, IInv, TypeOK, Apart

LEMMA ReadType ==
    ASSUME IInv, NEW b \in Byte, NEW d \in Byte, Len(data) < MaxData, Read(b, d)
    PROVE  /\ data' \in Seq(Byte) /\ Len(data') = Len(data) + 1 /\ Len(data') <= MaxData
           /\ crc' \in Crc /\ crc2' \in Crc
<1>1. data \in Seq(Byte) /\ crc \in Crc /\ crc2 \in Crc /\ MaxData \in Nat
  BY AlphabetAssumption DEF IInv, TypeOK
<1>2. data' \in Seq(Byte) /\ Len(data') = Len(data) + 1 /\ Len(data') <= MaxData
  BY <1>1 DEF Read
<1>3. crc' \in Crc /\ crc2' \in Crc
  BY <1>1, TurnType DEF Read
<1> QED  BY <1>2, <1>3

LEMMA NextByte ==
    ASSUME IInv, Len(data) < MaxData
    PROVE  \A b \in Alphabet[Len(data) + 1] : b \in Byte
BY AlphabetAssumption DEF IInv, TypeOK

LEMMA StepInv == IInv /\ [Next]_vars => IInv'
<1> SUFFICES ASSUME IInv, [Next]_vars PROVE IInv'
  OBVIOUS
<1>0. /\ data \in Seq(Byte) /\ Len(data) \in Nat /\ crc \in Crc /\ crc2 \in Crc
      /\ changed \in 0..Len(data)
  BY DEF IInv, TypeOK
<1>1. CASE ReadSame
  <2>1. Len(data) < MaxData /\ changed' = changed
    BY <1>1 DEF ReadSame
  <2>2. PICK b \in Byte : Read(b, b)
    BY <1>1, <2>1, NextByte DEF ReadSame
  <2>3. TypeOK' /\ Len(data') = Len(data) + 1
    BY <1>0, <2>1, <2>2, ReadType DEF TypeOK
  <2>4. crc' = Turn(crc, b) /\ crc2' = Turn(crc2, b)
    BY <2>2 DEF Read
  <2>5. crc2 # crc => crc2' # crc'
    BY <1>0, <2>4, ApartSame
  <2>6. changed' # Len(data')
    BY <1>0, <2>1, <2>3
  <2> QED  BY <2>1, <2>3, <2>4, <2>5, <2>6 DEF IInv, Apart
<1>2. CASE ReadChanged
  <2>1. Len(data) < MaxData /\ changed \in {0, Len(data)}
    BY <1>2 DEF ReadChanged
  <2>2. PICK b \in Byte, x \in Flips : Read(b, Xor(b, x))
    BY <1>2, <2>1, NextByte DEF ReadChanged
  <2> DEFINE d == Xor(b, x)
  <2>3. d \in Byte /\ d # b
    BY ChangedByte
  <2>4. crc' = Turn(crc, b) /\ crc2' = Turn(crc2, d)
    BY <2>2 DEF Read
  <2>5. changed' = IF changed = 0 THEN Len(data) + 1 ELSE changed
    BY <1>2 DEF ReadChanged
  <2>6. Len(data') = Len(data) + 1 /\ data' \in Seq(Byte) /\ Len(data') <= MaxData
        /\ crc' \in Crc /\ crc2' \in Crc
    BY <2>1, <2>2, <2>3, ReadType
  <2>7. TypeOK'
    BY <1>0, <2>5, <2>6 DEF TypeOK
  <2>8. crc = crc2 => crc'.crchi # crc2'.crchi
    BY <1>0, <2>3, <2>4, ApartChanged
  <2>9. crc.crchi # crc2.crchi => crc' # crc2'
    BY <1>0, <2>3, <2>4, ApartChanged
  <2>10. CASE changed = 0
    BY <1>0, <2>5, <2>6, <2>7, <2>8, <2>10 DEF IInv, Apart
  <2>11. CASE changed # 0
    BY <1>0, <2>1, <2>5, <2>6, <2>7, <2>9, <2>11 DEF IInv, Apart
  <2> QED  BY <2>10, <2>11
<1>3. CASE UNCHANGED vars
  BY <1>3 DEF vars, IInv, TypeOK, Apart
<1> QED  BY <1>1, <1>2, <1>3 DEF Next

LEMMA InvHolds == Spec => []IInv
BY InitInv, StepInv, PTL DEF Spec

\* Type correctness: the halves of the checksum stay bytes whatever the data, so the
\* indices of crcHi and crcLo stay in the tables.
THEOREM TypeCorrect == Spec => []TypeOK
<1>1. IInv => TypeOK
  BY DEF IInv
<1> QED  BY InvHolds, <1>1, PTL

\* Damage to one byte, or to two neighbours, changes the checksum, at any length.
THEOREM ChangeIsDetected == Spec => []ChangeDetected
<1>1. IInv => ChangeDetected
  BY DEF IInv, Apart, ChangeDetected
<1> QED  BY InvHolds, <1>1, PTL

-----------------------------------------------------------------------------
(* The checksum is the remainder by its polynomial.                        *)

\* The register after each of the first n bits of s.
IsBits(s, n, f) ==
    f = [k \in 0..n |-> IF k = 0 THEN Preset ELSE BitStep(s, k, f[k - 1])]

BitsHold(s, n, f) ==
    \A k \in 0..n : f[k] = IF k = 0 THEN Preset ELSE BitStep(s, k, f[k - 1])

LEMMA BitsAt == \A s, f : \A n \in Nat : IsBits(s, n, f) => BitsHold(s, n, f)
BY ONLY DEF IsBits, BitsHold

LEMMA BitsFrom ==
    \A s, f : \A n \in Nat : f = [k \in 0..n |-> f[k]] /\ BitsHold(s, n, f) => IsBits(s, n, f)
BY ONLY DEF IsBits, BitsHold

\* There is such a sequence of registers, for any number of bits.
LEMMA BitsExist == \A s : \A n \in Nat : \E f : IsBits(s, n, f)
<1> TAKE s
<1> DEFINE S == {n \in Nat : \E f : IsBits(s, n, f)}
<1>1. 0 \in S
  <2> DEFINE f == [k \in 0..0 |-> Preset]
  <2>1. IsBits(s, 0, f)
    BY DEF IsBits
  <2> QED  BY <2>1
<1>2. ASSUME NEW n \in Nat, n \in S PROVE n + 1 \in S
  <2>1. PICK f : IsBits(s, n, f)
    BY <1>2
  <2> DEFINE g == [k \in 0..(n + 1) |-> IF k = n + 1 THEN BitStep(s, n + 1, f[n]) ELSE f[k]]
  <2>2. \A k \in 0..n : g[k] = f[k]
    OBVIOUS
  <2>3. \A k \in 0..n : f[k] = IF k = 0 THEN Preset ELSE BitStep(s, k, f[k - 1])
    <3>1. BitsHold(s, n, f)
      BY ONLY <2>1, BitsAt, n \in Nat
    <3> QED  BY ONLY <3>1 DEF BitsHold
  <2>4. \A k \in 0..(n + 1) : g[k] = IF k = 0 THEN Preset ELSE BitStep(s, k, g[k - 1])
    <3> SUFFICES ASSUME NEW k \in 0..(n + 1)
                 PROVE  g[k] = IF k = 0 THEN Preset ELSE BitStep(s, k, g[k - 1])
      OBVIOUS
    <3>1. CASE k = n + 1
      BY <3>1
    <3>2. CASE k # n + 1
      <4>1. k \in 0..n /\ (k # 0 => k - 1 \in 0..n)
        BY <3>2
      <4> QED  BY <2>2, <2>3, <4>1
    <3> QED  BY <3>1, <3>2
  <2>5. g = [k \in 0..(n + 1) |-> g[k]]
    OBVIOUS
  <2> HIDE DEF g
  <2>6. n + 1 \in Nat
    OBVIOUS
  <2>7. IsBits(s, n + 1, g)
    <3>1. BitsHold(s, n + 1, g)
      BY ONLY <2>4 DEF BitsHold
    <3> QED  BY ONLY <2>5, <2>6, <3>1, BitsFrom
  <2> QED  BY <2>6, <2>7
<1>3. Nat \subseteq S
  <2> HIDE DEF S
  <2> QED  BY <1>1, <1>2, SetInduction
<1> QED  BY <1>3

\* Polynomial takes the register after the last bit.
LEMMA PolynomialBits ==
    ASSUME NEW s
    PROVE  Len(s) \in Nat => \E f : IsBits(s, 8 * Len(s), f) /\ Polynomial(s) = f[8 * Len(s)]
<1> SUFFICES ASSUME Len(s) \in Nat
             PROVE  \E f : IsBits(s, 8 * Len(s), f) /\ Polynomial(s) = f[8 * Len(s)]
  OBVIOUS
<1> DEFINE f == CHOOSE g : IsBits(s, 8 * Len(s), g)
<1>1. 8 * Len(s) \in Nat
  OBVIOUS
<1>2. \E g : IsBits(s, 8 * Len(s), g)
  BY <1>1, BitsExist
<1>3. IsBits(s, 8 * Len(s), f)
  BY <1>2, Zenon
<1>4. Polynomial(s) = f[8 * Len(s)]
  BY Zenon DEF Polynomial, IsBits
<1> HIDE DEF f
<1> QED  BY <1>3, <1>4

\* A byte at the end of the data does not change the registers before it.
LEMMA BitsAgree ==
    ASSUME NEW s \in Seq(Byte), NEW b \in Byte, NEW L \in Nat, L = Len(s),
           NEW f, NEW g, IsBits(s, 8 * L, f), IsBits(Append(s, b), 8 * L + 8, g)
    PROVE  g[8 * L] = f[8 * L]
<1> DEFINE t == Append(s, b)
           S == {k \in Nat : k <= 8 * L => g[k] = f[k]}
<1>1. \A k \in 1..L : t[k] = s[k]
  OBVIOUS
<1> HIDE DEF t
<1>2. \A k \in 1..(8 * L) : k % 8 = 1 => (k \div 8) + 1 \in 1..L
  OBVIOUS
<1>3. \A k \in 1..(8 * L) : \A x : BitStep(t, k, x) = BitStep(s, k, x)
  BY <1>1, <1>2 DEF BitStep
<1>4. \A k \in 0..(8 * L) : f[k] = IF k = 0 THEN Preset ELSE BitStep(s, k, f[k - 1])
  <2>1. 8 * L \in Nat
    OBVIOUS
  <2>2. BitsHold(s, 8 * L, f)
    BY <2>1, BitsAt
  <2> QED  BY ONLY <2>2 DEF BitsHold
<1>5. \A k \in 0..(8 * L) : g[k] = IF k = 0 THEN Preset ELSE BitStep(t, k, g[k - 1])
  <2>1. 8 * L + 8 \in Nat /\ \A k \in 0..(8 * L) : k \in 0..(8 * L + 8)
    OBVIOUS
  <2>2. \A k \in 0..(8 * L + 8) : g[k] = IF k = 0 THEN Preset ELSE BitStep(t, k, g[k - 1])
    <3>1. BitsHold(t, 8 * L + 8, g)
      BY <2>1, BitsAt DEF t
    <3> QED  BY ONLY <3>1 DEF BitsHold
  <2> QED  BY <2>1, <2>2
<1>6. 0 \in S
  <2>1. 0 \in 0..(8 * L)
    OBVIOUS
  <2> QED  BY <2>1, <1>4, <1>5
<1>7. ASSUME NEW n \in Nat, n \in S PROVE n + 1 \in S
  <2> SUFFICES ASSUME n + 1 <= 8 * L PROVE g[n + 1] = f[n + 1]
    OBVIOUS
  <2>1. /\ n <= 8 * L /\ n + 1 \in 1..(8 * L) /\ n + 1 - 1 = n /\ n + 1 # 0
        /\ n + 1 \in 0..(8 * L)
    OBVIOUS
  <2>2. g[n] = f[n]
    BY <1>7, <2>1
  <2>3. f[n + 1] = BitStep(s, n + 1, f[n]) /\ g[n + 1] = BitStep(t, n + 1, g[n])
    BY <1>4, <1>5, <2>1
  <2> QED  BY <1>3, <2>1, <2>2, <2>3
<1>8. Nat \subseteq S
  <2> HIDE DEF S
  <2> QED  BY <1>6, <1>7, SetInduction
<1>9. 8 * L \in Nat /\ 8 * L <= 8 * L
  OBVIOUS
<1> QED  BY <1>8, <1>9

\* Where the bits of one more byte are.
LEMMA BitPlaces ==
    ASSUME NEW L \in Nat
    PROVE  /\ 8 * L \in Nat /\ 8 * (L + 1) = 8 * L + 8
           /\ (8 * L + 1) % 8 = 1 /\ (8 * L + 1) \div 8 = L
           /\ \A j \in 1..8 : /\ 8 * L + j \in 0..(8 * L + 8) /\ 8 * L + j # 0
                             /\ (8 * L + j) - 1 = 8 * L + (j - 1)
           /\ \A j \in 2..8 : (8 * L + j) % 8 # 1
<1>1. (8 * L + 1) % 8 = 1 /\ (8 * L + 1) \div 8 = L
  OBVIOUS
<1>2. \A j \in 2..8 : (8 * L + j) % 8 # 1
  OBVIOUS
<1> QED  BY <1>1, <1>2

\* A byte is eight bits: the first of them brings the byte in.
LEMMA PolynomialByte ==
    ASSUME NEW s \in Seq(Byte), NEW b \in Byte
    PROVE  Polynomial(Append(s, b)) = Shift8(Xor16(Polynomial(s), b))
<1> DEFINE t == Append(s, b)
<1>1. Len(s) \in Nat /\ Len(t) = Len(s) + 1 /\ t[Len(s) + 1] = b /\ Len(t) \in Nat
  OBVIOUS
<1>2. PICK L \in Nat : L = Len(s)
  BY <1>1
<1> DEFINE N == 8 * L
<1>3. PICK f : IsBits(s, N, f) /\ Polynomial(s) = f[N]
  BY <1>2, PolynomialBits
<1>4. 8 * Len(t) = N + 8
  BY <1>1, <1>2
<1>5. PICK g : IsBits(t, N + 8, g) /\ Polynomial(t) = g[N + 8]
  <2>1. \E g : IsBits(t, 8 * Len(t), g) /\ Polynomial(t) = g[8 * Len(t)]
    <3> HIDE DEF t
    <3> QED  BY <1>1, PolynomialBits
  <2> QED  BY <1>4, <2>1
<1>6. g[N] = f[N]
  BY <1>2, <1>3, <1>5, BitsAgree
<1>7. t[L + 1] = b
  BY <1>1, <1>2
<1> HIDE DEF t
<1>8. \A j \in 1..8 : g[N + j] = BitStep(t, N + j, g[N + (j - 1)])
  <2>1. N + 8 \in Nat
    OBVIOUS
  <2>2. \A k \in 0..(N + 8) : g[k] = IF k = 0 THEN Preset ELSE BitStep(t, k, g[k - 1])
    <3>1. BitsHold(t, N + 8, g)
      BY <1>5, <2>1, BitsAt
    <3> QED  BY ONLY <3>1 DEF BitsHold
  <2> QED  BY <2>2, BitPlaces
<1>9. \A x : BitStep(t, N + 1, x) = Shift(Xor16(x, b))
  BY <1>7, BitPlaces DEF BitStep
<1>10. \A j \in 2..8 : \A x : BitStep(t, N + j, x) = Shift(x)
  BY BitPlaces DEF BitStep
<1>11. g[N + 1] = Shift(Xor16(g[N], b))
  <2>1. 1 \in 1..8 /\ N + (1 - 1) = N
    OBVIOUS
  <2> QED  BY <1>8, <1>9, <2>1
<1>12. \A j \in 2..8 : g[N + j] = Shift(g[N + (j - 1)])
  <2>1. \A j \in 2..8 : j \in 1..8
    OBVIOUS
  <2> QED  BY <1>8, <1>10, <2>1
<1>13. /\ g[N + 2] = Shift(g[N + 1]) /\ g[N + 3] = Shift(g[N + 2])
       /\ g[N + 4] = Shift(g[N + 3]) /\ g[N + 5] = Shift(g[N + 4])
       /\ g[N + 6] = Shift(g[N + 5]) /\ g[N + 7] = Shift(g[N + 6])
       /\ g[N + 8] = Shift(g[N + 7])
  <2>1. /\ 2 - 1 = 1 /\ 3 - 1 = 2 /\ 4 - 1 = 3 /\ 5 - 1 = 4 /\ 6 - 1 = 5 /\ 7 - 1 = 6
        /\ 8 - 1 = 7
    OBVIOUS
  <2>2. /\ 2 \in 2..8 /\ 3 \in 2..8 /\ 4 \in 2..8 /\ 5 \in 2..8 /\ 6 \in 2..8
        /\ 7 \in 2..8 /\ 8 \in 2..8
    OBVIOUS
  <2> HIDE DEF N
  <2> QED  BY <1>12, <2>1, <2>2
<1>14. Polynomial(t) = Shift8(Xor16(g[N], b))
  <2> HIDE DEF N
  <2> QED  BY <1>5, <1>11, <1>13 DEF Shift8
<1> QED  BY <1>3, <1>6, <1>14 DEF t

\* A register is its two halves.
LEMMA RegisterHalves ==
    \A h, l \in 0..255 : (256 * h + l) \div 256 = h /\ (256 * h + l) % 256 = l
OBVIOUS

LEMMA ByteHalves == \A b \in 0..255 : b \div 256 = 0 /\ b % 256 = b
OBVIOUS

\* A turn of the loop does to its two halves what eight shifts do to the register.
LEMMA TurnShifts ==
    ASSUME NEW c \in Crc, NEW b \in Byte
    PROVE  256 * Turn(c, b).crchi + Turn(c, b).crclo
               = Shift8(Xor16(256 * c.crchi + c.crclo, b))
<1> DEFINE r == 256 * c.crchi + c.crclo
           n == Xor(c.crclo, b)
<1>1. c.crchi \in Byte /\ c.crclo \in Byte /\ n \in Byte /\ 0 \in Byte
  <2>1. c.crchi \in Byte /\ c.crclo \in Byte
    BY DEF Crc
  <2>2. n \in Byte
    BY <2>1, ByteXor
  <2>3. 0 \in Byte
    BY DEF Byte
  <2> QED  BY <2>1, <2>2, <2>3
<1>2. r \div 256 = c.crchi /\ r % 256 = c.crclo /\ b \div 256 = 0 /\ b % 256 = b
  <2>1. c.crchi \in 0..255 /\ c.crclo \in 0..255 /\ b \in 0..255
    BY ONLY <1>1, b \in Byte DEF Byte
  <2>2. (256 * c.crchi + c.crclo) \div 256 = c.crchi /\ (256 * c.crchi + c.crclo) % 256 = c.crclo
    <3>1. PICK h \in 0..255 : h = c.crchi
      BY ONLY <2>1
    <3>2. PICK l \in 0..255 : l = c.crclo
      BY ONLY <2>1
    <3>3. (256 * h + l) \div 256 = h /\ (256 * h + l) % 256 = l
      BY ONLY RegisterHalves, h \in 0..255, l \in 0..255
    <3> QED  BY ONLY <3>1, <3>2, <3>3
  <2>3. b \div 256 = 0 /\ b % 256 = b
    BY ONLY <2>1, ByteHalves
  <2> QED  BY <2>2, <2>3
<1>3. Xor(c.crchi, 0) = c.crchi
  BY <1>1, ByteXor
<1>4. Xor16(r, b) = 256 * c.crchi + n
  BY <1>2, <1>3 DEF Xor16
<1>5. /\ Turn(c, b).crchi = crcLo[n + 1]
      /\ Turn(c, b).crclo = Xor(c.crchi, crcHi[n + 1])
  BY DEF Turn
<1> HIDE DEF n, r
<1>6. Shift8(256 * c.crchi + n) = 256 * crcLo[n + 1] + Xor(c.crchi, crcHi[n + 1])
  BY <1>1, ShiftAssumption
<1> QED  BY <1>4, <1>5, <1>6 DEF r

\* Of no data, the register is as the loop starts.
LEMMA PolynomialEmpty == Polynomial(<< >>) = Preset
<1>1. Len(<< >>) = 0 /\ 8 * 0 = 0
  OBVIOUS
<1>2. PICK f : IsBits(<< >>, 0, f) /\ Polynomial(<< >>) = f[0]
  BY <1>1, PolynomialBits
<1> QED  BY <1>2 DEF IsBits

\* The next byte keeps the loop at the remainder.
LEMMA MatchesStep == TypeOK /\ MatchesPolynomial /\ [Next]_vars => MatchesPolynomial'
<1> SUFFICES ASSUME TypeOK, MatchesPolynomial, [Next]_vars PROVE MatchesPolynomial'
  OBVIOUS
<1>1. CASE Next
  <2>1. PICK b \in Byte : \E d : Read(b, d)
    <3>1. Len(data) < MaxData => Alphabet[Len(data) + 1] \subseteq Byte
      BY AlphabetAssumption DEF TypeOK
    <3> QED  BY <1>1, <3>1 DEF Next, ReadSame, ReadChanged
  <2>2. data \in Seq(Byte) /\ crc \in Crc /\ data' = Append(data, b) /\ crc' = Turn(crc, b)
    BY <2>1 DEF Read, TypeOK
  <2>3. Polynomial(data') = Shift8(Xor16(Polynomial(data), b))
    BY <2>2, PolynomialByte
  <2>4. 256 * crc'.crchi + crc'.crclo = Shift8(Xor16(256 * crc.crchi + crc.crclo, b))
    BY <2>2, TurnShifts
  <2>5. 256 * crc.crchi + crc.crclo = Polynomial(data)
    BY DEF MatchesPolynomial
  <2> QED  BY <2>3, <2>4, <2>5 DEF MatchesPolynomial
<1>2. CASE UNCHANGED vars
  BY <1>2 DEF vars, MatchesPolynomial
<1> QED  BY <1>1, <1>2

\* The two tables compute the remainder by the polynomial of CRC16_MODBUS, for data of
\* any length.
THEOREM PolynomialMatched == Spec => []MatchesPolynomial
<1>1. Init => MatchesPolynomial
  BY PolynomialEmpty DEF Init, Start, MatchesPolynomial, Preset
<1> QED  BY <1>1, MatchesStep, TypeCorrect, PTL DEF Spec
=============================================================================
