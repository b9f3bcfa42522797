------------------------------ MODULE ByteLemmas ------------------------------
(***************************************************************************)
(* Facts the proofs about the two connections and the checksum share: how  *)
(* a sequence is cut and put together, induction over the natural numbers, *)
(* the exclusive or of bytes, and the checksum of data of any length.  TLC *)
(* evaluates XorAssumption and TableAssumption.                            *)
(***************************************************************************)
EXTENDS CrcTables, SequenceTheorems, WellFoundedInduction, TLAPS

-----------------------------------------------------------------------------
(* Sequences, and the bytes of a stream.                                   *)

LEMMA TakeProperties ==
    ASSUME NEW S, NEW s \in Seq(S), NEW n \in 0..Len(s)
    PROVE  /\ SubSeq(s, 1, n) \in Seq(S) /\ Len(SubSeq(s, 1, n)) = n
           /\ \A j \in 1..n : SubSeq(s, 1, n)[j] = s[j]
<1>1. Len(s) \in Nat /\ n \in Int /\ \A j \in 1..n : s[j] \in S
  OBVIOUS
<1>2. /\ SubSeq(s, 1, n) \in Seq(S)
      /\ Len(SubSeq(s, 1, n)) = IF 1 <= n THEN n - 1 + 1 ELSE 0
      /\ \A j \in 1..(n - 1 + 1) : SubSeq(s, 1, n)[j] = s[1 + j - 1]
  BY <1>1, SubSeqProperties
<1> QED  BY <1>1, <1>2

LEMMA DropProperties ==
    ASSUME NEW S, NEW s \in Seq(S), NEW n \in 0..Len(s)
    PROVE  /\ SubSeq(s, n + 1, Len(s)) \in Seq(S)
           /\ Len(SubSeq(s, n + 1, Len(s))) = Len(s) - n
           /\ \A j \in 1..(Len(s) - n) : SubSeq(s, n + 1, Len(s))[j] = s[n + j]
<1> DEFINE t == SubSeq(s, n + 1, Len(s))
<1>1. Len(s) \in Nat /\ n \in Nat /\ \A j \in (n + 1)..Len(s) : s[j] \in S
  OBVIOUS
<1>2. /\ t \in Seq(S)
      /\ Len(t) = IF n + 1 <= Len(s) THEN Len(s) - (n + 1) + 1 ELSE 0
      /\ \A j \in 1..(Len(s) - (n + 1) + 1) : t[j] = s[n + 1 + j - 1]
  BY <1>1, SubSeqProperties
<1> HIDE DEF t
<1>3. Len(t) = Len(s) - n
  BY <1>1, <1>2
<1>4. \A j \in 1..(Len(s) - n) : t[j] = s[n + j]
  BY <1>1, <1>2
<1> QED  BY <1>2, <1>3, <1>4 DEF t

LEMMA AppendType == \A S : \A s \in Seq(S), e \in S : Append(s, e) \in Seq(S)
OBVIOUS

LEMMA Appended ==
    ASSUME NEW S, NEW s \in Seq(S), NEW x \in S
    PROVE  /\ Len(s) \in Nat /\ DOMAIN s = 1..Len(s)
           /\ DOMAIN Append(s, x) = 1..(Len(s) + 1) /\ Append(s, x)[Len(s) + 1] = x
           /\ \A k \in 1..Len(s) : k \in 1..(Len(s) + 1) /\ Append(s, x)[k] = s[k]
OBVIOUS

\* With \o under another name the provers need not look into it.
Join(s, t) == s \o t

LEMMA Associative ==
    \A a, b, c \in Seq(Byte) : Join(Join(a, b), c) = Join(a, Join(b, c))
BY ConcatAssociative DEF Join

\* u is the n bytes of s and then the k bytes of t.
Glued(u, s, t, n, k) ==
    /\ u \in Seq(Byte) /\ Len(u) = n + k
    /\ \A j \in 1..n : u[j] = s[j]
    /\ \A j \in 1..k : u[n + j] = t[j]

LEMMA Joined ==
    \A s, t \in Seq(Byte) : \A n, k \in Nat :
        Len(s) = n /\ Len(t) = k => Glued(Join(s, t), s, t, n, k)
<1> SUFFICES ASSUME NEW s \in Seq(Byte), NEW t \in Seq(Byte), NEW n \in Nat, NEW k \in Nat,
                    Len(s) = n, Len(t) = k
             PROVE  Glued(Join(s, t), s, t, n, k)
  OBVIOUS
<1>1. PICK u : u = s \o t
  OBVIOUS
<1>2. /\ u \in Seq(Byte) /\ Len(u) = n + k
      /\ \A j \in 1..(n + k) : u[j] = IF j <= n THEN s[j] ELSE t[j - n]
  BY ONLY <1>1, Len(s) = n, Len(t) = k, s \in Seq(Byte), t \in Seq(Byte), ConcatProperties
<1>3. \A j \in 1..n : u[j] = s[j]
  BY ONLY <1>2, n \in Nat, k \in Nat
<1>4. \A j \in 1..k : u[n + j] = t[j]
  <2> TAKE j \in 1..k
  <2>1. n + j \in 1..(n + k) /\ ~(n + j <= n) /\ (n + j) - n = j
    BY ONLY n \in Nat, k \in Nat, j \in 1..k
  <2> QED  BY ONLY <1>2, <2>1
<1> QED  BY ONLY <1>1, <1>2, <1>3, <1>4 DEF Join, Glued

\* A sequence is the bytes up to any place and those after it.
LEMMA Halved ==
    ASSUME NEW w \in Seq(Byte), NEW k \in 0..Len(w)
    PROVE  SubSeq(w, 1, k) \o SubSeq(w, k + 1, Len(w)) = w
<1>1. PICK n \in Nat : n = Len(w)
  OBVIOUS
<1>2. k \in Nat /\ k <= n
  BY <1>1
<1>3. PICK u : u = SubSeq(w, 1, k)
  OBVIOUS
<1>4. PICK v : v = SubSeq(w, k + 1, Len(w))
  OBVIOUS
<1>5. u \in Seq(Byte) /\ Len(u) = k /\ \A j \in 1..k : u[j] = w[j]
  BY ONLY <1>3, w \in Seq(Byte), k \in 0..Len(w), TakeProperties
<1>6. v \in Seq(Byte) /\ Len(v) = n - k /\ \A j \in 1..(n - k) : v[j] = w[k + j]
  BY ONLY <1>1, <1>4, w \in Seq(Byte), k \in 0..Len(w), DropProperties
<1>7. PICK t : t = u \o v
  OBVIOUS
<1>8. /\ t \in Seq(Byte) /\ Len(t) = n
      /\ \A j \in 1..n : t[j] = IF j <= k THEN u[j] ELSE v[j - k]
  <2>1. /\ t \in Seq(Byte) /\ Len(t) = Len(u) + Len(v)
        /\ \A j \in 1..(Len(u) + Len(v)) : t[j] = IF j <= Len(u) THEN u[j] ELSE v[j - Len(u)]
    BY ONLY <1>5, <1>6, <1>7, ConcatProperties
  <2>2. Len(u) = k /\ Len(u) + Len(v) = n
    BY ONLY <1>2, <1>5, <1>6, n \in Nat
  <2> QED  BY ONLY <2>1, <2>2
<1>9. ASSUME NEW j \in 1..n PROVE t[j] = w[j]
  <2>1. CASE j <= k
    <3>1. j \in 1..k
      BY ONLY <1>2, <2>1, j \in 1..n, n \in Nat
    <3> QED  BY ONLY <1>5, <1>8, <2>1, <3>1, j \in 1..n
  <2>2. CASE ~(j <= k)
    <3>1. j - k \in 1..(n - k) /\ k + (j - k) = j
      BY ONLY <1>2, <2>2, j \in 1..n, n \in Nat
    <3> QED  BY ONLY <1>6, <1>8, <2>2, <3>1, j \in 1..n
  <2> QED  BY ONLY <2>1, <2>2
<1>10. t = w
  BY ONLY <1>1, <1>8, <1>9, w \in Seq(Byte), SeqEqual
<1> QED  BY ONLY <1>3, <1>4, <1>7, <1>10

LEMMA MoveStream ==
    ASSUME NEW b \in Seq(Byte), NEW w \in Seq(Byte), NEW k \in 0..Len(w)
    PROVE  (b \o SubSeq(w, 1, k)) \o SubSeq(w, k + 1, Len(w)) = b \o w
<1>1. PICK u \in Seq(Byte) : u = SubSeq(w, 1, k)
  BY TakeProperties
<1>2. PICK v \in Seq(Byte) : v = SubSeq(w, k + 1, Len(w))
  BY DropProperties
<1>3. u \o v = w
  BY ONLY <1>1, <1>2, w \in Seq(Byte), k \in 0..Len(w), Halved
<1>4. Join(Join(b, u), v) = Join(b, w)
  <2>1. Join(u, v) = w
    BY ONLY <1>3 DEF Join
  <2> QED  BY ONLY <2>1, u \in Seq(Byte), v \in Seq(Byte), b \in Seq(Byte), Associative
<1>5. (b \o u) \o v = b \o w
  BY ONLY <1>4 DEF Join
<1> QED  BY ONLY <1>1, <1>2, <1>5

LEMMA DropStream ==
    ASSUME NEW b \in Seq(Byte), NEW w \in Seq(Byte), NEW n \in 0..Len(b)
    PROVE  SubSeq(b, n + 1, Len(b)) \o w = SubSeq(b \o w, n + 1, Len(b \o w))
<1> DEFINE b2 == SubSeq(b, n + 1, Len(b))
           s == b \o w
           s2 == SubSeq(s, n + 1, Len(s))
<1>1. Len(b) \in Nat /\ Len(w) \in Nat /\ n \in Nat /\ n <= Len(b)
  OBVIOUS
<1>2. b2 \in Seq(Byte) /\ Len(b2) = Len(b) - n /\ \A j \in 1..(Len(b) - n) : b2[j] = b[n + j]
  BY DropProperties
<1>3. /\ s \in Seq(Byte) /\ Len(s) = Len(b) + Len(w)
      /\ \A j \in 1..(Len(b) + Len(w)) : s[j] = IF j <= Len(b) THEN b[j] ELSE w[j - Len(b)]
  BY ConcatProperties
<1> HIDE DEF s, b2
<1>4. s2 \in Seq(Byte) /\ Len(s2) = Len(s) - n /\ \A j \in 1..(Len(s) - n) : s2[j] = s[n + j]
  <2>1. n \in 0..Len(s)
    BY <1>1, <1>3
  <2> QED  BY <1>3, <2>1, DropProperties
<1> HIDE DEF s2
<1>5. /\ b2 \o w \in Seq(Byte) /\ Len(b2 \o w) = Len(b2) + Len(w)
      /\ \A j \in 1..(Len(b2) + Len(w)) :
            (b2 \o w)[j] = IF j <= Len(b2) THEN b2[j] ELSE w[j - Len(b2)]
  BY <1>2, ConcatProperties
<1> DEFINE t == b2 \o w
<1> HIDE DEF t
<1>6. ASSUME NEW j \in 1..Len(t) PROVE t[j] = s2[j]
  <2>1. j \in 1..(Len(s) - n) /\ n + j \in 1..(Len(b) + Len(w)) /\ j \in 1..(Len(b2) + Len(w))
    BY <1>1, <1>2, <1>3, <1>5 DEF t
  <2>2. s2[j] = IF n + j <= Len(b) THEN b[n + j] ELSE w[n + j - Len(b)]
    <3>1. PICK k : k = n + j
      OBVIOUS
    <3>2. s2[j] = s[k]
      BY ONLY <1>3, <1>4, <2>1, <3>1
    <3>3. s[k] = IF k <= Len(b) THEN b[k] ELSE w[k - Len(b)]
      BY ONLY <1>3, <2>1, <3>1
    <3> QED  BY ONLY <3>1, <3>2, <3>3
  <2>3. CASE j <= Len(b) - n
    <3>1. t[j] = b2[j] /\ b2[j] = b[n + j] /\ n + j <= Len(b)
      BY <1>1, <1>2, <1>5, <2>1, <2>3 DEF t
    <3> QED  BY <2>2, <3>1
  <2>4. CASE ~(j <= Len(b) - n)
    <3>1. /\ t[j] = w[j - Len(b2)] /\ ~(n + j <= Len(b)) /\ j - Len(b2) = n + j - Len(b)
      BY <1>1, <1>2, <1>5, <2>1, <2>4 DEF t
    <3> QED  BY <2>2, <3>1
  <2> QED  BY <2>3, <2>4
<1>7. t \in Seq(Byte) /\ Len(t) = Len(s2)
  BY <1>1, <1>2, <1>3, <1>4, <1>5 DEF t
<1>8. t = s2
  BY <1>4, <1>6, <1>7, SeqEqual
<1> QED  BY <1>8 DEF t, s2, s, b2

-----------------------------------------------------------------------------
(* The operator ^.                                                         *)

LEMMA Halves ==
    /\ \A b \in Byte : b \div 16 \in 0..15 /\ b % 16 \in 0..15 /\ b = 16 * (b \div 16) + (b % 16)
    /\ \A h, k \in 0..15 : /\ 16 * h + k \in Byte
                           /\ (16 * h + k) \div 16 = h /\ (16 * h + k) % 16 = k
BY DEF Byte

LEMMA HalfXor ==
    ASSUME NEW h \in 0..15, NEW k \in 0..15
    PROVE  /\ XorHalf(h, k) \in 0..15 /\ XorHalf(h, k) = XorHalf(k, h)
           /\ XorHalf(h, XorHalf(h, k)) = k /\ XorHalf(h, 0) = h
BY XorAssumption

LEMMA XorByHalves ==
    ASSUME NEW a \in Byte, NEW b \in Byte
    PROVE  Xor(a, b) = 16 * XorHalf(a \div 16, b \div 16) + XorHalf(a % 16, b % 16)
<1>1. a \div 16 \in 0..15 /\ a % 16 \in 0..15 /\ b \div 16 \in 0..15 /\ b % 16 \in 0..15
  BY Halves
<1>2. \A h, k \in 0..15 : XorTable[h][k] = XorHalf(h, k)
  BY DEF XorTable
<1> QED  BY <1>1, <1>2 DEF Xor

LEMMA ByteXor ==
    ASSUME NEW a \in Byte, NEW b \in Byte
    PROVE  /\ Xor(a, b) \in Byte /\ Xor(a, b) = Xor(b, a)
           /\ Xor(a, Xor(a, b)) = b /\ Xor(a, 0) = a
<1> DEFINE H == XorHalf(a \div 16, b \div 16)
           L == XorHalf(a % 16, b % 16)
<1>1. /\ a \div 16 \in 0..15 /\ a % 16 \in 0..15 /\ b \div 16 \in 0..15 /\ b % 16 \in 0..15
      /\ a = 16 * (a \div 16) + (a % 16)
      /\ b = 16 * (b \div 16) + (b % 16)
  BY Halves
<1>2. /\ H \in 0..15 /\ H = XorHalf(b \div 16, a \div 16)
      /\ XorHalf(a \div 16, H) = b \div 16 /\ XorHalf(a \div 16, 0) = a \div 16
  BY <1>1, HalfXor
<1>3. /\ L \in 0..15 /\ L = XorHalf(b % 16, a % 16)
      /\ XorHalf(a % 16, L) = b % 16 /\ XorHalf(a % 16, 0) = a % 16
  BY <1>1, HalfXor
<1>4. Xor(a, b) = 16 * H + L /\ Xor(b, a) = 16 * H + L
  BY <1>2, <1>3, XorByHalves
<1> HIDE DEF H, L
<1>5. Xor(a, b) \in Byte /\ Xor(a, b) \div 16 = H /\ Xor(a, b) % 16 = L
  <2>1. H \in 0..15 /\ L \in 0..15
    BY <1>2, <1>3
  <2>2. 16 * H + L \in Byte /\ (16 * H + L) \div 16 = H /\ (16 * H + L) % 16 = L
    BY <2>1, Halves
  <2> QED  BY <2>2, <1>4
<1>6. Xor(a, Xor(a, b)) = b
  BY <1>1, <1>2, <1>3, <1>5, XorByHalves
<1>7. Xor(a, 0) = a
  <2>1. 0 \div 16 = 0 /\ 0 % 16 = 0 /\ 0 \in Byte
    BY DEF Byte
  <2> QED  BY <2>1, <1>1, <1>2, <1>3, XorByHalves
<1> QED  BY <1>4, <1>5, <1>6, <1>7

LEMMA XorCancels ==
    ASSUME NEW a \in Byte, NEW b \in Byte, NEW d \in Byte
    PROVE  /\ Xor(a, b) = Xor(a, d) => b = d
           /\ Xor(b, a) = Xor(d, a) => b = d
<1>1. Xor(a, b) = Xor(a, d) => b = d
  BY ByteXor
<1>2. Xor(a, b) = Xor(b, a) /\ Xor(a, d) = Xor(d, a)
  BY ByteXor
<1> QED  BY <1>1, <1>2

-----------------------------------------------------------------------------
(* One turn of the loop.                                                   *)

LEMMA Tables ==
    ASSUME NEW n \in Byte
    PROVE  /\ crcHi[n + 1] \in Byte /\ crcLo[n + 1] \in Byte
           /\ \A k \in Byte : crcLo[n + 1] = crcLo[k + 1] => n = k
<1>1. \A k \in Byte : k + 1 \in 1..256
  BY DEF Byte
<1>2. /\ \A k \in 1..256 : crcHi[k] \in Byte /\ crcLo[k] \in Byte
      /\ \A k, m \in 1..256 : crcLo[k] = crcLo[m] => k = m
  BY TableAssumption
<1>3. n + 1 \in 1..256
  BY <1>1
<1>4. \A k \in Byte : k + 1 = n + 1 => n = k
  BY DEF Byte
<1>5. \A k \in Byte : crcLo[n + 1] = crcLo[k + 1] => n = k
  BY <1>1, <1>2, <1>3, <1>4
<1>6. crcHi[n + 1] \in Byte /\ crcLo[n + 1] \in Byte
  BY <1>2, <1>3
<1> QED  BY <1>2, <1>3, <1>5, <1>6

LEMMA TurnType ==
    ASSUME NEW c \in Crc, NEW b \in Byte
    PROVE  Turn(c, b) \in Crc
<1>1. Xor(c.crclo, b) \in Byte /\ c.crchi \in Byte
  BY ByteXor DEF Crc
<1>2. crcHi[Xor(c.crclo, b) + 1] \in Byte /\ crcLo[Xor(c.crclo, b) + 1] \in Byte
  BY <1>1, Tables
<1>3. Xor(c.crchi, crcHi[Xor(c.crclo, b) + 1]) \in Byte
  BY <1>1, <1>2, ByteXor
<1> QED  BY <1>2, <1>3 DEF Turn, Crc

-----------------------------------------------------------------------------
(* Induction.  The theorems of the library that do induction take an       *)
(* operator as a parameter; a set says the same, and the well-foundedness  *)
(* of < on Nat gives it a least element outside.                           *)

LEMMA LessThan == \A x, y \in Nat : <<x, y>> \in OpToRel(<, Nat) <=> x < y
BY DEF OpToRel

\* A set that holds 0 and the successor of each number it holds holds every number.
LEMMA SetInduction ==
    ASSUME NEW S, 0 \in S, \A n \in Nat : n \in S => n + 1 \in S
    PROVE  Nat \subseteq S
<1> DEFINE T == Nat \ S
<1> SUFFICES ASSUME T # {} PROVE FALSE
  OBVIOUS
<1>1. PICK x \in T : \A y \in T : ~(<<y, x>> \in OpToRel(<, Nat))
  BY WFMin, NatLessThanWellFounded
<1>2. x \in Nat /\ x # 0 /\ x - 1 \in Nat /\ x - 1 < x
  OBVIOUS
<1>3. x - 1 \notin T
  BY <1>1, <1>2, LessThan
<1>4. x - 1 \in S /\ (x - 1) + 1 = x
  BY <1>2, <1>3
<1>5. x \in S
  BY <1>2, <1>4
<1> QED  BY <1>1, <1>5

\* A sequence of values, each made of the one before by a function of its number.
IsRun(f, n, V, v, D) ==
    f \in [0..n -> V] /\ f[0] = v /\ \A k \in 1..n : f[k] = D[k][f[k - 1]]

LEMMA RunExists ==
    ASSUME NEW V, NEW v \in V, NEW D \in [Nat -> [V -> V]]
    PROVE  \A n \in Nat : \E f : IsRun(f, n, V, v, D)
<1> DEFINE S == {n \in Nat : \E f : IsRun(f, n, V, v, D)}
<1>1. 0 \in S
  <2> DEFINE f == [k \in 0..0 |-> v]
  <2>1. f \in [0..0 -> V] /\ f[0] = v /\ 1..0 = {}
    OBVIOUS
  <2>2. IsRun(f, 0, V, v, D)
    BY ONLY <2>1 DEF IsRun
  <2> QED  BY <2>2
<1>2. ASSUME NEW n \in Nat, n \in S PROVE n + 1 \in S
  <2>1. PICK f : IsRun(f, n, V, v, D)
    BY <1>2
  <2>2. /\ f \in [0..n -> V] /\ f[0] = v /\ f[n] \in V /\ D[n + 1][f[n]] \in V
        /\ \A k \in 1..n : f[k] = D[k][f[k - 1]]
    BY <2>1 DEF IsRun
  <2> DEFINE g == [k \in 0..(n + 1) |-> IF k = n + 1 THEN D[n + 1][f[n]] ELSE f[k]]
  <2>3. g \in [0..(n + 1) -> V] /\ g[n + 1] = D[n + 1][f[n]] /\ \A k \in 0..n : g[k] = f[k]
    BY <2>2
  <2> HIDE DEF g
  <2>4. ASSUME NEW k \in 1..(n + 1) PROVE g[k] = D[k][g[k - 1]]
    <3>1. CASE k = n + 1
      <4>1. k - 1 = n /\ n \in 0..n
        BY <3>1
      <4> QED  BY <2>3, <3>1, <4>1
    <3>2. CASE k # n + 1
      <4>1. k \in 1..n /\ k \in 0..n /\ k - 1 \in 0..n
        BY <3>2
      <4> QED  BY <2>2, <2>3, <4>1
    <3> QED  BY <3>1, <3>2
  <2>5. g[0] = v
    BY <2>2, <2>3
  <2>6. IsRun(g, n + 1, V, v, D)
    BY ONLY <2>3, <2>4, <2>5 DEF IsRun
  <2> QED  BY <2>6
<1>3. Nat \subseteq S
  <2> HIDE DEF S
  <2> QED  BY <1>1, <1>2, SetInduction
<1> QED  BY <1>3

-----------------------------------------------------------------------------
(* The whole loop.                                                         *)

IsLoop(t, data) ==
    t = [n \in 0..Len(data) |-> IF n = 0 THEN Start ELSE Step[t[n - 1]][data[n]]]

\* The checksum of any data is two bytes.
LEMMA ChecksumType == \A data \in Seq(Byte) : CalcCRC16Modbus(data) \in Crc
<1> SUFFICES ASSUME NEW data \in Seq(Byte) PROVE CalcCRC16Modbus(data) \in Crc
  OBVIOUS
<1> DEFINE D == [n \in Nat |-> [c \in Crc |-> IF n \in 1..Len(data) THEN Step[c][data[n]] ELSE c]]
<1>1. Start \in Crc
  BY DEF Start, Crc, Byte
<1>2. Len(data) \in Nat /\ \A n \in 1..Len(data) : data[n] \in Byte
  OBVIOUS
<1>3. \A c \in Crc, b \in Byte : Step[c][b] \in Crc
  BY TurnType DEF Step
<1>4. D \in [Nat -> [Crc -> Crc]]
  BY <1>2, <1>3
<1>5. \A n \in 1..Len(data) : \A c \in Crc : D[n][c] = Step[c][data[n]]
  BY <1>2
<1> HIDE DEF D
<1>6. PICK f : IsRun(f, Len(data), Crc, Start, D)
  BY <1>1, <1>2, <1>4, RunExists
<1>7. /\ f \in [0..Len(data) -> Crc] /\ f[0] = Start
      /\ \A n \in 1..Len(data) : f[n] = Step[f[n - 1]][data[n]]
  <2>1. \A n \in 1..Len(data) : n - 1 \in 0..Len(data)
    BY <1>2
  <2> QED  BY <1>5, <1>6, <2>1 DEF IsRun
<1>8. IsLoop(f, data)
  <2>1. f = [n \in 0..Len(data) |-> f[n]]
    BY <1>7
  <2>2. \A n \in 0..Len(data) : f[n] = IF n = 0 THEN Start ELSE Step[f[n - 1]][data[n]]
    BY <1>2, <1>7
  <2> QED  BY ONLY <2>1, <2>2 DEF IsLoop
<1> DEFINE t == CHOOSE g : IsLoop(g, data)
<1>9. IsLoop(t, data)
  BY ONLY <1>8, Zenon
<1>10. CalcCRC16Modbus(data) = t[Len(data)]
  BY Zenon DEF CalcCRC16Modbus, IsLoop
<1> HIDE DEF t
<1>11. /\ t[0] = Start
       /\ \A n \in 1..Len(data) : t[n] = Step[t[n - 1]][data[n]]
  BY ONLY <1>2, <1>9 DEF IsLoop
<1> DEFINE S == {n \in Nat : n <= Len(data) => t[n] \in Crc}
<1>12. 0 \in S
  BY <1>1, <1>11
<1>13. ASSUME NEW n \in Nat, n \in S PROVE n + 1 \in S
  <2>1. CASE n + 1 <= Len(data)
    <3>1. n + 1 \in 1..Len(data) /\ (n + 1) - 1 = n /\ t[n] \in Crc
      BY <1>2, <1>13, <2>1
    <3> QED  BY <1>2, <1>3, <1>11, <3>1
  <2> QED  BY <2>1
<1>14. Nat \subseteq S
  <2> HIDE DEF S
  <2> QED  BY <1>12, <1>13, SetInduction
<1> QED  BY <1>2, <1>10, <1>14
=============================================================================
