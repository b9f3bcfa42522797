-------------------------- MODULE RobotFramesProofs --------------------------
(***************************************************************************)
(* The connection of the virtual robot to its RCS, for every sequence of   *)
(* requests, every noise and any number of connections.                    *)
(***************************************************************************)
EXTENDS RobotFrames, ByteLemmas

-----------------------------------------------------------------------------
(* Type correctness.                                                       *)

LEMMA ChecksumBytes ==
    \A s \in Seq(Byte) : /\ LowFirst(CalcCRC16Modbus(s)) \in Seq(Byte)
                         /\ Len(LowFirst(CalcCRC16Modbus(s))) = 2
<1> SUFFICES ASSUME NEW s \in Seq(Byte)
             PROVE  /\ LowFirst(CalcCRC16Modbus(s)) \in Seq(Byte)
                    /\ Len(LowFirst(CalcCRC16Modbus(s))) = 2
  OBVIOUS
<1>1. PICK c \in Crc : c = CalcCRC16Modbus(s)
  BY ChecksumType
<1>2. c.crclo \in Byte /\ c.crchi \in Byte
  BY ONLY <1>1 DEF Crc
<1>3. LowFirst(c) \in Seq(Byte) /\ Len(LowFirst(c)) = 2
  BY ONLY <1>2 DEF LowFirst
<1> QED  BY ONLY <1>1, <1>3

LEMMA LengthType == \A n \in Nat : Length(n) \in Seq(Byte) /\ Len(Length(n)) = 4
<1> SUFFICES ASSUME NEW n \in Nat PROVE Length(n) \in Seq(Byte) /\ Len(Length(n)) = 4
  OBVIOUS
<1>1. \A k \in Nat : k \div 256 \in Nat /\ k % 256 \in Byte
  BY DEF Byte
<1>2. PICK a \in Nat : a = n \div 256
  BY <1>1
<1>3. PICK b \in Nat : b = a \div 256
  BY <1>1
<1>4. PICK c \in Nat : c = b \div 256
  BY <1>1
<1>5. Length(n) = <<n % 256, a % 256, b % 256, c % 256>>
  BY ONLY <1>2, <1>3, <1>4 DEF Length
<1>6. n % 256 \in Byte /\ a % 256 \in Byte /\ b % 256 \in Byte /\ c % 256 \in Byte
  BY ONLY <1>1, n \in Nat, a \in Nat, b \in Nat, c \in Nat
<1> QED  BY ONLY <1>5, <1>6

Head6(m) == <<2, 84>> \o Length(Len(m.msg) + 2)
BodyOf(m) == m.type \o m.msg

\* A request as the assumption has it.
Sized(m) ==
    /\ m \in Message /\ m.type \in Seq(Byte) /\ m.msg \in Seq(Byte) /\ Len(m.msg) \in Nat
    /\ Len(m.type) = 2 /\ (((Len(m.msg) + 2) \div 256) \div 256) \div 256 < 128

LEMMA RequestType == \A k \in 1..Len(Requests) : k \in DOMAIN Requests /\ Sized(Requests[k])
<1> TAKE k \in 1..Len(Requests)
<1>1. Requests \in Seq(Message) /\ k \in DOMAIN Requests
  BY RequestAssumption
<1>2. Requests[k] \in Message
  BY ONLY <1>1
<1>3. Requests[k].type \in Seq(Byte) /\ Requests[k].msg \in Seq(Byte)
  BY ONLY <1>2 DEF Message
<1>4. Len(Requests[k].msg) \in Nat
  BY ONLY <1>3
<1> DEFINE Short(m) == /\ Len(m.type) = 2
                       /\ (((Len(m.msg) + 2) \div 256) \div 256) \div 256 < 128
<1>5. Short(Requests[k])
  <2>1. \A n \in DOMAIN Requests : Short(Requests[n])
    BY ONLY RequestAssumption
  <2> HIDE DEF Short
  <2> QED  BY ONLY <2>1, <1>1
<1> QED  BY ONLY <1>1, <1>2, <1>3, <1>4, <1>5 DEF Sized

\* The parts of a frame.
FrameParts(m, h, c, d) ==
    /\ h \in Seq(Byte) /\ Len(h) = 6 /\ h = Head6(m)
    /\ c \in Seq(Byte) /\ Len(c) = 2 /\ c = LowFirst(CalcCRC16Modbus(h))
    /\ BodyOf(m) \in Seq(Byte) /\ Len(BodyOf(m)) = Len(m.type) + Len(m.msg)
    /\ d \in Seq(Byte) /\ Len(d) = 2 /\ d = LowFirst(CalcCRC16Modbus(BodyOf(m)))
    /\ Frame(m) = Join(Join(Join(Join(h, c), BodyOf(m)), d), <<3>>)

LEMMA FrameSplit == \A m \in Message : \E h, c, d : FrameParts(m, h, c, d)
<1> SUFFICES ASSUME NEW m \in Message PROVE \E h, c, d : FrameParts(m, h, c, d)
  OBVIOUS
<1>1. m.type \in Seq(Byte) /\ m.msg \in Seq(Byte) /\ Len(m.msg) + 2 \in Nat
  BY DEF Message
<1>2. BodyOf(m) \in Seq(Byte) /\ Len(BodyOf(m)) = Len(m.type) + Len(m.msg)
  BY ONLY <1>1, ConcatProperties DEF BodyOf
<1>3. Head6(m) \in Seq(Byte) /\ Len(Head6(m)) = 6
  <2>1. PICK l : l = Length(Len(m.msg) + 2)
    OBVIOUS
  <2>2. l \in Seq(Byte) /\ Len(l) = 4
    BY ONLY <1>1, <2>1, LengthType
  <2>3. <<2, 84>> \in Seq(Byte) /\ Len(<<2, 84>>) = 2
    BY DEF Byte
  <2>4. PICK t : t = <<2, 84>>
    OBVIOUS
  <2>5. t \in Seq(Byte) /\ Len(t) = 2
    BY ONLY <2>3, <2>4
  <2>6. Glued(Join(t, l), t, l, 2, 4)
    BY <2>2, <2>5, Joined
  <2>7. Join(t, l) \in Seq(Byte) /\ Len(Join(t, l)) = 6
    BY ONLY <2>6 DEF Glued
  <2> QED  BY ONLY <2>1, <2>4, <2>7 DEF Head6, Join
<1>4. PICK h : h = Head6(m)
  OBVIOUS
<1>5. PICK c : c = LowFirst(CalcCRC16Modbus(h))
  OBVIOUS
<1>6. PICK d : d = LowFirst(CalcCRC16Modbus(BodyOf(m)))
  OBVIOUS
<1>7. c \in Seq(Byte) /\ Len(c) = 2
  BY ONLY <1>3, <1>4, <1>5, ChecksumBytes
<1>8. d \in Seq(Byte) /\ Len(d) = 2
  BY ONLY <1>2, <1>6, ChecksumBytes
<1>9. Frame(m) = Join(Join(Join(Join(h, c), BodyOf(m)), d), <<3>>)
  BY ONLY <1>4, <1>5, <1>6 DEF Frame, Head6, BodyOf, Join
<1> QED  BY ONLY <1>2, <1>3, <1>4, <1>5, <1>6, <1>7, <1>8, <1>9 DEF FrameParts

\* The bytes of a frame.
Laid(f, m) ==
    /\ f \in Seq(Byte) /\ Len(f) = Len(BodyOf(m)) + 11 /\ BodyOf(m) \in Seq(Byte)
    /\ \A j \in 1..6 : f[j] = Head6(m)[j]
    /\ \A j \in 1..2 : f[6 + j] = LowFirst(CalcCRC16Modbus(Head6(m)))[j]
    /\ \A j \in 1..Len(BodyOf(m)) : f[8 + j] = BodyOf(m)[j]
    /\ \A j \in 1..2 : f[8 + Len(BodyOf(m)) + j] = LowFirst(CalcCRC16Modbus(BodyOf(m)))[j]
    /\ f[Len(BodyOf(m)) + 11] = 3

LEMMA FrameLaid == \A m \in Message : Laid(Frame(m), m)
<1> SUFFICES ASSUME NEW m \in Message PROVE Laid(Frame(m), m)
  OBVIOUS
<1>1. PICK h, c, d : FrameParts(m, h, c, d)
  BY FrameSplit
<1>2. PICK b : b = BodyOf(m)
  OBVIOUS
<1>3. PICK e : e = <<3>>
  OBVIOUS
<1>4. /\ h \in Seq(Byte) /\ c \in Seq(Byte) /\ b \in Seq(Byte) /\ d \in Seq(Byte)
      /\ Len(h) = 6 /\ Len(c) = 2 /\ Len(d) = 2
      /\ Frame(m) = Join(Join(Join(Join(h, c), b), d), e)
  BY ONLY <1>1, <1>2, <1>3 DEF FrameParts
<1>5. e \in Seq(Byte) /\ Len(e) = 1 /\ e[1] = 3
  BY ONLY <1>3 DEF Byte
<1>6. PICK n \in Nat : n = Len(b)
  BY ONLY <1>4
<1>7. PICK x \in Seq(Byte) : x = Join(h, c) /\ Glued(x, h, c, 6, 2) /\ Len(x) = 8
  <2>1. Glued(Join(h, c), h, c, 6, 2)
    BY <1>4, Joined
  <2> QED  BY ONLY <2>1 DEF Glued
<1>8. PICK y \in Seq(Byte) : y = Join(x, b) /\ Glued(y, x, b, 8, n) /\ Len(y) = 8 + n
  <2>1. Glued(Join(x, b), x, b, 8, n)
    BY <1>4, <1>6, <1>7, Joined
  <2> QED  BY ONLY <2>1 DEF Glued
<1>9. PICK z \in Seq(Byte) : z = Join(y, d) /\ Glued(z, y, d, 8 + n, 2) /\ Len(z) = 8 + n + 2
  <2>1. 8 + n \in Nat
    OBVIOUS
  <2>2. Glued(Join(y, d), y, d, 8 + n, 2)
    BY <1>4, <1>8, <2>1, Joined
  <2> QED  BY ONLY <2>2 DEF Glued
<1>10. PICK f \in Seq(Byte) : f = Join(z, e) /\ Glued(f, z, e, 8 + n + 2, 1)
  <2>1. 8 + n + 2 \in Nat
    OBVIOUS
  <2>2. Glued(Join(z, e), z, e, 8 + n + 2, 1)
    BY <1>5, <1>9, <2>1, Joined
  <2> QED  BY ONLY <2>2 DEF Glued
<1>11. /\ \A j \in 1..6 : f[j] = h[j]
       /\ \A j \in 1..2 : f[6 + j] = c[j]
       /\ \A j \in 1..n : f[8 + j] = b[j]
       /\ \A j \in 1..2 : f[8 + n + j] = d[j]
       /\ f[n + 11] = 3 /\ Len(f) = n + 11
  <2>1. \A j \in 1..6 : j \in 1..8 /\ j \in 1..(8 + n) /\ j \in 1..(8 + n + 2)
    BY ONLY n \in Nat
  <2>2. \A j \in 1..2 : 6 + j \in 1..8 /\ 6 + j \in 1..(8 + n) /\ 6 + j \in 1..(8 + n + 2)
    BY ONLY n \in Nat
  <2>3. \A j \in 1..n : 8 + j \in 1..(8 + n) /\ 8 + j \in 1..(8 + n + 2)
    BY ONLY n \in Nat
  <2>4. \A j \in 1..2 : 8 + n + j \in 1..(8 + n + 2)
    BY ONLY n \in Nat
  <2>5. \A j \in 1..6 : f[j] = h[j]
    BY ONLY <1>7, <1>8, <1>9, <1>10, <2>1 DEF Glued
  <2>6. \A j \in 1..2 : f[6 + j] = c[j]
    <3> TAKE j \in 1..2
    <3>1. PICK i : i = 6 + j
      OBVIOUS
    <3>2. x[i] = c[j]
      BY ONLY <1>7, <3>1, j \in 1..2 DEF Glued
    <3>3. i \in 1..8 /\ i \in 1..(8 + n) /\ i \in 1..(8 + n + 2)
      BY ONLY <2>2, <3>1, j \in 1..2
    <3>4. f[i] = x[i]
      BY ONLY <1>8, <1>9, <1>10, <3>3 DEF Glued
    <3> QED  BY ONLY <3>1, <3>2, <3>4
  <2>7. \A j \in 1..n : f[8 + j] = b[j]
    BY ONLY <1>8, <1>9, <1>10, <2>3 DEF Glued
  <2>8. \A j \in 1..2 : f[8 + n + j] = d[j]
    BY ONLY <1>9, <1>10, <2>4 DEF Glued
  <2>9. f[n + 11] = 3
    <3>1. f[8 + n + 2 + 1] = e[1] /\ 8 + n + 2 + 1 = n + 11
      BY ONLY <1>10, n \in Nat DEF Glued
    <3> QED  BY ONLY <1>5, <3>1
  <2>10. Len(f) = n + 11
    BY ONLY <1>10, n \in Nat DEF Glued
  <2> QED  BY ONLY <2>5, <2>6, <2>7, <2>8, <2>9, <2>10
<1>12. f = Frame(m)
  BY ONLY <1>4, <1>7, <1>8, <1>9, <1>10
<1>13. /\ h = Head6(m) /\ c = LowFirst(CalcCRC16Modbus(h)) /\ d = LowFirst(CalcCRC16Modbus(b))
  BY ONLY <1>1, <1>2 DEF FrameParts
<1>14. Laid(f, m)
  BY ONLY <1>2, <1>4, <1>6, <1>11, <1>13, f \in Seq(Byte) DEF Laid
<1> QED  BY ONLY <1>12, <1>14

LEMMA FrameType == \A k \in 1..Len(Requests) : Frames[k] \in Seq(Byte)
<1> TAKE k \in 1..Len(Requests)
<1>1. Requests[k] \in Message /\ k \in DOMAIN Requests
  <2>1. k \in DOMAIN Requests /\ Sized(Requests[k])
    BY ONLY RequestType, k \in 1..Len(Requests)
  <2> QED  BY ONLY <2>1 DEF Sized
<1>2. Frames[k] = Frame(Requests[k])
  BY ONLY <1>1 DEF Frames
<1>3. Laid(Frame(Requests[k]), Requests[k])
  BY ONLY <1>1, FrameLaid
<1> QED  BY ONLY <1>2, <1>3 DEF Laid

Slots    == [sess : 1..MaxSession, pc : {"loop", "handler"}]
Marks    == [sess : 1..MaxSession, upsets : Nat, since : Nat]
Apart(s) == \A k, n \in 1..Len(s) : s[k].sess = s[n].sess => k = n

\* Nothing has happened before the first connection.
Fresh == session = 0 => conn = "none" /\ stack = << >> /\ marks = << >> /\ upsets = 0

IInv == TypeOK /\ Fresh

Replaced(s, pc, t) ==
    /\ t \in Seq(Slots) /\ Len(t) = Len(s) /\ t[Len(s)].pc = pc
    /\ \A k \in 1..Len(s) : t[k].sess = s[k].sess
    /\ Apart(s) => Apart(t)

LEMMA StackReplaced ==
    \A s \in Seq(Slots), pc \in {"loop", "handler"} :
        s # << >> => Replaced(s, pc, [s EXCEPT ![Len(s)].pc = pc])
<1> SUFFICES ASSUME NEW s \in Seq(Slots), NEW pc \in {"loop", "handler"}, s # << >>, NEW t,
                    t = [s EXCEPT ![Len(s)].pc = pc]
             PROVE  Replaced(s, pc, t)
  OBVIOUS
<1>1. PICK n \in Nat : n = Len(s)
  OBVIOUS
<1>2. n \in 1..n /\ DOMAIN s = 1..n /\ s[n] \in Slots /\ \A k \in 1..n : s[k] \in Slots
  BY <1>1
<1>3. [s[n] EXCEPT !.pc = pc] \in Slots /\ [s[n] EXCEPT !.pc = pc].sess = s[n].sess
      /\ [s[n] EXCEPT !.pc = pc].pc = pc
  BY <1>2 DEF Slots
<1>4. PICK e : e = [s[n] EXCEPT !.pc = pc]
  OBVIOUS
<1>5. t = [s EXCEPT ![n] = e]
  BY <1>1, <1>4
<1>6. t \in Seq(Slots) /\ Len(t) = n /\ t[n] = e /\ \A k \in 1..n : k # n => t[k] = s[k]
  BY ONLY <1>1, <1>2, <1>3, <1>4, <1>5, s \in Seq(Slots)
<1>7. \A k \in 1..n : t[k].sess = s[k].sess
  BY ONLY <1>3, <1>4, <1>6
<1>8. Apart(s) => Apart(t)
  BY ONLY <1>1, <1>6, <1>7 DEF Apart
<1> QED  BY ONLY <1>1, <1>3, <1>4, <1>6, <1>7, <1>8 DEF Replaced

LEMMA StackPopped ==
    ASSUME NEW s \in Seq(Slots), s # << >>, NEW t, t = Front(s)
    PROVE  /\ t \in Seq(Slots) /\ Len(t) = Len(s) - 1
           /\ \A k \in 1..Len(t) : k \in 1..Len(s) /\ t[k] = s[k]
           /\ Apart(s) => Apart(t)
<1>1. PICK n \in Nat : n = Len(s)
  OBVIOUS
<1>2. n - 1 \in 0..Len(s) /\ n - 1 \in Nat
  BY <1>1
<1>3. t = SubSeq(s, 1, n - 1)
  BY <1>1 DEF Front
<1>4. /\ t \in Seq(Slots) /\ Len(t) = n - 1
      /\ \A k \in 1..(n - 1) : t[k] = s[k]
  BY ONLY <1>2, <1>3, s \in Seq(Slots), TakeProperties
<1>5. \A k \in 1..(n - 1) : k \in 1..n
  BY ONLY n \in Nat
<1>6. Apart(s) => Apart(t)
  BY ONLY <1>1, <1>4, <1>5 DEF Apart
<1> QED  BY ONLY <1>1, <1>4, <1>5, <1>6

Pushed(s, n, t) ==
    /\ t \in Seq(Slots) /\ Len(t) = Len(s) + 1 /\ t[Len(t)] = [sess |-> n, pc |-> "loop"]
    /\ \A k \in 1..Len(s) : t[k] = s[k]
    /\ Apart(s) => Apart(t)

NotOn(s, n) == \A k \in 1..Len(s) : s[k].sess # n

LEMMA StackPushed ==
    \A s \in Seq(Slots), n \in 1..MaxSession :
        NotOn(s, n) => Pushed(s, n, Append(s, [sess |-> n, pc |-> "loop"]))
<1> SUFFICES ASSUME NEW s \in Seq(Slots), NEW n \in 1..MaxSession, NotOn(s, n), NEW t,
                    t = Append(s, [sess |-> n, pc |-> "loop"])
             PROVE  Pushed(s, n, t)
  OBVIOUS
<1>1. PICK e : e = [sess |-> n, pc |-> "loop"]
  OBVIOUS
<1>2. e \in Slots /\ e.sess = n
  BY <1>1 DEF Slots
<1>3. PICK l \in Nat : l = Len(s)
  OBVIOUS
<1>4. /\ t \in Seq(Slots) /\ Len(t) = l + 1 /\ t[l + 1] = e
      /\ \A k \in 1..l : t[k] = s[k]
  BY ONLY <1>1, <1>2, <1>3, s \in Seq(Slots), t = Append(s, [sess |-> n, pc |-> "loop"])
<1>5. ASSUME Apart(s) PROVE Apart(t)
  <2>1. \A k \in 1..(l + 1) : k \in 1..l \/ k = l + 1
    BY ONLY l \in Nat
  <2>2. \A k \in 1..l : t[k].sess # t[l + 1].sess
    BY ONLY <1>2, <1>3, <1>4, NotOn(s, n) DEF NotOn
  <2> QED  BY ONLY <1>3, <1>4, <1>5, <2>1, <2>2 DEF Apart
<1> QED  BY ONLY <1>1, <1>3, <1>4, <1>5 DEF Pushed

LEMMA InitIInv == Init => IInv
<1> SUFFICES ASSUME Init PROVE IInv
  OBVIOUS
<1>1. MaxSession \in Nat /\ MaxNoise \in Nat
  BY FramesAssumption
<1>2. << >> \in Seq(Byte) /\ << >> \in Seq(Message) /\ Len(<< >>) = 0
  OBVIOUS
<1>3. /\ << >> \in Seq([sess : 1..MaxSession, pc : {"loop", "handler"}])
      /\ << >> \in Seq([sess : 1..MaxSession, upsets : Nat, since : Nat])
  OBVIOUS
<1>4. TypeOK
  BY <1>1, <1>2, <1>3 DEF Init, TypeOK
<1> QED  BY <1>4 DEF IInv, Fresh, Init

LEMMA SendType == ASSUME IInv, RcsSends PROVE IInv'
<1>1. session \in 1..MaxSession /\ session # 0
  BY FramesAssumption DEF IInv, TypeOK, Fresh, RcsSends
<1>2. PICK n : n = Len(marks) + 1
  OBVIOUS
<1>3. marks \in Seq(Marks) /\ n \in 1..Len(Requests)
  BY <1>2, RequestAssumption DEF IInv, TypeOK, Marks, RcsSends
<1>4. wire' \in Seq(Byte)
  <2>1. Frames[n] \in Seq(Byte)
    BY <1>3, FrameType
  <2>2. wire \in Seq(Byte) /\ wire' = wire \o Frames[n]
    BY <1>2 DEF IInv, TypeOK, RcsSends
  <2> QED  BY ONLY <2>1, <2>2, ConcatProperties
<1>5. Since \in Nat
  <2>1. Spoiled \in Nat
    BY FramesAssumption
  <2>2. marks # << >> => Last(marks) \in Marks
    BY ONLY <1>3 DEF Last
  <2>3. marks # << >> => Last(marks).since + 1 \in Nat
    BY ONLY <2>2 DEF Marks
  <2> QED  BY ONLY <2>1, <2>3 DEF Since
<1>6. marks' \in Seq(Marks)
  <2>1. PICK e : e = [sess |-> session, upsets |-> upsets, since |-> Since]
    OBVIOUS
  <2>2. upsets \in Nat /\ marks' = Append(marks, e)
    BY <2>1 DEF IInv, TypeOK, RcsSends
  <2>3. e \in Marks
    BY ONLY <1>1, <1>5, <2>1, <2>2 DEF Marks
  <2> QED  BY ONLY <1>3, <2>2, <2>3, AppendType
<1>7. UNCHANGED <<alive, conn, session, buffer, stack, unpackingStatus, rx_body_len,
                  noise, upsets, processed>>
  BY DEF RcsSends, link, parser
<1>8. TypeOK'
  BY ONLY <1>4, <1>6, <1>7, IInv DEF IInv, TypeOK, Marks
<1> QED  BY ONLY <1>1, <1>7, <1>8 DEF IInv, Fresh

LEMMA NoiseType == ASSUME IInv, NEW bytes \in Noises, Noise(bytes) PROVE IInv'
<1>1. session # 0
  BY DEF IInv, Fresh, Noise
<1>2. wire' \in Seq(Byte)
  <2>1. bytes \in Seq(Byte)
    BY FramesAssumption
  <2>2. wire \in Seq(Byte) /\ wire' = wire \o bytes
    BY DEF IInv, TypeOK, Noise
  <2> QED  BY ONLY <2>1, <2>2, ConcatProperties
<1>3. noise' \in 0..MaxNoise /\ upsets' \in Nat
  <2>1. noise \in 0..MaxNoise /\ upsets \in Nat /\ noise < MaxNoise /\ MaxNoise \in Nat
        /\ noise' = noise + 1 /\ upsets' = upsets + 1
    BY FramesAssumption DEF IInv, TypeOK, Noise
  <2> QED  BY ONLY <2>1
<1>4. UNCHANGED <<alive, conn, session, buffer, stack, unpackingStatus, rx_body_len,
                  marks, processed>>
  BY DEF Noise, link, parser
<1>5. TypeOK'
  BY ONLY <1>2, <1>3, <1>4, IInv DEF IInv, TypeOK
<1> QED  BY ONLY <1>1, <1>4, <1>5 DEF IInv, Fresh

LEMMA ReadType == ASSUME IInv, ReadyRead PROVE IInv'
<1>1. session \in 1..MaxSession /\ session # 0
  BY FramesAssumption DEF IInv, TypeOK, Fresh, ReadyRead
<1>2. wire' \in Seq(Byte) /\ buffer' \in Seq(Byte)
  <2>1. PICK k \in 1..Len(wire) : /\ buffer' = buffer \o SubSeq(wire, 1, k)
                                  /\ wire' = SubSeq(wire, k + 1, Len(wire))
    BY DEF ReadyRead
  <2>2. wire \in Seq(Byte) /\ buffer \in Seq(Byte) /\ k \in 0..Len(wire)
    BY DEF IInv, TypeOK
  <2>3. SubSeq(wire, 1, k) \in Seq(Byte) /\ wire' \in Seq(Byte)
    BY ONLY <2>1, <2>2, TakeProperties, DropProperties
  <2> QED  BY ONLY <2>1, <2>2, <2>3, ConcatProperties
<1>3. stack \in Seq(Slots) /\ Apart(stack)
  BY DEF IInv, TypeOK, Slots, Apart
<1>4. stack' \in Seq(Slots) /\ Apart(stack')
  <2>1. CASE \E k \in 1..Len(stack) : stack[k].sess = session
    <3>1. stack' = stack
      BY ONLY <2>1, ReadyRead DEF ReadyRead
    <3> QED  BY ONLY <1>3, <3>1
  <2>2. CASE ~\E k \in 1..Len(stack) : stack[k].sess = session
    <3>1. /\ stack' = Append(stack, [sess |-> session, pc |-> "loop"])
          /\ NotOn(stack, session)
      BY <2>2 DEF ReadyRead, NotOn
    <3>2. Pushed(stack, session, stack')
      BY ONLY <1>1, <1>3, <3>1, StackPushed
    <3> QED  BY ONLY <1>3, <3>2 DEF Pushed
  <2> QED  BY ONLY <2>1, <2>2
<1>5. UNCHANGED <<alive, conn, session, unpackingStatus, rx_body_len, noise, upsets,
                  marks, processed>>
  BY DEF ReadyRead, link, parser, peer
<1>6. TypeOK'
  BY ONLY <1>2, <1>4, <1>5, IInv DEF IInv, TypeOK, Slots, Apart
<1> QED  BY ONLY <1>1, <1>5, <1>6 DEF IInv, Fresh

LEMMA ConnectType == ASSUME IInv, ConnectOn \/ ConnectOff \/ LinkLost PROVE IInv'
<1>1. CASE ConnectOn
  <2>1. /\ session \in 0..MaxSession /\ session < MaxSession /\ MaxSession \in Nat
        /\ upsets \in Nat /\ session' = session + 1
        /\ upsets' = IF session = 0 THEN 0 ELSE upsets + 1
    BY <1>1, FramesAssumption DEF ConnectOn, IInv, TypeOK
  <2>2. session' \in 0..MaxSession /\ upsets' \in Nat /\ session' # 0
    BY ONLY <2>1
  <2>3. conn' = "open"
        /\ UNCHANGED <<alive, wire, buffer, stack, unpackingStatus, rx_body_len, noise,
                       marks, processed>>
    BY <1>1 DEF ConnectOn, parser
  <2>4. TypeOK'
    BY ONLY <2>2, <2>3, IInv DEF IInv, TypeOK
  <2> QED  BY ONLY <2>2, <2>4 DEF IInv, Fresh
<1>2. CASE ConnectOff \/ LinkLost
  <2>1. session # 0
    BY <1>2 DEF ConnectOff, LinkLost, IInv, Fresh
  <2>2. << >> \in Seq(Byte)
    OBVIOUS
  <2>3. /\ conn' \in {"none", "lost"} /\ wire' = << >> /\ buffer' \in {buffer, << >>}
        /\ UNCHANGED <<alive, session, stack, unpackingStatus, rx_body_len, noise, upsets,
                       marks, processed>>
    BY <1>2 DEF ConnectOff, LinkLost, parser, peer
  <2>4. TypeOK'
    BY ONLY <2>2, <2>3, IInv DEF IInv, TypeOK
  <2> QED  BY ONLY <2>1, <2>3, <2>4 DEF IInv, Fresh
<1> QED  BY ONLY <1>1, <1>2, ConnectOn \/ ConnectOff \/ LinkLost

\* What the slot drops is a part of the buffer.
LEMMA Dropped ==
    ASSUME NEW n \in Nat, TypeOK, Drop(n), n <= Len(buffer)
    PROVE  /\ buffer' \in Seq(Byte) /\ Len(buffer') = Len(buffer) - n
           /\ \A j \in 1..(Len(buffer) - n) : buffer'[j] = buffer[n + j]
<1>1. buffer \in Seq(Byte) /\ n \in 0..Len(buffer) /\ buffer' = SubSeq(buffer, n + 1, Len(buffer))
  BY DEF TypeOK, Drop
<1> QED  BY ONLY <1>1, DropProperties

LEMMA PrefixType == ASSUME IInv, WaitingPrefix1 \/ WaitingPrefix2 \/ WaitingHeader PROVE IInv'
<1>1. session # 0 /\ TypeOK /\ buffer \in Seq(Byte) /\ buffer # << >>
  BY DEF IInv, Fresh, TypeOK, WaitingPrefix1, WaitingPrefix2, WaitingHeader, Unpacking, Looping
<1>2. /\ UNCHANGED <<alive, conn, session, wire, stack, noise, upsets, marks, processed>>
      /\ unpackingStatus' \in {"prefix1", "prefix2", "header", "body"}
  BY DEF WaitingPrefix1, WaitingPrefix2, WaitingHeader, Goto, Read, link, peer
<1>3. buffer' \in Seq(Byte) /\ rx_body_len' \in Nat
  <2>1. CASE WaitingPrefix1 \/ WaitingPrefix2
    <3>1. Drop(1) /\ rx_body_len' = rx_body_len
      BY <2>1 DEF WaitingPrefix1, WaitingPrefix2
    <3>2. 1 \in Nat /\ 1 <= Len(buffer)
      BY <1>1
    <3>3. buffer' \in Seq(Byte)
      BY ONLY <1>1, <3>1, <3>2, Dropped
    <3> QED  BY ONLY <1>1, <3>1, <3>3 DEF TypeOK
  <2>2. CASE WaitingHeader
    <3>1. Drop(6) /\ 6 <= Len(buffer) /\ 6 \in Nat
      BY <2>2 DEF WaitingHeader
    <3>2. buffer' \in Seq(Byte)
      BY ONLY <1>1, <3>1, Dropped
    <3>3. \A j \in 1..4 : buffer[j] \in Nat
      <4>1. PICK n \in Nat : n = Len(buffer)
        BY <1>1
      <4>2. \A j \in 1..4 : j \in 1..n
        BY ONLY <3>1, <4>1
      <4>3. \A j \in 1..n : buffer[j] \in Byte
        BY ONLY <1>1, <4>1
      <4>4. \A b \in Byte : b \in Nat
        BY DEF Byte
      <4> QED  BY ONLY <4>2, <4>3, <4>4
    <3>4. buffer[1] + 256 * (buffer[2] + 256 * (buffer[3] + 256 * buffer[4])) \in Nat
      BY ONLY <3>3
    <3>5. rx_body_len' \in Nat
      BY ONLY <2>2, <3>4 DEF WaitingHeader
    <3> QED  BY ONLY <3>2, <3>5
  <2> QED  BY ONLY <2>1, <2>2, WaitingPrefix1 \/ WaitingPrefix2 \/ WaitingHeader
<1>4. TypeOK'
  BY ONLY <1>1, <1>2, <1>3 DEF TypeOK
<1> QED  BY ONLY <1>1, <1>2, <1>4 DEF IInv, Fresh

LEMMA BodyType == ASSUME IInv, Dispatch \/ Refuse PROVE IInv'
<1>1. session # 0 /\ TypeOK /\ stack # << >>
  BY DEF IInv, Fresh, Dispatch, Refuse, Unpacking, Looping
<1>2. PICK n \in Nat : n = rx_body_len + 3
  BY <1>1 DEF TypeOK
<1>3. n <= Len(buffer) /\ Drop(n) /\ UNCHANGED <<alive, conn, session, wire, rx_body_len, noise,
                                                 upsets, marks>>
  BY <1>2 DEF Dispatch, Refuse, Read, link, peer
<1>4. buffer' \in Seq(Byte)
  BY ONLY <1>1, <1>3, Dropped
<1>5. CASE Refuse
  <2>1. UNCHANGED <<stack, processed>> /\ unpackingStatus' = "prefix1"
    BY <1>5 DEF Refuse, Goto
  <2>2. TypeOK'
    BY ONLY <1>1, <1>3, <1>4, <2>1 DEF TypeOK
  <2> QED  BY ONLY <1>1, <1>3, <2>2 DEF IInv, Fresh
<1>6. CASE Dispatch
  <2>1. Body \in Seq(Byte) /\ Len(Body) = n
    <3>1. n \in 0..Len(buffer) /\ Body = SubSeq(buffer, 1, n) /\ buffer \in Seq(Byte)
      BY <1>1, <1>2, <1>3 DEF TypeOK, Body
    <3> QED  BY ONLY <3>1, TakeProperties
  <2>2. PICK m : /\ m = [type |-> SubSeq(Body, 1, 2), msg |-> SubSeq(Body, 3, rx_body_len)]
                 /\ processed' = Append(processed, m)
                 /\ IF m.type = AT THEN Replace("handler") /\ UNCHANGED unpackingStatus
                    ELSE Goto("prefix1") /\ UNCHANGED stack
    BY <1>6 DEF Dispatch
  <2>3. m \in Message
    <3>1. PICK b \in Seq(Byte) : b = Body /\ Len(b) = n
      BY <2>1
    <3>2. rx_body_len \in Nat /\ n >= 3
      BY <1>1, <1>2 DEF TypeOK
    <3>3. SubSeq(b, 1, 2) \in Seq(Byte)
      <4>1. 2 \in 0..Len(b)
        BY ONLY <3>1, <3>2, n \in Nat
      <4> QED  BY ONLY <4>1, b \in Seq(Byte), TakeProperties
    <3>4. SubSeq(b, 3, rx_body_len) \in Seq(Byte)
      <4>1. \A j \in 3..rx_body_len : b[j] \in Byte
        <5>1. \A j \in 3..rx_body_len : j \in 1..Len(b)
          BY ONLY <1>2, <3>1, <3>2, n \in Nat
        <5> QED  BY ONLY <5>1, b \in Seq(Byte)
      <4> QED  BY ONLY <3>2, <4>1, b \in Seq(Byte), SubSeqProperties
    <3> QED  BY ONLY <2>2, <3>1, <3>3, <3>4 DEF Message
  <2>4. processed' \in Seq(Message)
    BY ONLY <1>1, <2>2, <2>3, AppendType DEF TypeOK
  <2>5. stack \in Seq(Slots) /\ Apart(stack)
    BY ONLY <1>1 DEF TypeOK, Slots, Apart
  <2>6. /\ stack' \in Seq(Slots) /\ Apart(stack')
        /\ unpackingStatus' \in {"prefix1", "prefix2", "header", "body"}
    <3>1. CASE m.type = AT
      <4>1. stack' = [stack EXCEPT ![Len(stack)].pc = "handler"] /\ UNCHANGED unpackingStatus
        BY ONLY <2>2, <3>1 DEF Replace
      <4>2. stack' \in Seq(Slots) /\ Apart(stack')
        BY ONLY <1>1, <2>5, <4>1, StackReplaced DEF Replaced
      <4> QED  BY ONLY <1>1, <4>1, <4>2 DEF TypeOK
    <3>2. CASE m.type # AT
      <4>1. stack' = stack /\ unpackingStatus' = "prefix1"
        BY ONLY <2>2, <3>2 DEF Goto
      <4> QED  BY ONLY <2>5, <4>1 DEF Apart
    <3> QED  BY ONLY <3>1, <3>2
  <2>7. TypeOK'
    BY ONLY <1>1, <1>3, <1>4, <2>4, <2>6 DEF TypeOK, Slots, Apart
  <2> QED  BY ONLY <1>1, <1>3, <2>7 DEF IInv, Fresh
<1> QED  BY ONLY <1>5, <1>6, Dispatch \/ Refuse

LEMMA ReturnType == ASSUME IInv, HandlerReturns \/ SlotEnds PROVE IInv'
<1>1. session # 0 /\ TypeOK /\ stack # << >> /\ stack \in Seq(Slots) /\ Apart(stack)
  BY DEF IInv, Fresh, TypeOK, Slots, Apart, HandlerReturns, SlotEnds, Looping
<1>2. /\ alive' \in BOOLEAN /\ upsets' \in {upsets, upsets + 1}
      /\ unpackingStatus' \in {unpackingStatus, "prefix1"}
      /\ UNCHANGED <<conn, session, wire, buffer, rx_body_len, noise, marks, processed>>
  BY <1>1 DEF HandlerReturns, SlotEnds, Undefined, Goto, TypeOK, link, parser, peer
<1>3. stack' = Front(stack) \/ stack' = [stack EXCEPT ![Len(stack)].pc = "loop"]
  BY DEF HandlerReturns, SlotEnds, Pop, Replace
<1>4. stack' \in Seq(Slots) /\ Apart(stack')
  <2>1. CASE stack' = Front(stack)
    BY ONLY <1>1, <2>1, StackPopped
  <2>2. CASE stack' = [stack EXCEPT ![Len(stack)].pc = "loop"]
    BY ONLY <1>1, <2>2, StackReplaced DEF Replaced
  <2> QED  BY ONLY <1>3, <2>1, <2>2
<1>5. TypeOK'
  BY ONLY <1>1, <1>2, <1>4 DEF TypeOK, Slots, Apart
<1> QED  BY ONLY <1>1, <1>2, <1>5 DEF IInv, Fresh

LEMMA NextIInv == ASSUME IInv, [Next]_vars PROVE IInv'
<1>1. CASE UNCHANGED vars
  BY <1>1 DEF vars, link, parser, peer, IInv, TypeOK, Fresh
<1>2. CASE Next
  <2>1. CASE RcsSends
    BY ONLY IInv, <2>1, SendType
  <2>2. CASE \E bytes \in Noises : Noise(bytes)
    BY ONLY IInv, <2>2, NoiseType
  <2>3. CASE ReadyRead
    BY ONLY IInv, <2>3, ReadType
  <2>4. CASE ConnectOn \/ ConnectOff \/ LinkLost
    BY ONLY IInv, <2>4, ConnectType
  <2>5. CASE WaitingPrefix1 \/ WaitingPrefix2 \/ WaitingHeader
    BY ONLY IInv, <2>5, PrefixType
  <2>6. CASE Dispatch \/ Refuse
    BY ONLY IInv, <2>6, BodyType
  <2>7. CASE HandlerReturns \/ SlotEnds
    BY ONLY IInv, <2>7, ReturnType
  <2> QED  BY ONLY <1>2, <2>1, <2>2, <2>3, <2>4, <2>5, <2>6, <2>7 DEF Next, Slot
<1> QED  BY ONLY <1>1, <1>2, [Next]_vars

LEMMA Invariant == Spec => []IInv
<1>1. Init => IInv
  BY InitIInv
<1>2. IInv /\ [Next]_vars => IInv'
  BY NextIInv
<1> QED  BY <1>1, <1>2, PTL DEF Spec

\* Every variable keeps its type, and no readyRead slot of a socket is entered while
\* another one of the same socket is on the stack, for any requests and noise.
THEOREM TypeCorrect == Spec => []TypeOK
<1>1. IInv => TypeOK
  BY DEF IInv
<1> QED  BY <1>1, Invariant, PTL

-----------------------------------------------------------------------------
(* While nothing disturbs the parser, what is still to be read is a part of*)
(* the frames of the requests one after another, and the parser is where in*)
(* a frame its state says.                                                 *)

\* The frames of the first k requests.
Sent[k \in 0..Len(Requests)] == IF k = 0 THEN << >> ELSE Sent[k - 1] \o Frames[k]
All == Sent[Len(Requests)]
At(k) == Len(Sent[k])

IsSent(f) == f = [k \in 0..Len(Requests) |-> IF k = 0 THEN << >> ELSE f[k - 1] \o Frames[k]]

LEMMA SentFrames ==
    /\ \A k \in 0..Len(Requests) : Sent[k] \in Seq(Byte)
    /\ Sent[0] = << >>
    /\ \A k \in 1..Len(Requests) : Sent[k] = Join(Sent[k - 1], Frames[k])
<1> DEFINE N == Len(Requests)
           D == [n \in Nat |-> [s \in Seq(Byte) |-> IF n \in 1..N THEN Join(s, Frames[n]) ELSE s]]
<1>1. N \in Nat
  BY RequestAssumption
<1> HIDE DEF N
<1>2. \A s \in Seq(Byte) : \A n \in 1..N : Join(s, Frames[n]) \in Seq(Byte)
  BY FrameType, ConcatProperties DEF N, Join
<1>3. D \in [Nat -> [Seq(Byte) -> Seq(Byte)]]
  BY ONLY <1>2
<1>4. \A n \in 1..N : n \in Nat /\ \A s \in Seq(Byte) : D[n][s] = Join(s, Frames[n])
  <2>1. ASSUME NEW n \in 1..N, NEW s \in Seq(Byte) PROVE n \in Nat /\ D[n][s] = Join(s, Frames[n])
    BY <1>1
  <2>2. \A n \in 1..N : n \in Nat
    BY <1>1
  <2> HIDE DEF D
  <2> QED  BY ONLY <2>1, <2>2
<1> HIDE DEF D
<1>5. PICK f : IsRun(f, N, Seq(Byte), << >>, D)
  <2>1. << >> \in Seq(Byte)
    OBVIOUS
  <2> QED  BY ONLY <1>1, <1>3, <2>1, RunExists
<1>6. /\ f \in [0..N -> Seq(Byte)] /\ f[0] = << >>
      /\ \A n \in 1..N : n - 1 \in 0..N /\ f[n] = Join(f[n - 1], Frames[n])
  <2>1. \A n \in 1..N : n - 1 \in 0..N
    BY <1>1
  <2> QED  BY ONLY <1>4, <1>5, <2>1 DEF IsRun
<1>7. IsSent(f)
  <2>1. f = [n \in 0..N |-> f[n]]
    BY <1>6
  <2>2. \A n \in 0..N : f[n] = IF n = 0 THEN << >> ELSE f[n - 1] \o Frames[n]
    BY ONLY <1>1, <1>6 DEF Join
  <2> QED  BY ONLY <2>1, <2>2 DEF IsSent, N
<1> DEFINE t == CHOOSE g : IsSent(g)
<1>8. IsSent(t)
  BY ONLY <1>7, Zenon
<1>9. Sent = t
  BY Zenon DEF Sent, IsSent
<1> HIDE DEF t
<1>10. IsSent(Sent)
  BY ONLY <1>8, <1>9
<1>11. Sent[0] = << >> /\ \A k \in 1..N : Sent[k] = Join(Sent[k - 1], Frames[k])
  <2>1. \A g : IsSent(g) => \A k \in 0..N : g[k] = IF k = 0 THEN << >> ELSE g[k - 1] \o Frames[k]
    BY ONLY TRUE DEF IsSent, N
  <2>2. \A k \in 0..N : Sent[k] = IF k = 0 THEN << >> ELSE Join(Sent[k - 1], Frames[k])
    BY ONLY <1>10, <2>1 DEF Join
  <2>3. 0 \in 0..N /\ \A k \in 1..N : k \in 0..N /\ k # 0
    BY ONLY <1>1
  <2> QED  BY ONLY <2>2, <2>3
<1> DEFINE S == {n \in Nat : n <= N => Sent[n] \in Seq(Byte)}
<1>12. 0 \in S
  <2>1. << >> \in Seq(Byte)
    OBVIOUS
  <2> QED  BY ONLY <1>11, <2>1
<1>13. ASSUME NEW n \in Nat, n \in S PROVE n + 1 \in S
  <2>1. CASE n + 1 <= N
    <3>1. n + 1 \in 1..N /\ (n + 1) - 1 = n /\ Sent[n] \in Seq(Byte)
      BY <1>1, <1>13, <2>1
    <3>2. Sent[n + 1] = Join(Sent[n], Frames[n + 1])
      BY ONLY <1>11, <3>1
    <3>3. Sent[n + 1] \in Seq(Byte)
      BY ONLY <1>2, <3>1, <3>2
    <3> QED  BY <3>3
  <2> QED  BY <2>1
<1>14. Nat \subseteq S
  <2> HIDE DEF S
  <2> QED  BY <1>12, <1>13, SetInduction
<1>15. \A k \in 0..N : Sent[k] \in Seq(Byte)
  BY <1>1, <1>14
<1> QED  BY ONLY <1>11, <1>15 DEF N

\* The frames of the first requests are a beginning of those of more requests.
LEMMA SentGrows ==
    \A k, n \in 0..Len(Requests) : k <= n =>
        /\ At(k) \in Nat /\ At(n) \in Nat /\ At(k) <= At(n)
        /\ \A i \in 1..At(k) : Sent[n][i] = Sent[k][i]
<1> DEFINE N == Len(Requests)
           Begins(k, n) == /\ At(k) \in Nat /\ At(n) \in Nat /\ At(k) <= At(n)
                           /\ \A i \in 1..At(k) : Sent[n][i] = Sent[k][i]
           S == {n \in Nat : n <= N => \A k \in 0..n : Begins(k, n)}
<1>1. N \in Nat
  BY RequestAssumption
<1>2. \A k \in 0..N : Sent[k] \in Seq(Byte) /\ At(k) \in Nat
  BY SentFrames DEF At
<1> HIDE DEF N
<1>3. \A k \in 0..N : Begins(k, k)
  BY ONLY <1>2
<1>4. 0 \in S
  BY <1>1, <1>3
<1>5. ASSUME NEW n \in Nat, n \in S PROVE n + 1 \in S
  <2>1. CASE n + 1 <= N
    <3>1. n + 1 \in 1..N /\ (n + 1) - 1 = n /\ n \in 0..N /\ n + 1 \in 0..N
      BY <1>1, <2>1
    <3>2. PICK l \in Nat : l = At(n)
      BY ONLY <1>2, <3>1
    <3>3. Frames[n + 1] \in Seq(Byte)
      BY <3>1, FrameType DEF N
    <3>4. PICK d \in Nat : d = Len(Frames[n + 1])
      BY ONLY <3>3
    <3>5. Sent[n + 1] = Join(Sent[n], Frames[n + 1])
      BY <3>1, SentFrames DEF N
    <3>6. Sent[n] \in Seq(Byte)
      BY ONLY <1>2, <3>1
    <3>7. Glued(Sent[n + 1], Sent[n], Frames[n + 1], l, d)
      BY ONLY <3>2, <3>3, <3>4, <3>5, <3>6, Joined DEF At
    <3>8. At(n + 1) = l + d /\ \A i \in 1..l : Sent[n + 1][i] = Sent[n][i]
      BY ONLY <3>7 DEF Glued, At
    <3>9. ASSUME NEW k \in 0..n PROVE Begins(k, n + 1)
      <4>1. Begins(k, n) /\ k \in 0..N
        BY <1>1, <1>5, <2>1
      <4>2. PICK c \in Nat : c = At(k)
        BY ONLY <1>2, <4>1
      <4>3. c <= l /\ \A i \in 1..c : Sent[n][i] = Sent[k][i]
        BY ONLY <3>2, <4>1, <4>2
      <4>4. \A i \in 1..c : i \in 1..l
        BY ONLY <4>3, c \in Nat, l \in Nat
      <4>5. c <= l + d /\ l + d \in Nat
        BY ONLY <4>3, c \in Nat, l \in Nat, d \in Nat
      <4> QED  BY ONLY <3>8, <4>2, <4>3, <4>4, <4>5, c \in Nat
    <3>10. \A k \in 0..(n + 1) : k \in 0..n \/ k = n + 1
      BY ONLY n \in Nat
    <3>11. \A k \in 0..(n + 1) : Begins(k, n + 1)
      <4> HIDE DEF Begins
      <4> QED  BY ONLY <1>3, <3>1, <3>9, <3>10
    <3> HIDE DEF Begins
    <3> QED  BY <3>11
  <2> HIDE DEF Begins
  <2> QED  BY <2>1
<1>6. Nat \subseteq S
  <2> HIDE DEF S
  <2> QED  BY <1>4, <1>5, SetInduction
<1>7. \A k, n \in 0..N : k <= n => n \in Nat /\ n <= N /\ k \in 0..n
  BY <1>1
<1>8. \A k, n \in 0..N : k <= n => Begins(k, n)
  <2> HIDE DEF Begins
  <2> QED  BY <1>6, <1>7
<1> QED  BY ONLY <1>8 DEF N

\* The place of a frame among all the bytes.
LEMMA FrameAt ==
    ASSUME NEW k \in 1..Len(Requests)
    PROVE  /\ k - 1 \in 0..Len(Requests) /\ At(k - 1) \in Nat /\ Len(Frames[k]) \in Nat
           /\ At(k) = At(k - 1) + Len(Frames[k])
           /\ \A j \in 1..Len(Frames[k]) : All[At(k - 1) + j] = Frames[k][j]
<1>1. PICK N \in Nat : N = Len(Requests)
  BY RequestAssumption
<1>2. k - 1 \in 0..N /\ k \in 0..N /\ k <= N /\ N \in 0..N /\ k \in 1..N
  BY <1>1
<1>3. Sent[k - 1] \in Seq(Byte) /\ Sent[k] = Join(Sent[k - 1], Frames[k]) /\ Frames[k] \in Seq(Byte)
  BY ONLY <1>1, <1>2, SentFrames, FrameType
<1>4. PICK l \in Nat : l = At(k - 1)
  BY ONLY <1>3 DEF At
<1>5. PICK d \in Nat : d = Len(Frames[k])
  BY ONLY <1>3
<1>6. Glued(Sent[k], Sent[k - 1], Frames[k], l, d)
  BY ONLY <1>3, <1>4, <1>5, Joined DEF At
<1>7. At(k) = l + d /\ \A j \in 1..d : Sent[k][l + j] = Frames[k][j]
  BY ONLY <1>6 DEF Glued, At
<1>8. \A i \in 1..At(k) : All[i] = Sent[k][i]
  BY ONLY <1>1, <1>2, SentGrows DEF All
<1>9. \A j \in 1..d : l + j \in 1..(l + d)
  BY ONLY l \in Nat, d \in Nat
<1>10. \A j \in 1..d : All[l + j] = Frames[k][j]
  BY ONLY <1>7, <1>8, <1>9
<1> QED  BY ONLY <1>1, <1>2, <1>4, <1>5, <1>7, <1>10

\* The value of the length field.
LEMMA LengthValue ==
    \A n \in Nat : ((n \div 256) \div 256) \div 256 < 128 =>
        Length(n)[1] + 256 * (Length(n)[2] + 256 * (Length(n)[3] + 256 * Length(n)[4])) = n
<1> SUFFICES ASSUME NEW n \in Nat, ((n \div 256) \div 256) \div 256 < 128
             PROVE  Length(n)[1] + 256 * (Length(n)[2] + 256 * (Length(n)[3] + 256 * Length(n)[4])) = n
  OBVIOUS
<1>1. \A k \in Nat : k \div 256 \in Nat /\ k % 256 \in Nat /\ (k % 256) + 256 * (k \div 256) = k
  OBVIOUS
<1>2. PICK a \in Nat : a = n \div 256
  BY <1>1
<1>3. PICK b \in Nat : b = a \div 256
  BY <1>1
<1>4. PICK c \in Nat : c = b \div 256
  BY <1>1
<1>5. Length(n) = <<n % 256, a % 256, b % 256, c % 256>> /\ c < 128
  BY ONLY <1>2, <1>3, <1>4, ((n \div 256) \div 256) \div 256 < 128 DEF Length
<1>6. c % 256 = c
  BY ONLY <1>5, c \in Nat
<1>7. /\ Length(n)[1] = n % 256 /\ Length(n)[2] = a % 256
      /\ Length(n)[3] = b % 256 /\ Length(n)[4] = c
  BY ONLY <1>5, <1>6
<1>8. (b % 256) + 256 * c = b /\ (a % 256) + 256 * b = a /\ (n % 256) + 256 * a = n
  BY ONLY <1>1, <1>2, <1>3, <1>4, n \in Nat, a \in Nat, b \in Nat
<1> QED  BY ONLY <1>7, <1>8

\* rx is the n bytes of f after the first d.
Slice(rx, f, d, n) ==
    rx \in Seq(Byte) /\ Len(rx) = n /\ \A j \in 1..n : rx[j] = f[d + j]

\* A header that is read whole passes its checksum and holds the length of the body.
LEMMA HeaderRead ==
    \A m \in Message : \A f, rx : Laid(f, m) /\ Slice(rx, f, 2, 6) =>
        HeaderChecks(rx) /\ \A j \in 1..4 : rx[j] = Length(Len(m.msg) + 2)[j]
<1> SUFFICES ASSUME NEW m \in Message, NEW f, NEW rx, Laid(f, m), Slice(rx, f, 2, 6)
             PROVE  HeaderChecks(rx) /\ \A j \in 1..4 : rx[j] = Length(Len(m.msg) + 2)[j]
  OBVIOUS
<1>0. rx \in Seq(Byte) /\ Len(rx) = 6 /\ \A j \in 1..6 : rx[j] = f[2 + j]
  BY ONLY Slice(rx, f, 2, 6) DEF Slice
<1>1. PICK n \in Nat : n = Len(m.msg) + 2
  BY DEF Message
<1>2. PICK l : l = Length(n)
  OBVIOUS
<1>3. l \in Seq(Byte) /\ Len(l) = 4
  BY ONLY <1>2, LengthType, n \in Nat
<1>4. PICK t : t = <<2, 84>>
  OBVIOUS
<1>5. t \in Seq(Byte) /\ Len(t) = 2
  BY ONLY <1>4 DEF Byte
<1>6. PICK h : h = Join(t, l)
  OBVIOUS
<1>7. Glued(h, t, l, 2, 4) /\ h = Head6(m)
  <2>1. 2 \in Nat /\ 4 \in Nat
    OBVIOUS
  <2>2. Glued(h, t, l, 2, 4)
    BY ONLY <1>3, <1>5, <1>6, <2>1, Joined
  <2>3. h = Head6(m)
    BY ONLY <1>1, <1>2, <1>4, <1>6 DEF Head6, Join
  <2> QED  BY ONLY <2>2, <2>3
<1>8. PICK c : c = LowFirst(CalcCRC16Modbus(h))
  OBVIOUS
<1>9. c \in Seq(Byte) /\ Len(c) = 2
  <2>1. h \in Seq(Byte)
    BY ONLY <1>7 DEF Glued
  <2> QED  BY ONLY <1>8, <2>1, ChecksumBytes
<1>10. \A j \in 1..6 : f[j] = h[j]
  BY ONLY <1>7, Laid(f, m) DEF Laid
<1>11. \A j \in 1..2 : f[6 + j] = c[j]
  BY ONLY <1>7, <1>8, Laid(f, m) DEF Laid
<1>12. \A j \in 1..4 : rx[j] = l[j]
  <2>1. \A j \in 1..4 : j \in 1..6 /\ 2 + j \in 1..6
    OBVIOUS
  <2>2. \A j \in 1..4 : h[2 + j] = l[j]
    BY ONLY <1>7 DEF Glued
  <2>3. \A j \in 1..4 : rx[j] = f[2 + j]
    BY ONLY <2>1, <1>0
  <2> QED  BY ONLY <1>10, <2>1, <2>2, <2>3
<1>13. rx[5] = c[1] /\ rx[6] = c[2]
  <2>1. rx[5] = f[7] /\ rx[6] = f[8]
    BY ONLY <1>0
  <2>2. f[7] = c[1] /\ f[8] = c[2]
    BY ONLY <1>11
  <2> QED  BY ONLY <2>1, <2>2
<1>14. SubSeq(rx, 1, 4) = l
  <2>1. PICK x : x = SubSeq(rx, 1, 4)
    OBVIOUS
  <2>2. 4 \in 0..Len(rx)
    BY ONLY <1>0
  <2>3. x \in Seq(Byte) /\ Len(x) = 4 /\ \A j \in 1..4 : x[j] = rx[j]
    BY ONLY <2>1, <2>2, <1>0, TakeProperties
  <2>4. x = l
    BY ONLY <1>3, <1>12, <2>3, SeqEqual
  <2> QED  BY ONLY <2>1, <2>4
<1>15. SubSeq(rx, 5, 6) = c
  <2>1. PICK x : x = SubSeq(rx, 5, 6)
    OBVIOUS
  <2>2. \A j \in 5..6 : rx[j] \in Byte
    <3>1. \A j \in 5..6 : j \in 1..Len(rx)
      BY ONLY <1>0
    <3>2. \A j \in 1..Len(rx) : rx[j] \in Byte
      <4>1. rx \in Seq(Byte)
        BY ONLY <1>0
      <4> QED  BY ONLY <4>1
    <3> QED  BY ONLY <3>1, <3>2
  <2>3. x \in Seq(Byte) /\ Len(x) = 2 /\ x[1] = rx[5] /\ x[2] = rx[6]
    BY ONLY <2>1, <2>2, <1>0, SubSeqProperties
  <2>4. \A j \in 1..2 : x[j] = c[j]
    BY ONLY <1>13, <2>3
  <2>5. x = c
    BY ONLY <1>9, <2>3, <2>4, SeqEqual
  <2> QED  BY ONLY <2>1, <2>5
<1>16. LowFirst(CalcCRC16Modbus(<<2, 84>> \o SubSeq(rx, 1, 4))) = SubSeq(rx, 5, 6)
  <2>1. <<2, 84>> \o SubSeq(rx, 1, 4) = h
    BY ONLY <1>4, <1>6, <1>14 DEF Join
  <2> QED  BY ONLY <1>8, <1>15, <2>1
<1> QED  BY ONLY <1>1, <1>2, <1>12, <1>16 DEF HeaderChecks

\* A body of n bytes that passes its checks is taken for m.
TakenFor(rx, n, m) ==
    BodyChecks(rx) /\ m = [type |-> SubSeq(rx, 1, 2), msg |-> SubSeq(rx, 3, n)]

\* A body that is read whole passes its checks and is the one of the request.
LEMMA BodyRead ==
    \A m \in Message : \A n \in Nat : \A f, rx :
        Laid(f, m) /\ Len(m.type) = 2 /\ n = Len(m.msg) + 2 /\ Slice(rx, f, 8, n + 3) => TakenFor(rx, n, m)
<1> SUFFICES ASSUME NEW m \in Message, NEW n \in Nat, NEW f, NEW rx, Laid(f, m),
                    Len(m.type) = 2, n = Len(m.msg) + 2, Slice(rx, f, 8, n + 3)
             PROVE  TakenFor(rx, n, m)
  OBVIOUS
<1>0. rx \in Seq(Byte) /\ Len(rx) = n + 3 /\ \A j \in 1..(n + 3) : rx[j] = f[8 + j]
  BY ONLY Slice(rx, f, 8, n + 3) DEF Slice
<1>1. PICK b : b = BodyOf(m)
  OBVIOUS
<1>2. m.type \in Seq(Byte) /\ m.msg \in Seq(Byte) /\ m = [type |-> m.type, msg |-> m.msg]
  BY DEF Message
<1>3. PICK e \in Nat : e = Len(m.msg)
  BY ONLY <1>2
<1>4. b \in Seq(Byte) /\ Len(b) = n /\ Glued(b, m.type, m.msg, 2, e)
  <2>1. 2 \in Nat
    OBVIOUS
  <2>2. Glued(Join(m.type, m.msg), m.type, m.msg, 2, e)
    BY ONLY <1>2, <1>3, <2>1, Len(m.type) = 2, Joined
  <2>3. Glued(b, m.type, m.msg, 2, e)
    BY ONLY <1>1, <2>2 DEF BodyOf, Join
  <2> QED  BY ONLY <1>3, <2>3, n = Len(m.msg) + 2, n \in Nat DEF Glued
<1>5. PICK c : c = LowFirst(CalcCRC16Modbus(b))
  OBVIOUS
<1>6. c \in Seq(Byte) /\ Len(c) = 2
  BY ONLY <1>4, <1>5, ChecksumBytes
<1>7. /\ \A j \in 1..n : f[8 + j] = b[j]
      /\ \A j \in 1..2 : f[8 + n + j] = c[j]
      /\ f[n + 11] = 3
  BY ONLY <1>1, <1>4, <1>5, Laid(f, m) DEF Laid
<1>8. \A j \in 1..n : rx[j] = b[j]
  <2>1. \A j \in 1..n : j \in 1..(n + 3)
    BY ONLY n \in Nat
  <2> QED  BY ONLY <1>7, <2>1, <1>0
<1>9. rx[n + 1] = c[1] /\ rx[n + 2] = c[2] /\ rx[n + 3] = 3
  <2>1. n + 1 \in 1..(n + 3) /\ n + 2 \in 1..(n + 3) /\ n + 3 \in 1..(n + 3)
    BY ONLY n \in Nat
  <2>2. 8 + (n + 1) = 8 + n + 1 /\ 8 + (n + 2) = 8 + n + 2 /\ 8 + (n + 3) = n + 11
    BY ONLY n \in Nat
  <2>3. rx[n + 1] = f[8 + n + 1] /\ rx[n + 2] = f[8 + n + 2] /\ rx[n + 3] = f[n + 11]
    <3>1. /\ rx[n + 1] = f[8 + (n + 1)] /\ rx[n + 2] = f[8 + (n + 2)]
          /\ rx[n + 3] = f[8 + (n + 3)]
      BY ONLY <2>1, <1>0
    <3> QED  BY ONLY <2>2, <3>1
  <2>4. f[8 + n + 1] = c[1] /\ f[8 + n + 2] = c[2]
    BY ONLY <1>7
  <2> QED  BY ONLY <1>7, <2>3, <2>4
<1>10. Last(rx) = 3
  BY ONLY <1>9, <1>0 DEF Last
<1>11. SubSeq(rx, 1, Len(rx) - 3) = b
  <2>1. Len(rx) - 3 = n /\ n \in 0..Len(rx)
    BY ONLY <1>0, n \in Nat
  <2>2. PICK x : x = SubSeq(rx, 1, n)
    OBVIOUS
  <2>3. x \in Seq(Byte) /\ Len(x) = n /\ \A j \in 1..n : x[j] = rx[j]
    BY ONLY <2>1, <2>2, <1>0, TakeProperties
  <2>4. x = b
    BY ONLY <1>4, <1>8, <2>3, SeqEqual
  <2> QED  BY ONLY <2>1, <2>2, <2>4
<1>12. SubSeq(rx, Len(rx) - 2, Len(rx) - 1) = c
  <2>1. Len(rx) - 2 = n + 1 /\ Len(rx) - 1 = n + 2
    BY ONLY <1>0, n \in Nat
  <2>2. PICK x : x = SubSeq(rx, n + 1, n + 2)
    OBVIOUS
  <2>3. n + 1 \in 1..(Len(rx) + 1) /\ n + 2 \in 0..Len(rx) /\ (n + 2) - (n + 1) + 1 = 2
        /\ n + 1 \in Nat /\ n + 2 \in Nat /\ n + 1 <= n + 2
        /\ n + 1 + 1 - 1 = n + 1 /\ n + 1 + 2 - 1 = n + 2
    BY ONLY <1>0, n \in Nat
  <2>4. \A j \in (n + 1)..(n + 2) : rx[j] \in Byte
    <3>1. \A j \in (n + 1)..(n + 2) : j \in 1..Len(rx)
      BY ONLY <1>0, n \in Nat
    <3> QED  BY ONLY <3>1, <1>0
  <2>5. x \in Seq(Byte) /\ Len(x) = 2 /\ x[1] = rx[n + 1] /\ x[2] = rx[n + 2]
    BY ONLY <2>2, <2>3, <2>4, <1>0, SubSeqProperties
  <2>6. \A j \in 1..2 : x[j] = c[j]
    BY ONLY <1>9, <2>5
  <2>7. x = c
    BY ONLY <1>6, <2>5, <2>6, SeqEqual
  <2> QED  BY ONLY <2>1, <2>2, <2>7
<1>13. BodyChecks(rx)
  BY ONLY <1>5, <1>10, <1>11, <1>12 DEF BodyChecks
<1>14. SubSeq(rx, 1, 2) = m.type
  <2>1. PICK x : x = SubSeq(rx, 1, 2)
    OBVIOUS
  <2>2. 2 \in 0..Len(rx) /\ \A j \in 1..2 : j \in 1..n
    BY ONLY <1>0, n \in Nat, n = Len(m.msg) + 2, <1>3
  <2>3. x \in Seq(Byte) /\ Len(x) = 2 /\ \A j \in 1..2 : x[j] = rx[j]
    BY ONLY <2>1, <2>2, <1>0, TakeProperties
  <2>4. \A j \in 1..2 : b[j] = m.type[j]
    BY ONLY <1>4 DEF Glued
  <2>5. \A j \in 1..2 : x[j] = m.type[j]
    BY ONLY <1>8, <2>2, <2>3, <2>4
  <2>6. x = m.type
    BY ONLY <1>2, <2>3, <2>5, Len(m.type) = 2, SeqEqual
  <2> QED  BY ONLY <2>1, <2>6
<1>15. SubSeq(rx, 3, n) = m.msg
  <2>1. PICK x : x = SubSeq(rx, 3, n)
    OBVIOUS
  <2>2. n = e + 2 /\ n - 3 + 1 = e
    BY ONLY <1>3, n = Len(m.msg) + 2, n \in Nat
  <2>3. \A j \in 3..n : rx[j] \in Byte
    <3>1. \A j \in 3..n : j \in 1..Len(rx)
      BY ONLY <1>0, n \in Nat
    <3> QED  BY ONLY <3>1, <1>0
  <2>4. /\ x \in Seq(Byte) /\ Len(x) = (IF 3 <= n THEN n - 3 + 1 ELSE 0)
        /\ \A j \in 1..(n - 3 + 1) : x[j] = rx[3 + j - 1]
    BY ONLY <2>1, <2>3, <1>0, n \in Nat, SubSeqProperties
  <2>5. Len(x) = e
    BY ONLY <2>2, <2>4, e \in Nat
  <2>6. ASSUME NEW j \in 1..e PROVE x[j] = m.msg[j]
    <3>1. 3 + j - 1 = 2 + j /\ 2 + j \in 1..n /\ j \in 1..(n - 3 + 1)
      BY ONLY <2>2, e \in Nat, j \in 1..e
    <3>2. x[j] = rx[2 + j]
      BY ONLY <2>4, <3>1
    <3>3. rx[2 + j] = b[2 + j]
      BY ONLY <1>8, <3>1
    <3>4. b[2 + j] = m.msg[j]
      BY ONLY <1>4, j \in 1..e DEF Glued
    <3> QED  BY ONLY <3>2, <3>3, <3>4
  <2>7. x = m.msg
    BY ONLY <1>2, <1>3, <2>4, <2>5, <2>6, SeqEqual
  <2> QED  BY ONLY <2>1, <2>7
<1> QED  BY ONLY <1>2, <1>13, <1>14, <1>15 DEF TakenFor

Stream == buffer \o wire
Waits  == stack # << >> /\ Top.pc = "handler"

\* How many bytes of the next frame the slot has read.
Consumed ==
    IF Waits THEN 0
    ELSE CASE unpackingStatus = "prefix1" -> 0
           [] unpackingStatus = "prefix2" -> 1
           [] unpackingStatus = "header"  -> 2
           [] unpackingStatus = "body"    -> 8

Position == At(Len(processed)) + Consumed

\* s is what follows the first pos bytes of all frames, and ends before the one of m + 1.
Reads(s, pos, m) ==
    /\ pos + Len(s) <= At(m)
    /\ \A i \in 1..Len(s) : s[i] = All[pos + i]

OneConnection ==
    /\ session <= 1
    /\ \A k \in 1..Len(marks) : marks[k].sess = session
    /\ \A k \in 1..Len(stack) : stack[k].sess = session

Ordered ==
    /\ Len(processed) <= Len(marks) /\ Len(marks) <= Len(Requests)
    /\ \A k \in 1..Len(processed) : processed[k] = Requests[k]

\* The request whose frame the slot is in.
Reading == Requests[Len(processed) + 1]
InBody ==
    ~Waits /\ unpackingStatus = "body" =>
        Len(processed) < Len(marks) /\ rx_body_len = Len(Reading.msg) + 2

Framed ==
    /\ Reads(Stream, Position, Len(marks))
    /\ conn = "open" => Position + Len(Stream) = At(Len(marks))

InStep == OneConnection /\ Ordered /\ InBody /\ Framed

LEMMA Sizes ==
    ASSUME IInv, Ordered
    PROVE  /\ Len(processed) \in Nat /\ Len(marks) \in Nat /\ Len(Requests) \in Nat
           /\ Len(processed) \in 0..Len(Requests) /\ Len(marks) \in 0..Len(Requests)
           /\ buffer \in Seq(Byte) /\ wire \in Seq(Byte) /\ Stream \in Seq(Byte)
           /\ Len(buffer) \in Nat /\ Len(wire) \in Nat /\ Len(Stream) = Len(buffer) + Len(wire)
           /\ \A j \in 1..Len(buffer) : Stream[j] = buffer[j]
           /\ Consumed \in {0, 1, 2, 8} /\ Position \in Nat
           /\ At(Len(processed)) \in Nat /\ At(Len(marks)) \in Nat
<1>1. Len(processed) \in Nat /\ Len(marks) \in Nat /\ Len(Requests) \in Nat
  BY RequestAssumption DEF IInv, TypeOK
<1>2. Len(processed) \in 0..Len(Requests) /\ Len(marks) \in 0..Len(Requests)
  BY ONLY <1>1, Ordered DEF Ordered
<1>3. buffer \in Seq(Byte) /\ wire \in Seq(Byte)
  BY DEF IInv, TypeOK
<1>4. /\ Stream \in Seq(Byte) /\ Len(Stream) = Len(buffer) + Len(wire)
      /\ \A j \in 1..Len(buffer) : Stream[j] = buffer[j]
  BY ONLY <1>3, ConcatProperties DEF Stream
<1>5. Len(buffer) \in Nat /\ Len(wire) \in Nat
  BY ONLY <1>3
<1>6. Consumed \in {0, 1, 2, 8}
  BY DEF IInv, TypeOK, Consumed
<1>7. At(Len(processed)) \in Nat /\ At(Len(marks)) \in Nat
  BY ONLY <1>2, SentFrames DEF At
<1>8. Position \in Nat
  BY ONLY <1>6, <1>7 DEF Position
<1> QED  BY ONLY <1>1, <1>2, <1>3, <1>4, <1>5, <1>6, <1>7, <1>8

LEMMA ReadsDrop ==
    \A s \in Seq(Byte) : \A pos, n \in Nat : \A m :
        Reads(s, pos, m) /\ n <= Len(s) =>
            /\ Reads(SubSeq(s, n + 1, Len(s)), pos + n, m)
            /\ (pos + n) + Len(SubSeq(s, n + 1, Len(s))) = pos + Len(s)
<1> SUFFICES ASSUME NEW s \in Seq(Byte), NEW pos \in Nat, NEW n \in Nat, NEW m,
                    Reads(s, pos, m), n <= Len(s)
             PROVE  /\ Reads(SubSeq(s, n + 1, Len(s)), pos + n, m)
                    /\ (pos + n) + Len(SubSeq(s, n + 1, Len(s))) = pos + Len(s)
  OBVIOUS
<1>0. PICK t : t = SubSeq(s, n + 1, Len(s))
  OBVIOUS
<1>1. PICK l \in Nat : l = Len(s)
  OBVIOUS
<1>2. n \in 0..Len(s)
  BY ONLY <1>1, n \in Nat, n <= Len(s)
<1>3. Len(t) = l - n /\ \A j \in 1..(l - n) : t[j] = s[n + j]
  BY ONLY <1>0, <1>1, <1>2, s \in Seq(Byte), DropProperties
<1>4. (pos + n) + (l - n) = pos + l
  BY ONLY l \in Nat, n \in Nat, pos \in Nat
<1>5. pos + l <= At(m) /\ \A i \in 1..l : s[i] = All[pos + i]
  BY ONLY <1>1, Reads(s, pos, m) DEF Reads
<1>6. \A j \in 1..(l - n) : n + j \in 1..l /\ pos + (n + j) = (pos + n) + j
  BY ONLY l \in Nat, n \in Nat, pos \in Nat
<1>7. ASSUME NEW j \in 1..(l - n) PROVE t[j] = All[(pos + n) + j]
  <2>1. t[j] = s[n + j]
    BY ONLY <1>3, j \in 1..(l - n)
  <2>2. s[n + j] = All[pos + (n + j)]
    BY ONLY <1>5, <1>6, j \in 1..(l - n)
  <2> QED  BY ONLY <1>6, <2>1, <2>2, j \in 1..(l - n)
<1>8. Reads(t, pos + n, m)
  BY ONLY <1>1, <1>3, <1>4, <1>5, <1>7 DEF Reads
<1>9. (pos + n) + Len(t) = pos + Len(s)
  BY ONLY <1>1, <1>3, <1>4
<1> QED  BY ONLY <1>0, <1>8, <1>9

LEMMA ReadsTake ==
    \A s, t \in Seq(Byte) : \A pos \in Nat : \A m \in 0..Len(Requests) :
        (Reads(s, pos, m) /\ Len(t) <= Len(s) /\ \A j \in 1..Len(t) : t[j] = s[j])
            => Reads(t, pos, m)
<1> SUFFICES ASSUME NEW s \in Seq(Byte), NEW t \in Seq(Byte), NEW pos \in Nat,
                    NEW m \in 0..Len(Requests), Reads(s, pos, m), Len(t) <= Len(s),
                    \A j \in 1..Len(t) : t[j] = s[j]
             PROVE  Reads(t, pos, m)
  OBVIOUS
<1>1. PICK l \in Nat : l = Len(s)
  OBVIOUS
<1>2. PICK n \in Nat : n = Len(t)
  OBVIOUS
<1>3. PICK a \in Nat : a = At(m)
  BY SentFrames DEF At
<1>4. n <= l /\ pos + l <= a /\ \A i \in 1..l : s[i] = All[pos + i]
  BY ONLY <1>1, <1>2, <1>3, Reads(s, pos, m), Len(t) <= Len(s) DEF Reads
<1>5. pos + n <= a /\ \A i \in 1..n : i \in 1..l
  BY ONLY <1>4, n \in Nat, l \in Nat, pos \in Nat, a \in Nat
<1>6. \A i \in 1..n : t[i] = s[i]
  BY ONLY <1>2, \A j \in 1..Len(t) : t[j] = s[j]
<1>7. \A i \in 1..n : t[i] = All[pos + i]
  BY ONLY <1>4, <1>5, <1>6
<1> QED  BY ONLY <1>2, <1>3, <1>5, <1>7 DEF Reads

LEMMA ReadsSend ==
    \A s \in Seq(Byte) : \A pos \in Nat : \A k \in 1..Len(Requests) :
        Reads(s, pos, k - 1) /\ pos + Len(s) = At(k - 1) =>
            /\ Reads(Join(s, Frames[k]), pos, k)
            /\ pos + Len(Join(s, Frames[k])) = At(k)
<1> SUFFICES ASSUME NEW s \in Seq(Byte), NEW pos \in Nat, NEW k \in 1..Len(Requests),
                    Reads(s, pos, k - 1), pos + Len(s) = At(k - 1), NEW t, t = Join(s, Frames[k])
             PROVE  Reads(t, pos, k) /\ pos + Len(t) = At(k)
  OBVIOUS
<1>1. PICK l \in Nat : l = Len(s)
  OBVIOUS
<1>2. Frames[k] \in Seq(Byte)
  BY FrameType
<1>3. PICK d \in Nat : d = Len(Frames[k])
  BY ONLY <1>2
<1>4. PICK a \in Nat : a = At(k - 1)
  BY FrameAt
<1>5. At(k) = a + d /\ \A j \in 1..d : All[a + j] = Frames[k][j]
  BY ONLY <1>3, <1>4, k \in 1..Len(Requests), FrameAt
<1>6. Glued(t, s, Frames[k], l, d)
  BY ONLY <1>1, <1>2, <1>3, s \in Seq(Byte), t = Join(s, Frames[k]), Joined
<1>7. /\ Len(t) = l + d /\ \A i \in 1..l : t[i] = s[i]
      /\ \A j \in 1..d : t[l + j] = Frames[k][j]
  BY ONLY <1>6 DEF Glued
<1>8. pos + l = a /\ \A i \in 1..l : s[i] = All[pos + i]
  BY ONLY <1>1, <1>4, Reads(s, pos, k - 1), pos + Len(s) = At(k - 1) DEF Reads
<1>9. pos + (l + d) = a + d
  BY ONLY <1>8, pos \in Nat, l \in Nat, d \in Nat
<1>10. ASSUME NEW i \in 1..(l + d) PROVE t[i] = All[pos + i]
  <2>1. CASE i <= l
    <3>1. i \in 1..l
      BY ONLY <2>1, i \in 1..(l + d), l \in Nat, d \in Nat
    <3> QED  BY ONLY <1>7, <1>8, <3>1
  <2>2. CASE ~(i <= l)
    <3>1. PICK j \in 1..d : i = l + j
      <4>1. i - l \in 1..d /\ i = l + (i - l)
        BY ONLY <2>2, i \in 1..(l + d), l \in Nat, d \in Nat
      <4> QED  BY ONLY <4>1
    <3>2. pos + i = a + j
      BY ONLY <1>8, <3>1, pos \in Nat, l \in Nat, d \in Nat, j \in 1..d
    <3> QED  BY ONLY <1>5, <1>7, <3>1, <3>2, j \in 1..d
  <2> QED  BY ONLY <2>1, <2>2
<1>11. a + d <= At(k)
  BY ONLY <1>5, a \in Nat, d \in Nat
<1> QED  BY ONLY <1>5, <1>7, <1>9, <1>10, <1>11 DEF Reads

\* What the slot reads next is the rest of the frame it is in.
LEMMA NextBytes ==
    ASSUME IInv, InStep, buffer # << >>
    PROVE  /\ Len(processed) < Len(marks) /\ Len(processed) + 1 \in 1..Len(Requests)
           /\ \A i \in 1..Len(buffer) :
                 Consumed + i <= Len(Frames[Len(processed) + 1])
                     => buffer[i] = Frames[Len(processed) + 1][Consumed + i]
<1>1. PICK p \in Nat : p = Len(processed)
  BY Sizes DEF InStep
<1>2. PICK m \in Nat : m = Len(marks)
  BY Sizes DEF InStep
<1>3. PICK c \in Nat : c = Consumed
  BY Sizes DEF InStep
<1>4. PICK a \in Nat : a = At(p)
  BY <1>1, Sizes DEF InStep
<1>5. PICK l \in Nat : l = Len(buffer)
  BY Sizes DEF InStep
<1>6. PICK n \in Nat : n = Len(Stream)
  BY Sizes DEF InStep
<1>7. PICK N \in Nat : N = Len(Requests)
  BY Sizes DEF InStep
<1>8. /\ p <= m /\ m <= N /\ l <= n /\ l >= 1
      /\ \A j \in 1..l : Stream[j] = buffer[j]
  <2>1. l <= n /\ \A j \in 1..l : Stream[j] = buffer[j]
    BY <1>5, <1>6, Sizes DEF InStep
  <2>2. l >= 1
    BY ONLY <1>5, buffer # << >>, IInv DEF IInv, TypeOK
  <2>3. p <= m /\ m <= N
    BY <1>1, <1>2, <1>7 DEF InStep, Ordered
  <2> QED  BY ONLY <2>1, <2>2, <2>3
<1>9. /\ (a + c) + n <= At(m)
      /\ \A i \in 1..n : Stream[i] = All[(a + c) + i]
  BY ONLY <1>1, <1>2, <1>3, <1>4, <1>6, InStep DEF InStep, Framed, Reads, Position
<1>10. p < m
  <2>1. ASSUME p = m PROVE FALSE
    <3>1. (a + c) + n <= a
      BY ONLY <1>4, <1>9, <2>1
    <3> QED  BY ONLY <1>8, <3>1, a \in Nat, c \in Nat, n \in Nat, l \in Nat
  <2>2. p <= m
    BY ONLY <1>8
  <2> QED  BY ONLY <2>1, <2>2, p \in Nat, m \in Nat
<1>11. p + 1 \in 1..N /\ (p + 1) - 1 = p
  BY ONLY <1>8, <1>10, p \in Nat, m \in Nat, N \in Nat
<1>12. \A j \in 1..Len(Frames[p + 1]) : All[a + j] = Frames[p + 1][j]
  BY ONLY <1>4, <1>7, <1>11, FrameAt
<1>13. Len(Frames[p + 1]) \in Nat
  BY ONLY <1>7, <1>11, FrameAt
<1>14. ASSUME NEW i \in 1..l, c + i <= Len(Frames[p + 1])
       PROVE  buffer[i] = Frames[p + 1][c + i]
  <2>1. i \in 1..n /\ (a + c) + i = a + (c + i)
    BY ONLY <1>8, i \in 1..l, l \in Nat, n \in Nat, a \in Nat, c \in Nat
  <2>2. c + i \in 1..Len(Frames[p + 1])
    BY ONLY <1>13, <1>14, i \in 1..l, l \in Nat, c \in Nat
  <2>3. buffer[i] = Stream[i] /\ Stream[i] = All[a + (c + i)]
    BY ONLY <1>8, <1>9, <2>1, i \in 1..l
  <2> QED  BY ONLY <1>12, <2>2, <2>3
<1> QED  BY ONLY <1>1, <1>2, <1>3, <1>5, <1>7, <1>10, <1>11, <1>14

\* Dropping n bytes moves the position by n.
LEMMA Advanced ==
    ASSUME IInv, InStep, NEW n \in Nat, n <= Len(buffer), Drop(n), wire' = wire,
           marks' = marks, conn' = conn, Position' = Position + n
    PROVE  Framed'
<1>1. n \in 0..Len(buffer) /\ buffer \in Seq(Byte) /\ wire \in Seq(Byte)
  BY Sizes DEF InStep
<1>2. Stream' = SubSeq(Stream, n + 1, Len(Stream))
  <2>1. Stream' = SubSeq(buffer, n + 1, Len(buffer)) \o wire
    BY ONLY Drop(n), wire' = wire DEF Stream, Drop
  <2> QED  BY ONLY <1>1, <2>1, DropStream DEF Stream
<1>3. n <= Len(Stream) /\ Stream \in Seq(Byte) /\ Position \in Nat
  BY Sizes DEF InStep
<1>4. Reads(Stream, Position, Len(marks))
      /\ (conn = "open" => Position + Len(Stream) = At(Len(marks)))
  BY ONLY InStep DEF InStep, Framed
<1>5. /\ Reads(Stream', Position + n, Len(marks))
      /\ (Position + n) + Len(Stream') = Position + Len(Stream)
  BY ONLY <1>2, <1>3, <1>4, n \in Nat, ReadsDrop
<1>6. Len(marks)' = Len(marks) /\ At(Len(marks))' = At(Len(marks))
  BY ONLY marks' = marks DEF At
<1> QED  BY ONLY <1>4, <1>5, <1>6, conn' = conn, Position' = Position + n DEF Framed, Reads, At

\* There is at most one slot on the stack.
LEMMA OneSlot ==
    ASSUME IInv, OneConnection, stack # << >>
    PROVE  Len(stack) = 1 /\ session = 1 /\ stack[1].sess = session
<1>1. stack \in Seq(Slots) /\ Apart(stack) /\ session \in Nat /\ session # 0
  BY FramesAssumption DEF IInv, TypeOK, Fresh, Slots, Apart
<1>2. PICK n \in Nat : n = Len(stack)
  BY ONLY <1>1
<1>3. n >= 1
  BY ONLY <1>1, <1>2, stack # << >>
<1>4. n < 2
  <2>1. ASSUME n >= 2 PROVE FALSE
    <3>1. 1 \in 1..n /\ 2 \in 1..n
      BY ONLY <2>1, n \in Nat
    <3>2. stack[1].sess = stack[2].sess
      BY ONLY <1>2, <3>1, OneConnection DEF OneConnection
    <3>3. 1 = 2
      BY ONLY <1>1, <1>2, <3>1, <3>2 DEF Apart
    <3> QED  BY ONLY <3>3
  <2> QED  BY ONLY <2>1, n \in Nat
<1>5. n = 1 /\ 1 \in 1..n
  BY ONLY <1>3, <1>4, n \in Nat
<1>6. session <= 1 /\ stack[1].sess = session
  BY ONLY <1>2, <1>5, OneConnection DEF OneConnection
<1> QED  BY ONLY <1>1, <1>2, <1>5, <1>6

LEMMA SendStep == ASSUME IInv, InStep, RcsSends PROVE InStep'
<1>1. PICK m \in Nat : m = Len(marks)
  BY Sizes DEF InStep
<1>2. PICK e : e = [sess |-> session, upsets |-> upsets, since |-> Since]
  OBVIOUS
<1>3. /\ conn = "open" /\ m < Len(Requests) /\ wire' = wire \o Frames[m + 1]
      /\ marks' = Append(marks, e)
      /\ UNCHANGED <<conn, session, buffer, stack, unpackingStatus, rx_body_len, processed>>
  BY <1>1, <1>2 DEF RcsSends, link, parser
<1>4. Len(marks') = m + 1 /\ marks'[m + 1] = e /\ \A k \in 1..m : marks'[k] = marks[k]
  <2>1. marks \in Seq(Marks)
    BY DEF IInv, TypeOK, Marks
  <2> QED  BY ONLY <1>1, <1>3, <2>1
<1>5. m + 1 \in 1..Len(Requests) /\ (m + 1) - 1 = m /\ Len(Requests) \in Nat
  <2>1. Len(Requests) \in Nat
    BY RequestAssumption
  <2>2. m < Len(Requests)
    BY ONLY <1>3
  <2> QED  BY ONLY <2>1, <2>2, m \in Nat
<1>6. OneConnection'
  <2>1. \A k \in 1..(m + 1) : k \in 1..m \/ k = m + 1
    BY ONLY m \in Nat
  <2>2. e.sess = session
    BY ONLY <1>2
  <2>3. OneConnection
    BY DEF InStep
  <2>4. \A k \in 1..(m + 1) : marks'[k].sess = session
    BY ONLY <1>1, <1>4, <2>1, <2>2, <2>3 DEF OneConnection
  <2> QED  BY ONLY <1>3, <1>4, <2>3, <2>4 DEF OneConnection
<1>7. PICK p \in Nat : p = Len(processed)
  BY Sizes DEF InStep
<1>8. Ordered'
  <2>1. Ordered /\ p <= m /\ p <= m + 1 /\ m + 1 <= Len(Requests)
    BY <1>1, <1>5, <1>7 DEF InStep, Ordered
  <2> QED  BY ONLY <1>3, <1>4, <1>7, <2>1 DEF Ordered
<1>9. InBody'
  <2>1. p < m => p < m + 1
    BY ONLY p \in Nat, m \in Nat
  <2>2. InBody
    BY DEF InStep
  <2> QED  BY ONLY <1>1, <1>3, <1>4, <1>7, <2>1, <2>2 DEF InBody, Waits, Top, Reading
<1>10. Framed'
  <2>1. Stream \in Seq(Byte) /\ Position \in Nat /\ buffer \in Seq(Byte) /\ wire \in Seq(Byte)
    BY Sizes DEF InStep
  <2>2. Stream' = Join(Stream, Frames[m + 1])
    <3>1. Frames[m + 1] \in Seq(Byte)
      BY ONLY <1>5, FrameType
    <3>2. Join(Join(buffer, wire), Frames[m + 1]) = Join(buffer, Join(wire, Frames[m + 1]))
      BY ONLY <2>1, <3>1, Associative
    <3> QED  BY ONLY <1>3, <3>2 DEF Stream, Join
  <2>3. Position' = Position
    BY ONLY <1>3 DEF Position, Consumed, Waits, Top, At
  <2>4. Reads(Stream, Position, m) /\ Position + Len(Stream) = At(m)
    BY ONLY <1>1, <1>3, InStep DEF InStep, Framed
  <2>5. Reads(Stream', Position, m + 1) /\ Position + Len(Stream') = At(m + 1)
    <3>1. PICK k : k = m + 1
      OBVIOUS
    <3>2. k \in 1..Len(Requests) /\ k - 1 = m
      BY ONLY <1>5, <3>1
    <3>3. Reads(Stream, Position, k - 1) /\ Position + Len(Stream) = At(k - 1)
      BY ONLY <2>4, <3>2
    <3>4. Stream' = Join(Stream, Frames[k])
      BY ONLY <2>2, <3>1
    <3> QED  BY ONLY <2>1, <3>1, <3>2, <3>3, <3>4, ReadsSend
  <2> QED  BY ONLY <1>4, <2>3, <2>5 DEF Framed, Reads, At
<1> QED  BY ONLY <1>6, <1>8, <1>9, <1>10 DEF InStep

LEMMA ReadStep == ASSUME IInv, InStep, ReadyRead PROVE InStep'
<1>1. UNCHANGED <<conn, session, marks, processed, unpackingStatus, rx_body_len>>
  BY DEF ReadyRead, link, parser, peer
<1>2. OneConnection' /\ Waits' = Waits
  <2>1. CASE stack = << >>
    <3>1. ~\E k \in 1..Len(stack) : stack[k].sess = session
      BY ONLY <2>1
    <3>2. stack' = Append(stack, [sess |-> session, pc |-> "loop"])
      BY ONLY <3>1, ReadyRead DEF ReadyRead
    <3>3. stack' = << [sess |-> session, pc |-> "loop"] >>
      BY ONLY <2>1, <3>2
    <3>4. Len(stack') = 1 /\ stack'[1] = [sess |-> session, pc |-> "loop"]
      BY ONLY <3>3
    <3>5. Waits' = FALSE
      BY ONLY <3>4 DEF Waits, Top
    <3>6. Waits = FALSE
      BY ONLY <2>1 DEF Waits
    <3>7. \A k \in 1..1 : stack'[k].sess = session
      BY ONLY <3>4
    <3>8. OneConnection'
      BY ONLY <1>1, <3>4, <3>7, InStep DEF InStep, OneConnection
    <3> QED  BY ONLY <3>5, <3>6, <3>8
  <2>2. CASE stack # << >>
    <3>1. Len(stack) = 1 /\ stack[1].sess = session
      BY <2>2, OneSlot DEF InStep
    <3>2. \E k \in 1..Len(stack) : stack[k].sess = session
      BY ONLY <3>1
    <3>3. stack' = stack
      BY ONLY <3>2, ReadyRead DEF ReadyRead
    <3> QED  BY ONLY <1>1, <3>3, InStep DEF InStep, OneConnection, Waits, Top
  <2> QED  BY ONLY <2>1, <2>2
<1>3. Stream' = Stream
  <2>1. PICK k \in 1..Len(wire) : /\ buffer' = buffer \o SubSeq(wire, 1, k)
                                  /\ wire' = SubSeq(wire, k + 1, Len(wire))
    BY DEF ReadyRead
  <2>2. buffer \in Seq(Byte) /\ wire \in Seq(Byte) /\ k \in 0..Len(wire)
    BY Sizes DEF InStep
  <2> QED  BY ONLY <2>1, <2>2, MoveStream DEF Stream
<1>4. Ordered' /\ InBody'
  BY ONLY <1>1, <1>2, InStep DEF InStep, Ordered, InBody, Reading
<1>5. Framed'
  BY ONLY <1>1, <1>2, <1>3, InStep DEF InStep, Framed, Reads, Position, Consumed, At
<1> QED  BY ONLY <1>2, <1>4, <1>5 DEF InStep

LEMMA ConnectStep ==
    ASSUME IInv, upsets = 0, InStep, ConnectOn \/ ConnectOff \/ LinkLost, upsets' = 0
    PROVE  InStep'
<1>1. UNCHANGED <<marks, processed, stack, unpackingStatus, rx_body_len>>
  BY DEF ConnectOn, ConnectOff, LinkLost, parser, peer
<1>2. Ordered' /\ InBody' /\ Position' = Position
  BY ONLY <1>1, InStep DEF InStep, Ordered, InBody, Reading, Waits, Top, Position, Consumed, At
<1>3. CASE ConnectOn
  <2>1. session = 0 /\ session' = 1 /\ conn' = "open" /\ UNCHANGED <<wire, buffer>>
    BY <1>3, upsets' = 0, upsets = 0 DEF ConnectOn, IInv, TypeOK
  <2>2. stack = << >> /\ marks = << >>
    BY ONLY <2>1, IInv DEF IInv, Fresh
  <2>3. OneConnection'
    BY ONLY <1>1, <2>1, <2>2 DEF OneConnection
  <2>4. Reads(Stream, Position, Len(marks))
    BY ONLY InStep DEF InStep, Framed
  <2>5. Position + Len(Stream) = At(Len(marks))
    <3>1. At(0) = 0 /\ Len(marks) = 0
      BY ONLY <2>2, SentFrames DEF At
    <3>2. Position \in Nat /\ Len(Stream) \in Nat
      BY Sizes DEF InStep
    <3>3. Position + Len(Stream) <= 0
      BY ONLY <2>4, <3>1 DEF Reads
    <3> QED  BY ONLY <3>1, <3>2, <3>3
  <2>6. Stream' = Stream
    BY ONLY <2>1 DEF Stream
  <2>7. Framed'
    BY ONLY <1>1, <1>2, <2>4, <2>5, <2>6 DEF Framed, Reads, At
  <2> QED  BY ONLY <1>2, <2>3, <2>7 DEF InStep
<1>4. CASE ConnectOff \/ LinkLost
  <2>1. UNCHANGED session /\ conn' # "open" /\ wire' = << >> /\ buffer' \in {buffer, << >>}
    BY <1>4 DEF ConnectOff, LinkLost
  <2>2. OneConnection'
    BY ONLY <1>1, <2>1, InStep DEF InStep, OneConnection
  <2>3. /\ buffer \in Seq(Byte) /\ Stream \in Seq(Byte) /\ Position \in Nat
        /\ Len(marks) \in 0..Len(Requests) /\ Len(buffer) <= Len(Stream)
        /\ \A j \in 1..Len(buffer) : buffer[j] = Stream[j]
    BY Sizes DEF InStep
  <2>4. Stream' \in {buffer, << >>}
    <3>1. buffer \o << >> = buffer /\ << >> \o << >> = << >>
      BY ONLY <2>3
    <3> QED  BY ONLY <2>1, <3>1 DEF Stream
  <2>5. /\ Stream' \in Seq(Byte) /\ Len(Stream') <= Len(Stream)
        /\ \A j \in 1..Len(Stream') : Stream'[j] = Stream[j]
    <3>1. CASE Stream' = buffer
      BY ONLY <2>3, <3>1
    <3>2. CASE Stream' = << >>
      BY ONLY <2>3, <3>2
    <3> QED  BY ONLY <2>4, <3>1, <3>2
  <2>6. Reads(Stream, Position, Len(marks))
    BY ONLY InStep DEF InStep, Framed
  <2>7. Reads(Stream', Position, Len(marks))
    BY ONLY <2>3, <2>5, <2>6, ReadsTake
  <2>8. Framed'
    BY ONLY <1>1, <1>2, <2>1, <2>7 DEF Framed, Reads, At
  <2> QED  BY ONLY <1>2, <2>2, <2>8 DEF InStep
<1> QED  BY ONLY <1>3, <1>4, ConnectOn \/ ConnectOff \/ LinkLost

\* The frame the slot is in, and the request it holds.
LEMMA FrameRead ==
    ASSUME IInv, Ordered, Len(processed) + 1 \in 1..Len(Requests)
    PROVE  /\ Reading \in Message /\ Len(Reading.type) = 2 /\ Len(Reading.msg) \in Nat
           /\ (((Len(Reading.msg) + 2) \div 256) \div 256) \div 256 < 128
           /\ Laid(Frames[Len(processed) + 1], Reading)
           /\ Len(Frames[Len(processed) + 1]) = Len(Reading.msg) + 13
<1>1. PICK k : k \in 1..Len(Requests) /\ k = Len(processed) + 1
  OBVIOUS
<1>2. /\ Requests[k] \in Message /\ Requests[k].type \in Seq(Byte)
      /\ Requests[k].msg \in Seq(Byte) /\ Len(Requests[k].msg) \in Nat
      /\ Len(Requests[k].type) = 2
      /\ (((Len(Requests[k].msg) + 2) \div 256) \div 256) \div 256 < 128
      /\ k \in DOMAIN Requests
  <2>1. k \in DOMAIN Requests /\ Sized(Requests[k])
    BY ONLY <1>1, RequestType
  <2> QED  BY ONLY <2>1 DEF Sized
<1>3. Frames[k] = Frame(Requests[k]) /\ Laid(Frame(Requests[k]), Requests[k])
  BY ONLY <1>2, FrameLaid DEF Frames
<1>4. Len(Frames[k]) = Len(Requests[k].msg) + 13
  <2>1. Len(BodyOf(Requests[k])) = 2 + Len(Requests[k].msg)
    <3>1. PICK x \in Seq(Byte) : x = Requests[k].type
      BY ONLY <1>2
    <3>2. PICK y \in Seq(Byte) : y = Requests[k].msg
      BY ONLY <1>2
    <3>3. Len(x \o y) = Len(x) + Len(y)
      BY ONLY x \in Seq(Byte), y \in Seq(Byte), ConcatProperties
    <3> QED  BY ONLY <1>2, <3>1, <3>2, <3>3 DEF BodyOf
  <2>2. Len(Frames[k]) = Len(BodyOf(Requests[k])) + 11
    BY ONLY <1>3 DEF Laid
  <2> QED  BY ONLY <1>2, <2>1, <2>2
<1> QED  BY ONLY <1>1, <1>2, <1>3, <1>4 DEF Reading

LEMMA PrefixStep == ASSUME IInv, InStep, WaitingPrefix1 \/ WaitingPrefix2 PROVE InStep'
<1>1. /\ buffer # << >> /\ Drop(1) /\ ~Waits
      /\ UNCHANGED <<conn, session, wire, marks, stack, rx_body_len, processed>>
  BY DEF WaitingPrefix1, WaitingPrefix2, Unpacking, Looping, Waits, Read, link, peer
<1>2. PICK k : k = Len(processed) + 1
  OBVIOUS
<1>3. /\ k \in 1..Len(Requests)
      /\ \A i \in 1..Len(buffer) : Consumed + i <= Len(Frames[k]) => buffer[i] = Frames[k][Consumed + i]
  BY ONLY <1>1, <1>2, IInv, InStep, NextBytes
<1>4. /\ Laid(Frames[k], Reading) /\ Len(Frames[k]) = Len(Reading.msg) + 13
      /\ Len(Reading.msg) \in Nat /\ Reading \in Message
  BY ONLY <1>2, <1>3, IInv, InStep, FrameRead DEF InStep
<1>5. 1 \in 1..Len(buffer) /\ Head(buffer) = buffer[1]
  BY <1>1 DEF IInv, TypeOK
<1>6. Head6(Reading)[1] = 2 /\ Head6(Reading)[2] = 84
  <2>1. PICK l : l = Length(Len(Reading.msg) + 2)
    OBVIOUS
  <2>2. l \in Seq(Byte) /\ Len(l) = 4
    <3>1. Len(Reading.msg) + 2 \in Nat
      BY ONLY <1>4
    <3> QED  BY ONLY <2>1, <3>1, LengthType
  <2>3. PICK t : t = <<2, 84>>
    OBVIOUS
  <2>4. t \in Seq(Byte) /\ Len(t) = 2
    BY ONLY <2>3 DEF Byte
  <2>5. PICK h : h = Join(t, l)
    OBVIOUS
  <2>6. Glued(h, t, l, 2, 4)
    <3>1. 2 \in Nat /\ 4 \in Nat
      OBVIOUS
    <3> QED  BY ONLY <2>2, <2>4, <2>5, <3>1, Joined
  <2>7. h[1] = 2 /\ h[2] = 84
    BY ONLY <2>3, <2>6 DEF Glued
  <2> QED  BY ONLY <2>1, <2>3, <2>5, <2>7 DEF Head6, Join
<1>7. Frames[k][1] = 2 /\ Frames[k][2] = 84
  <2>1. \A j \in 1..6 : Frames[k][j] = Head6(Reading)[j]
    BY ONLY <1>4 DEF Laid
  <2> QED  BY ONLY <1>6, <2>1
<1>8. unpackingStatus' # "body" /\ ~Waits' /\ Position' = Position + 1
  <2>1. ~Waits'
    BY ONLY <1>1 DEF Waits, Top
  <2>2. At(Len(processed)) \in Nat /\ At(Len(processed))' = At(Len(processed))
    <3>1. At(Len(processed)) \in Nat
      BY Sizes DEF InStep
    <3> QED  BY ONLY <1>1, <3>1 DEF At
  <2>3. CASE WaitingPrefix1
    <3>1. unpackingStatus = "prefix1" /\ unpackingStatus' = IF Head(buffer) = 2 THEN "prefix2" ELSE "prefix1"
      BY ONLY <2>3 DEF WaitingPrefix1, Unpacking, Goto
    <3>2. Consumed = 0
      BY ONLY <1>1, <3>1 DEF Consumed
    <3>3. buffer[1] = 2
      BY ONLY <1>3, <1>4, <1>5, <1>7, <3>2
    <3>4. unpackingStatus' = "prefix2"
      BY ONLY <1>5, <3>1, <3>3
    <3>5. Consumed' = 1
      BY ONLY <2>1, <3>4 DEF Consumed
    <3> QED  BY ONLY <2>1, <2>2, <3>2, <3>4, <3>5 DEF Position
  <2>4. CASE WaitingPrefix2
    <3>1. unpackingStatus = "prefix2" /\ unpackingStatus' = IF Head(buffer) = 84 THEN "header" ELSE "prefix2"
      BY ONLY <2>4 DEF WaitingPrefix2, Unpacking, Goto
    <3>2. Consumed = 1
      BY ONLY <1>1, <3>1 DEF Consumed
    <3>3. buffer[1] = 84
      BY ONLY <1>3, <1>4, <1>5, <1>7, <3>2
    <3>4. unpackingStatus' = "header"
      BY ONLY <1>5, <3>1, <3>3
    <3>5. Consumed' = 2
      BY ONLY <2>1, <3>4 DEF Consumed
    <3> QED  BY ONLY <2>1, <2>2, <3>2, <3>4, <3>5 DEF Position
  <2> QED  BY ONLY <2>3, <2>4, WaitingPrefix1 \/ WaitingPrefix2
<1>9. Framed'
  <2>1. 1 \in Nat /\ 1 <= Len(buffer)
    BY ONLY <1>5
  <2> QED  BY ONLY <1>1, <1>8, <2>1, IInv, InStep, Advanced
<1>10. OneConnection' /\ Ordered' /\ InBody'
  BY ONLY <1>1, <1>8, InStep DEF InStep, OneConnection, Ordered, InBody
<1> QED  BY ONLY <1>9, <1>10 DEF InStep

LEMMA HeaderStep == ASSUME IInv, InStep, WaitingHeader PROVE InStep'
<1>1. /\ buffer # << >> /\ Drop(6) /\ ~Waits /\ 6 <= Len(buffer)
      /\ unpackingStatus = "header" /\ unpackingStatus' = "body"
      /\ UNCHANGED <<conn, session, wire, marks, stack, processed>>
  BY DEF WaitingHeader, Unpacking, Goto, Looping, Waits, Read, link, peer
<1>2. rx_body_len' = IF HeaderChecks(SubSeq(buffer, 1, 6))
                     THEN buffer[1] + 256 * (buffer[2] + 256 * (buffer[3] + 256 * buffer[4]))
                     ELSE 0
  BY ONLY WaitingHeader DEF WaitingHeader
<1>3. Consumed = 2
  BY ONLY <1>1 DEF Consumed
<1>4. PICK k : k = Len(processed) + 1
  OBVIOUS
<1>5. /\ k \in 1..Len(Requests) /\ Len(processed) < Len(marks)
      /\ \A i \in 1..Len(buffer) : 2 + i <= Len(Frames[k]) => buffer[i] = Frames[k][2 + i]
  BY ONLY <1>1, <1>3, <1>4, IInv, InStep, NextBytes
<1>6. /\ Laid(Frames[k], Reading) /\ Len(Frames[k]) = Len(Reading.msg) + 13
      /\ Len(Reading.msg) \in Nat /\ Reading \in Message
      /\ (((Len(Reading.msg) + 2) \div 256) \div 256) \div 256 < 128
  BY ONLY <1>4, <1>5, IInv, InStep, FrameRead DEF InStep
<1>7. PICK n \in Nat : n = Len(Reading.msg) + 2
  BY ONLY <1>6
<1>8. PICK rx : rx = SubSeq(buffer, 1, 6)
  OBVIOUS
<1>9. rx \in Seq(Byte) /\ Len(rx) = 6 /\ \A j \in 1..6 : rx[j] = buffer[j]
  <2>1. buffer \in Seq(Byte)
    BY DEF IInv, TypeOK
  <2>2. 6 \in 0..Len(buffer)
    BY ONLY <1>1, <2>1
  <2> QED  BY ONLY <1>8, <2>1, <2>2, TakeProperties
<1>10. \A j \in 1..6 : rx[j] = Frames[k][2 + j]
  <2>1. \A j \in 1..6 : j \in 1..Len(buffer)
    <3>1. Len(buffer) \in Nat
      BY Sizes DEF InStep
    <3> QED  BY ONLY <1>1, <3>1
  <2>2. \A j \in 1..6 : 2 + j <= Len(Frames[k])
    BY ONLY <1>6
  <2> QED  BY ONLY <1>5, <1>9, <2>1, <2>2
<1>11. HeaderChecks(rx) /\ \A j \in 1..4 : rx[j] = Length(n)[j]
  <2>1. Slice(rx, Frames[k], 2, 6)
    BY ONLY <1>9, <1>10 DEF Slice
  <2> QED  BY ONLY <1>6, <1>7, <2>1, HeaderRead
<1>12. rx_body_len' = n
  <2>1. \A j \in 1..4 : buffer[j] = Length(n)[j]
    <3>1. \A j \in 1..4 : j \in 1..6
      OBVIOUS
    <3> QED  BY ONLY <1>9, <1>11, <3>1
  <2>2. buffer[1] = Length(n)[1] /\ buffer[2] = Length(n)[2]
        /\ buffer[3] = Length(n)[3] /\ buffer[4] = Length(n)[4]
    BY ONLY <2>1
  <2>3. Length(n)[1] + 256 * (Length(n)[2] + 256 * (Length(n)[3] + 256 * Length(n)[4])) = n
    <3>1. ((n \div 256) \div 256) \div 256 < 128
      BY ONLY <1>6, <1>7
    <3> QED  BY ONLY <3>1, n \in Nat, LengthValue
  <2> QED  BY ONLY <1>2, <1>8, <1>11, <2>2, <2>3
<1>13. ~Waits'
  BY ONLY <1>1 DEF Waits, Top
<1>14. Position' = Position + 6
  <2>1. At(Len(processed)) \in Nat
    BY Sizes DEF InStep
  <2>2. Consumed' = 8
    BY ONLY <1>1, <1>13 DEF Consumed
  <2> QED  BY ONLY <1>1, <1>3, <2>1, <2>2 DEF Position, At
<1>15. Framed'
  <2>1. 6 \in Nat
    OBVIOUS
  <2> QED  BY ONLY <1>1, <1>14, <2>1, IInv, InStep, Advanced
<1>16. InBody'
  BY ONLY <1>1, <1>5, <1>7, <1>12 DEF InBody, Reading
<1>17. OneConnection' /\ Ordered'
  BY ONLY <1>1, InStep DEF InStep, OneConnection, Ordered
<1> QED  BY ONLY <1>15, <1>16, <1>17 DEF InStep

\* The body the slot takes out of the buffer passes its checks and is the one of the
\* request the slot is in.
LEMMA BodyTaken ==
    ASSUME IInv, InStep, Dispatch \/ Refuse
    PROVE  /\ BodyChecks(Body) /\ Len(processed) < Len(marks)
           /\ Len(processed) + 1 \in 1..Len(Requests)
           /\ Reading = [type |-> SubSeq(Body, 1, 2), msg |-> SubSeq(Body, 3, rx_body_len)]
           /\ Consumed = 8 /\ rx_body_len \in Nat
           /\ Len(Frames[Len(processed) + 1]) = 8 + (rx_body_len + 3)
<1>1. /\ buffer # << >> /\ ~Waits /\ unpackingStatus = "body" /\ Len(buffer) >= rx_body_len + 3
  BY DEF Dispatch, Refuse, Unpacking, Looping, Waits
<1>2. Consumed = 8
  BY ONLY <1>1 DEF Consumed
<1>3. PICK k : k = Len(processed) + 1
  OBVIOUS
<1>4. /\ k \in 1..Len(Requests) /\ Len(processed) < Len(marks)
      /\ \A i \in 1..Len(buffer) : 8 + i <= Len(Frames[k]) => buffer[i] = Frames[k][8 + i]
  BY ONLY <1>1, <1>2, <1>3, IInv, InStep, NextBytes
<1>5. /\ Laid(Frames[k], Reading) /\ Len(Frames[k]) = Len(Reading.msg) + 13
      /\ Len(Reading.msg) \in Nat /\ Reading \in Message /\ Len(Reading.type) = 2
  BY ONLY <1>3, <1>4, IInv, InStep, FrameRead DEF InStep
<1>6. PICK n \in Nat : n = Len(Reading.msg) + 2
  BY ONLY <1>5
<1>7. rx_body_len = n
  BY ONLY <1>1, <1>6, InStep DEF InStep, InBody
<1>8. PICK l \in Nat : l = Len(buffer)
  BY Sizes DEF InStep
<1>9. n + 3 <= l /\ n + 3 \in 0..l /\ n + 3 \in Nat
  BY ONLY <1>1, <1>7, <1>8, n \in Nat, l \in Nat
<1>10. PICK rx : rx = Body
  OBVIOUS
<1>11. rx \in Seq(Byte) /\ Len(rx) = n + 3 /\ \A j \in 1..(n + 3) : rx[j] = buffer[j]
  <2>1. buffer \in Seq(Byte)
    BY DEF IInv, TypeOK
  <2>2. rx = SubSeq(buffer, 1, n + 3)
    BY ONLY <1>7, <1>10 DEF Body
  <2>3. n + 3 \in 0..Len(buffer)
    BY ONLY <1>8, <1>9
  <2> QED  BY ONLY <2>1, <2>2, <2>3, TakeProperties
<1>12. \A j \in 1..(n + 3) : rx[j] = Frames[k][8 + j]
  <2>1. \A j \in 1..(n + 3) : j \in 1..l /\ 8 + j <= Len(Reading.msg) + 13
    BY ONLY <1>5, <1>6, <1>9, n \in Nat, l \in Nat
  <2> QED  BY ONLY <1>4, <1>5, <1>8, <1>11, <2>1
<1>13. BodyChecks(rx) /\ Reading = [type |-> SubSeq(rx, 1, 2), msg |-> SubSeq(rx, 3, n)]
  <2>1. Slice(rx, Frames[k], 8, n + 3)
    BY ONLY <1>11, <1>12 DEF Slice
  <2>2. PICK m : m = Reading
    OBVIOUS
  <2>3. PICK f : f = Frames[k]
    OBVIOUS
  <2>4. /\ m \in Message /\ Laid(f, m) /\ Len(m.type) = 2 /\ n = Len(m.msg) + 2
        /\ Slice(rx, f, 8, n + 3)
    BY ONLY <1>5, <1>6, <2>1, <2>2, <2>3
  <2>5. TakenFor(rx, n, m)
    BY ONLY <2>4, n \in Nat, BodyRead
  <2> QED  BY ONLY <2>2, <2>5 DEF TakenFor
<1>14. Len(Frames[k]) = 8 + (n + 3)
  BY ONLY <1>5, <1>6
<1> QED  BY ONLY <1>2, <1>3, <1>4, <1>7, <1>10, <1>13, <1>14

LEMMA DispatchStep == ASSUME IInv, InStep, Dispatch \/ Refuse PROVE InStep'
<1>1. PICK p \in Nat : p = Len(processed)
  BY Sizes DEF InStep
<1>2. PICK n \in Nat : n = rx_body_len + 3
  BY BodyTaken
<1>3. PICK m : m = Reading
  OBVIOUS
<1>4. /\ BodyChecks(Body) /\ p < Len(marks) /\ p + 1 \in 1..Len(Requests)
      /\ m = [type |-> SubSeq(Body, 1, 2), msg |-> SubSeq(Body, 3, rx_body_len)]
      /\ Consumed = 8 /\ Len(Frames[p + 1]) = 8 + n
  BY ONLY <1>1, <1>2, <1>3, IInv, InStep, Dispatch \/ Refuse, BodyTaken
<1>5. Dispatch
  BY ONLY <1>4, Dispatch \/ Refuse DEF Refuse
<1>6. /\ Drop(n) /\ n <= Len(buffer) /\ stack # << >> /\ ~Waits
      /\ UNCHANGED <<conn, session, wire, marks, rx_body_len>>
  BY ONLY <1>2, <1>5 DEF Dispatch, Unpacking, Looping, Waits, Read, link, peer
<1>7. /\ processed' = Append(processed, m)
      /\ IF m.type = AT THEN Replace("handler") /\ UNCHANGED unpackingStatus
         ELSE Goto("prefix1") /\ UNCHANGED stack
  BY ONLY <1>4, <1>5 DEF Dispatch
<1>8. processed \in Seq(Message) /\ stack \in Seq(Slots)
  BY DEF IInv, TypeOK, Slots
<1>9. m = Requests[p + 1] /\ m \in Message
  <2>1. m = Requests[p + 1]
    BY ONLY <1>1, <1>3 DEF Reading
  <2> QED  BY ONLY <1>4, <2>1, RequestType DEF Sized
<1>10. Len(processed') = p + 1 /\ processed'[p + 1] = m /\ \A k \in 1..p : processed'[k] = processed[k]
  BY ONLY <1>1, <1>7, <1>8, <1>9
<1>11. Ordered'
  <2>1. Len(marks) \in Nat /\ Ordered
    BY Sizes DEF InStep
  <2>2. p + 1 <= Len(marks)
    BY ONLY <1>4, <2>1, p \in Nat
  <2>3. \A k \in 1..(p + 1) : k \in 1..p \/ k = p + 1
    BY ONLY p \in Nat
  <2>4. \A k \in 1..(p + 1) : processed'[k] = Requests[k]
    BY ONLY <1>1, <1>9, <1>10, <2>1, <2>3 DEF Ordered
  <2> QED  BY ONLY <1>6, <1>10, <2>1, <2>2, <2>4 DEF Ordered
<1>12. /\ Len(stack') = Len(stack) /\ \A k \in 1..Len(stack) : stack'[k].sess = stack[k].sess
       /\ Waits' \/ (~Waits' /\ unpackingStatus' = "prefix1")
  <2>1. CASE m.type = AT
    <3>1. stack' = [stack EXCEPT ![Len(stack)].pc = "handler"]
      BY ONLY <1>7, <2>1 DEF Replace
    <3>2. Replaced(stack, "handler", stack')
      BY ONLY <1>6, <1>8, <3>1, StackReplaced
    <3>3. /\ Len(stack') = Len(stack) /\ stack'[Len(stack)].pc = "handler"
          /\ \A k \in 1..Len(stack) : stack'[k].sess = stack[k].sess
      BY ONLY <3>2 DEF Replaced
    <3>4. stack' # << >>
      BY ONLY <1>6, <1>8, <3>3
    <3>5. Waits'
      BY ONLY <3>3, <3>4 DEF Waits, Top
    <3> QED  BY ONLY <3>3, <3>5
  <2>2. CASE m.type # AT
    <3>1. stack' = stack /\ unpackingStatus' = "prefix1"
      BY ONLY <1>7, <2>2 DEF Goto
    <3>2. ~Waits'
      BY ONLY <1>6, <3>1 DEF Waits, Top
    <3> QED  BY ONLY <3>1, <3>2
  <2> QED  BY ONLY <2>1, <2>2
<1>13. OneConnection' /\ InBody'
  BY ONLY <1>6, <1>12, InStep DEF InStep, OneConnection, InBody
<1>14. Position' = Position + n
  <2>1. Consumed' = 0
    BY ONLY <1>12 DEF Consumed
  <2>2. PICK k : k = p + 1
    OBVIOUS
  <2>3. k \in 1..Len(Requests) /\ k - 1 = p
    BY ONLY <1>4, <2>2, p \in Nat
  <2>4. At(k) = At(k - 1) + Len(Frames[k]) /\ At(k - 1) \in Nat
    BY ONLY <2>3, FrameAt
  <2>5. At(p + 1) = At(p) + (8 + n) /\ At(p) \in Nat
    BY ONLY <1>4, <2>2, <2>3, <2>4
  <2>6. Position' = At(p + 1) + 0 /\ Position = At(p) + 8
    BY ONLY <1>1, <1>4, <1>10, <2>1 DEF Position, At
  <2> QED  BY ONLY <2>5, <2>6, n \in Nat
<1>15. Framed'
  BY ONLY <1>6, <1>14, n \in Nat, IInv, InStep, Advanced
<1> QED  BY ONLY <1>11, <1>13, <1>15 DEF InStep

LEMMA ReturnStep ==
    ASSUME IInv, upsets = 0, InStep, HandlerReturns \/ SlotEnds, upsets' = 0 PROVE InStep'
<1>1. /\ stack # << >>
      /\ UNCHANGED <<conn, session, wire, buffer, rx_body_len, marks, processed>>
  BY DEF HandlerReturns, SlotEnds, Looping, Pop, Replace, link, parser, peer
<1>2. Len(stack) = 1 /\ session = 1 /\ stack[1].sess = session /\ stack \in Seq(Slots)
  <2>1. Len(stack) = 1 /\ session = 1 /\ stack[1].sess = session
    BY ONLY <1>1, IInv, InStep, OneSlot DEF InStep
  <2>2. stack \in Seq(Slots)
    BY DEF IInv, TypeOK, Slots
  <2> QED  BY ONLY <2>1, <2>2
<1>3. stack' = Front(stack) => stack' = << >>
  <2>1. Len(Front(stack)) = 0 /\ Front(stack) \in Seq(Slots)
    <3>1. Len(Front(stack)) = Len(stack) - 1 /\ Front(stack) \in Seq(Slots)
      BY ONLY <1>1, <1>2, StackPopped
    <3> QED  BY ONLY <1>2, <3>1
  <2> QED  BY ONLY <2>1
<1>4. stack' = [stack EXCEPT ![Len(stack)].pc = "loop"] =>
          /\ Len(stack') = 1 /\ stack'[1].pc = "loop" /\ stack'[1].sess = session
  <2>1. Replaced(stack, "loop", [stack EXCEPT ![Len(stack)].pc = "loop"])
    BY ONLY <1>1, <1>2, StackReplaced
  <2> QED  BY ONLY <1>2, <2>1 DEF Replaced
<1>5. stack' = Front(stack) \/ stack' = [stack EXCEPT ![Len(stack)].pc = "loop"]
  BY ONLY HandlerReturns \/ SlotEnds DEF HandlerReturns, SlotEnds, Pop, Replace
<1>6. ~Waits' /\ \A k \in 1..Len(stack') : stack'[k].sess = session
  <2>1. CASE stack' = << >>
    BY ONLY <2>1 DEF Waits
  <2>2. CASE Len(stack') = 1 /\ stack'[1].pc = "loop" /\ stack'[1].sess = session
    BY ONLY <2>2 DEF Waits, Top
  <2> QED  BY ONLY <1>3, <1>4, <1>5, <2>1, <2>2
<1>7. Consumed' = Consumed /\ InBody'
  <2>1. CASE HandlerReturns
    <3>1. Waits /\ unpackingStatus' = "prefix1"
      BY <2>1 DEF HandlerReturns, Yielding, Goto, Waits
    <3>2. Consumed = 0 /\ Consumed' = 0
      BY ONLY <1>6, <3>1 DEF Consumed
    <3> QED  BY ONLY <3>1, <3>2 DEF InBody
  <2>2. CASE SlotEnds
    <3>1. ~Waits /\ unpackingStatus' = unpackingStatus
      BY <2>2 DEF SlotEnds, Looping, Waits, parser
    <3>2. unpackingStatus \in {"prefix1", "prefix2", "header", "body"}
      BY DEF IInv, TypeOK
    <3>3. Consumed' = Consumed
      BY ONLY <1>6, <3>1, <3>2 DEF Consumed
    <3> QED  BY ONLY <1>1, <1>6, <3>1, <3>3, InStep DEF InStep, InBody, Reading
  <2> QED  BY ONLY <2>1, <2>2, HandlerReturns \/ SlotEnds
<1>8. Position' = Position /\ Stream' = Stream
  BY ONLY <1>1, <1>7 DEF Position, Stream, At
<1>9. Framed'
  BY ONLY <1>1, <1>8, InStep DEF InStep, Framed, Reads, At
<1>10. OneConnection' /\ Ordered'
  BY ONLY <1>1, <1>6, InStep DEF InStep, OneConnection, Ordered
<1> QED  BY ONLY <1>7, <1>9, <1>10 DEF InStep

\* Nothing undoes a disturbance.
LEMMA NeverUndone == ASSUME IInv, [Next]_vars, upsets' = 0 PROVE upsets = 0
<1>1. upsets \in Nat
  BY DEF IInv, TypeOK
<1>2. upsets' = upsets \/ upsets' = upsets + 1 \/ (session = 0 /\ ConnectOn)
  <2>1. CASE UNCHANGED vars
    BY ONLY <2>1 DEF vars, peer
  <2>2. CASE RcsSends \/ (\E bytes \in Noises : Noise(bytes))
    BY ONLY <2>2 DEF RcsSends, Noise
  <2>3. CASE ReadyRead \/ ConnectOff \/ LinkLost
    BY ONLY <2>3 DEF ReadyRead, ConnectOff, LinkLost, peer
  <2>4. CASE ConnectOn
    BY ONLY <2>4 DEF ConnectOn
  <2>5. CASE WaitingPrefix1 \/ WaitingPrefix2 \/ WaitingHeader \/ Dispatch \/ Refuse
    BY ONLY <2>5 DEF WaitingPrefix1, WaitingPrefix2, WaitingHeader, Dispatch, Refuse, Read, peer
  <2>6. CASE SlotEnds
    BY ONLY <2>6 DEF SlotEnds, peer
  <2>7. CASE HandlerReturns
    BY ONLY <2>7 DEF HandlerReturns
  <2> QED
    BY ONLY <2>1, <2>2, <2>3, <2>4, <2>5, <2>6, <2>7, [Next]_vars DEF Next, Slot
<1>3. session = 0 => upsets = 0
  BY DEF IInv, Fresh
<1> QED  BY ONLY <1>1, <1>2, <1>3, upsets' = 0

StepInv == IInv /\ (upsets = 0 => InStep)

LEMMA StepInit == Init => StepInv
<1> SUFFICES ASSUME Init PROVE StepInv
  OBVIOUS
<1>1. IInv
  BY InitIInv
<1>2. /\ marks = << >> /\ processed = << >> /\ stack = << >> /\ wire = << >> /\ buffer = << >>
      /\ session = 0 /\ conn = "none" /\ unpackingStatus = "prefix1"
  BY ONLY Init DEF Init
<1>3. OneConnection
  BY ONLY <1>2 DEF OneConnection
<1>4. Ordered
  <2>1. Len(Requests) \in Nat
    BY RequestAssumption
  <2> QED  BY ONLY <1>2, <2>1 DEF Ordered
<1>5. InBody
  BY ONLY <1>2 DEF InBody
<1>6. Framed
  <2>1. Consumed = 0
    BY ONLY <1>2 DEF Consumed, Waits
  <2>2. At(0) = 0 /\ Len(processed) = 0 /\ Len(marks) = 0
    BY ONLY <1>2, SentFrames DEF At
  <2>3. Position = 0
    BY ONLY <2>1, <2>2 DEF Position
  <2>4. Len(Stream) = 0
    BY ONLY <1>2 DEF Stream
  <2> QED  BY ONLY <1>2, <2>2, <2>3, <2>4 DEF Framed, Reads
<1> QED  BY ONLY <1>1, <1>3, <1>4, <1>5, <1>6 DEF StepInv, InStep

LEMMA StepNext == ASSUME StepInv, [Next]_vars PROVE StepInv'
<1>1. IInv /\ IInv'
  BY NextIInv DEF StepInv
<1>2. ASSUME upsets' = 0 PROVE InStep'
  <2>1. upsets = 0
    BY ONLY <1>1, <1>2, [Next]_vars, NeverUndone
  <2>2. InStep
    BY ONLY <2>1, StepInv DEF StepInv
  <2>3. CASE UNCHANGED vars
    BY ONLY <2>2, <2>3 DEF vars, link, parser, peer, InStep, OneConnection, Ordered, InBody, Framed,
                           Reads, Position, Consumed, Waits, Top, Stream, Reading, At
  <2>4. CASE RcsSends
    BY ONLY <1>1, <2>2, <2>4, SendStep
  <2>5. CASE \E bytes \in Noises : Noise(bytes)
    <3>1. upsets' = upsets + 1
      BY ONLY <2>5 DEF Noise
    <3> QED  BY ONLY <1>2, <2>1, <3>1
  <2>6. CASE ReadyRead
    BY ONLY <1>1, <2>2, <2>6, ReadStep
  <2>7. CASE ConnectOn \/ ConnectOff \/ LinkLost
    BY ONLY <1>1, <1>2, <2>1, <2>2, <2>7, ConnectStep
  <2>8. CASE WaitingPrefix1 \/ WaitingPrefix2
    BY ONLY <1>1, <2>2, <2>8, PrefixStep
  <2>9. CASE WaitingHeader
    BY ONLY <1>1, <2>2, <2>9, HeaderStep
  <2>10. CASE Dispatch \/ Refuse
    BY ONLY <1>1, <2>2, <2>10, DispatchStep
  <2>11. CASE HandlerReturns \/ SlotEnds
    BY ONLY <1>1, <1>2, <2>1, <2>2, <2>11, ReturnStep
  <2> QED
    BY ONLY <2>3, <2>4, <2>5, <2>6, <2>7, <2>8, <2>9, <2>10, <2>11, [Next]_vars DEF Next, Slot
<1> QED  BY ONLY <1>1, <1>2 DEF StepInv

LEMMA StepInvariant == Spec => []StepInv
<1>1. Init => StepInv
  BY StepInit
<1>2. StepInv /\ [Next]_vars => StepInv'
  BY StepNext
<1> QED  BY <1>1, <1>2, PTL DEF Spec

LEMMA NumberIs ==
    ASSUME Len(marks) \in Nat, Len(marks) <= Len(Requests), NEW k \in 1..Len(marks)
    PROVE  Number(Requests[k]) = k
<1>1. Len(Requests) \in Nat /\ DOMAIN Requests = 1..Len(Requests)
  BY RequestAssumption
<1>2. \A n \in 1..Len(marks) : n \in DOMAIN Requests
  BY <1>1
<1>3. \A n \in 1..Len(marks) : Requests[n] = Requests[k] => n = k
  BY <1>2, RequestAssumption DEF IsInjective
<1> QED  BY ONLY <1>3, k \in 1..Len(marks) DEF Number

LEMMA NextInOrder == ASSUME IInv, InStep, [Next]_vars PROVE DispatchInOrder /\ ~Refuse
<1>1. ~Refuse
  BY BodyTaken DEF Refuse
<1>2. CASE Dispatch
  <2>1. PICK p \in Nat : p = Len(processed)
    BY Sizes DEF InStep
  <2>2. PICK m : m = Reading
    OBVIOUS
  <2>3. /\ BodyChecks(Body) /\ p < Len(marks) /\ m = Requests[p + 1]
        /\ m = [type |-> SubSeq(Body, 1, 2), msg |-> SubSeq(Body, 3, rx_body_len)]
    <3>1. m = Requests[p + 1]
      BY ONLY <2>1, <2>2 DEF Reading
    <3> QED  BY ONLY <1>2, <2>1, <2>2, <3>1, IInv, InStep, BodyTaken
  <2>4. processed' = Append(processed, m) /\ processed \in Seq(Message)
    <3>1. processed \in Seq(Message)
      BY DEF IInv, TypeOK
    <3> QED  BY ONLY <1>2, <2>3, <3>1 DEF Dispatch
  <2>5. Last(processed') = m
    BY ONLY <2>4 DEF Last
  <2>6. /\ Len(marks) \in Nat /\ Len(marks) <= Len(Requests)
        /\ \A k \in 1..p : processed[k] = Requests[k]
        /\ \A k \in 1..Len(marks) : marks[k].sess = session
    <3>1. Len(marks) \in Nat
      BY Sizes DEF InStep
    <3> QED  BY ONLY <2>1, <3>1, InStep DEF InStep, Ordered, OneConnection
  <2>7. p + 1 \in 1..Len(marks) /\ \A n \in 1..p : n \in 1..Len(marks) /\ n < p + 1
    BY ONLY <2>3, <2>6, p \in Nat
  <2>8. Number(m) = p + 1 /\ \A n \in 1..p : Number(processed[n]) = n
    <3>1. \A k \in 1..Len(marks) : Number(Requests[k]) = k
      BY ONLY <2>6, NumberIs
    <3> QED  BY ONLY <2>3, <2>6, <2>7, <3>1
  <2>9. /\ \E k \in 1..Len(marks) : Requests[k] = m
        /\ marks[Number(m)].sess = session
        /\ \A n \in 1..Len(processed) : Number(processed[n]) < Number(m)
    BY ONLY <2>1, <2>3, <2>6, <2>7, <2>8
  <2> QED  BY ONLY <1>1, <2>5, <2>9 DEF DispatchInOrder
<1>3. CASE ~Dispatch
  <2>1. UNCHANGED processed
    <3>1. CASE UNCHANGED vars
      BY ONLY <3>1 DEF vars
    <3>2. CASE RcsSends \/ (\E bytes \in Noises : Noise(bytes))
      BY ONLY <3>2 DEF RcsSends, Noise
    <3>3. CASE ReadyRead \/ ConnectOn \/ ConnectOff \/ LinkLost
      BY ONLY <3>3 DEF ReadyRead, ConnectOn, ConnectOff, LinkLost
    <3>4. CASE WaitingPrefix1 \/ WaitingPrefix2 \/ WaitingHeader \/ Refuse
      BY ONLY <3>4 DEF WaitingPrefix1, WaitingPrefix2, WaitingHeader, Refuse
    <3>5. CASE HandlerReturns \/ SlotEnds
      BY ONLY <3>5 DEF HandlerReturns, SlotEnds
    <3> QED  BY ONLY <1>3, <3>1, <3>2, <3>3, <3>4, <3>5, [Next]_vars DEF Next, Slot
  <2> QED  BY ONLY <1>1, <2>1 DEF DispatchInOrder
<1> QED  BY ONLY <1>2, <1>3

\* As long as nothing has disturbed the parser, messageProcess is called with the
\* messages the RCS sent, unchanged and in the order they were sent, and no body is
\* refused: however the stream is cut into chunks, while a handler waits, and also
\* when the connection ends.
THEOREM InOrderUntilDisturbed == Spec => [][upsets = 0 => DispatchInOrder /\ ~Refuse]_vars
<1>1. StepInv /\ [Next]_vars => [upsets = 0 => DispatchInOrder /\ ~Refuse]_vars
  <2> SUFFICES ASSUME StepInv, [Next]_vars, upsets = 0 PROVE DispatchInOrder /\ ~Refuse
    OBVIOUS
  <2>1. IInv /\ InStep
    BY DEF StepInv
  <2> QED  BY ONLY <2>1, [Next]_vars, NextInOrder
<1> QED  BY <1>1, StepInvariant, PTL DEF Spec

\* With one connection and no noise that is so for good.
THEOREM OneConnectionInOrder ==
    ASSUME MaxNoise = 0, MaxSession <= 1
    PROVE  Spec => InOrderOrNotAtAll
<1> DEFINE Inv == StepInv /\ upsets = 0
<1>1. Init => Inv
  BY StepInit DEF Init
<1>2. Inv /\ [Next]_vars => Inv'
  <2> SUFFICES ASSUME Inv, [Next]_vars PROVE Inv'
    OBVIOUS
  <2>1. StepInv'
    BY StepNext
  <2>2. IInv /\ InStep /\ upsets = 0
    BY DEF StepInv
  <2>3. upsets' = 0
    <3>1. CASE UNCHANGED vars
      BY ONLY <2>2, <3>1 DEF vars, peer
    <3>2. CASE RcsSends
      BY ONLY <2>2, <3>2 DEF RcsSends
    <3>3. ASSUME NEW bytes \in Noises, Noise(bytes) PROVE FALSE
      <4>1. noise \in 0..0 /\ noise < 0
        BY ONLY <2>2, <3>3, MaxNoise = 0 DEF Noise, IInv, TypeOK
      <4> QED  BY ONLY <4>1
    <3>4. CASE ReadyRead \/ ConnectOff \/ LinkLost
      BY ONLY <2>2, <3>4 DEF ReadyRead, ConnectOff, LinkLost, peer
    <3>5. CASE ConnectOn
      <4>1. session \in Nat /\ session < MaxSession /\ MaxSession \in Nat
        BY <2>2, <3>5, FramesAssumption DEF ConnectOn, IInv, TypeOK
      <4>2. session = 0
        BY ONLY <4>1, MaxSession <= 1
      <4> QED  BY ONLY <3>5, <4>2 DEF ConnectOn
    <3>6. CASE WaitingPrefix1 \/ WaitingPrefix2 \/ WaitingHeader \/ Dispatch \/ Refuse
      BY ONLY <2>2, <3>6 DEF WaitingPrefix1, WaitingPrefix2, WaitingHeader, Dispatch, Refuse,
                             Read, peer
    <3>7. CASE SlotEnds
      BY ONLY <2>2, <3>7 DEF SlotEnds, peer
    <3>8. CASE HandlerReturns
      <4>1. stack # << >>
        BY ONLY <3>8 DEF HandlerReturns
      <4>2. Len(stack) = 1 /\ stack[1].sess = session
        BY ONLY <2>2, <4>1, OneSlot DEF InStep
      <4> QED  BY ONLY <2>2, <3>8, <4>2 DEF HandlerReturns, Top
    <3> QED
      BY ONLY <3>1, <3>2, <3>3, <3>4, <3>5, <3>6, <3>7, <3>8, [Next]_vars DEF Next, Slot
  <2> QED  BY ONLY <2>1, <2>3
<1>3. Inv /\ [Next]_vars => [DispatchInOrder]_vars
  <2> SUFFICES ASSUME Inv, [Next]_vars PROVE DispatchInOrder
    OBVIOUS
  <2>1. IInv /\ InStep
    BY DEF StepInv
  <2> QED  BY ONLY <2>1, [Next]_vars, NextInOrder
<1> HIDE DEF Inv
<1> QED  BY <1>1, <1>2, <1>3, PTL DEF Spec, InOrderOrNotAtAll
=============================================================================
