--------------------------- MODULE AgentLinkProofs ---------------------------
(***************************************************************************)
(* The connection of AgentLink, for every set of messages, every map and   *)
(* any number of messages and heartbeats.                                  *)
(***************************************************************************)
EXTENDS AgentLink, ByteLemmas, FiniteSetTheorems

-----------------------------------------------------------------------------
(* Sequences of bytes.                                                     *)

\* A nonempty set of numbers up to n has a largest one.
LEMMA HasMax == \A n \in Nat : \A S \in SUBSET (0..n) : S # {} => \E x \in S : \A y \in S : x >= y
<1> DEFINE T == {n \in Nat : \A S \in SUBSET (0..n) : S # {} => \E x \in S : \A y \in S : x >= y}
<1>1. 0 \in T
  <2> SUFFICES ASSUME NEW S \in SUBSET (0..0), S # {} PROVE \E x \in S : \A y \in S : x >= y
    OBVIOUS
  <2>1. \A y \in S : y = 0
    OBVIOUS
  <2>2. PICK x \in S : TRUE
    OBVIOUS
  <2> QED  BY <2>1, <2>2
<1>2. ASSUME NEW n \in Nat, n \in T PROVE n + 1 \in T
  <2> SUFFICES ASSUME NEW S \in SUBSET (0..(n + 1)), S # {}
               PROVE  \E x \in S : \A y \in S : x >= y
    OBVIOUS
  <2>1. CASE n + 1 \in S
    BY <2>1
  <2>2. CASE n + 1 \notin S
    <3>1. S \in SUBSET (0..n)
      BY <2>2
    <3> QED  BY <1>2, <3>1
  <2> QED  BY <2>1, <2>2
<1>3. Nat \subseteq T
  <2> HIDE DEF T
  <2> QED  BY <1>1, <1>2, SetInduction
<1> QED  BY <1>3

-----------------------------------------------------------------------------
(* Frames and positions.                                                   *)

LEMMA LengthBytes == \A n \in Nat : (n \div 256) % 256 \in 0..255 /\ n % 256 \in 0..255
<1>1. \A n \in Nat : n \div 256 \in Nat /\ n % 256 \in 0..255
  OBVIOUS
<1> QED  BY <1>1

LEMMA EncodeBytes ==
    ASSUME NEW t \in Byte, NEW b \in Seq(Byte)
    PROVE  /\ Encode(t, b) \in Seq(Byte) /\ Len(Encode(t, b)) = Len(b) + 6
           /\ Encode(t, b)[1] = 254 /\ Encode(t, b)[2] = 254
           /\ Encode(t, b)[3] = ((Len(b) + 6) \div 256) % 256
           /\ Encode(t, b)[4] = (Len(b) + 6) % 256
           /\ Encode(t, b)[5] = 0 /\ Encode(t, b)[6] = t
           /\ \A j \in 1..Len(b) : Encode(t, b)[6 + j] = b[j]
<1> DEFINE head == <<254, 254, ((Len(b) + 6) \div 256) % 256, (Len(b) + 6) % 256, 0, t>>
<1>1. Len(b) \in Nat
  OBVIOUS
<1>2. ((Len(b) + 6) \div 256) % 256 \in Byte /\ (Len(b) + 6) % 256 \in Byte
  <2>1. PICK n \in Nat : n = Len(b) + 6
    BY ONLY <1>1
  <2>2. (n \div 256) % 256 \in Byte /\ n % 256 \in Byte
    BY ONLY n \in Nat, LengthBytes DEF Byte
  <2> QED  BY ONLY <2>1, <2>2
<1>3. head \in Seq(Byte) /\ Len(head) = 6
  BY <1>2 DEF Byte
<1>4. Encode(t, b) = head \o b
  BY DEF Encode
<1>5. /\ head[1] = 254 /\ head[2] = 254 /\ head[3] = ((Len(b) + 6) \div 256) % 256
      /\ head[4] = (Len(b) + 6) % 256 /\ head[5] = 0 /\ head[6] = t
  OBVIOUS
<1> HIDE DEF head
<1>6. /\ head \o b \in Seq(Byte) /\ Len(head \o b) = 6 + Len(b)
      /\ \A j \in 1..(6 + Len(b)) : (head \o b)[j] = IF j <= 6 THEN head[j] ELSE b[j - 6]
  <2>1. /\ head \o b \in Seq(Byte) /\ Len(head \o b) = Len(head) + Len(b)
        /\ \A j \in 1..(Len(head) + Len(b)) :
              (head \o b)[j] = IF j <= Len(head) THEN head[j] ELSE b[j - Len(head)]
    BY <1>3, ConcatProperties
  <2> QED  BY <1>1, <1>3, <2>1
<1>7. \A j \in 1..Len(b) : (head \o b)[6 + j] = b[j]
  BY <1>1, <1>6
<1>8. /\ (head \o b)[1] = head[1] /\ (head \o b)[2] = head[2] /\ (head \o b)[3] = head[3]
      /\ (head \o b)[4] = head[4] /\ (head \o b)[5] = head[5] /\ (head \o b)[6] = head[6]
  BY <1>1, <1>6
<1>9. Len(head \o b) = Len(b) + 6
  BY <1>1, <1>6
<1> DEFINE f == head \o b
<1>10. /\ f[1] = 254 /\ f[2] = 254 /\ f[3] = ((Len(b) + 6) \div 256) % 256
       /\ f[4] = (Len(b) + 6) % 256 /\ f[5] = 0 /\ f[6] = t
  BY <1>5, <1>8
<1>11. f = Encode(t, b) /\ f \in Seq(Byte) /\ Len(f) = Len(b) + 6
  BY <1>4, <1>6, <1>9
<1>12. \A j \in 1..Len(b) : f[6 + j] = b[j]
  BY <1>7
<1> HIDE DEF f
<1> QED  BY ONLY <1>10, <1>11, <1>12

LEMMA EncodeType ==
    \A t \in Byte, b \in Seq(Byte) :
        /\ Encode(t, b) \in Seq(Byte) /\ Len(Encode(t, b)) = Len(b) + 6
        /\ Encode(t, b)[6] = t
BY EncodeBytes

\* The position of a code is what the map or the robot says.
LEMMA PositionFound ==
    ASSUME NEW code \in Byte, NEW logical \in Byte
    PROVE  PointOf(code, logical) \in Byte /\ IsPosition(PointOf(code, logical), code, logical)
<1>1. Len(MapLines) \in Nat /\ \A n \in 2..Len(MapLines) : n \in DOMAIN MapLines
  BY LinkAssumption
<1>2. CASE code \in DOMAIN geekplusMap
  <2>1. code \in {MapLines[n].code : n \in 2..Len(MapLines)}
    BY <1>2 DEF geekplusMap
  <2>2. Lines(code) # {} /\ Lines(code) \in SUBSET (0..Len(MapLines))
    BY <1>1, <2>1 DEF Lines
  <2>3. \E x \in Lines(code) : \A y \in Lines(code) : x >= y
    BY <1>1, <2>2, HasMax
  <2>4. Max(Lines(code)) \in Lines(code) /\ \A y \in Lines(code) : Max(Lines(code)) >= y
    BY <2>3 DEF Max
  <2>5. PICK x \in Lines(code) : x = Max(Lines(code)) /\ \A y \in Lines(code) : x >= y
    BY <2>4
  <2>6. x \in 2..Len(MapLines) /\ MapLines[x].code = code
    BY DEF Lines
  <2>7. PointOf(code, logical) = MapLines[x].tenths \div 10
    BY <1>2, <2>1, <2>5 DEF PointOf, geekplusMap
  <2>8. \A j \in (x + 1)..Len(MapLines) : MapLines[j].code # code
    <3> SUFFICES ASSUME NEW j \in (x + 1)..Len(MapLines), MapLines[j].code = code PROVE FALSE
      OBVIOUS
    <3>1. j \in Lines(code) /\ ~(x >= j)
      BY <1>1, <2>6 DEF Lines
    <3> QED  BY <2>5, <3>1
  <2>9. MapLines[x].tenths \div 10 \in Byte
    BY <1>1, <2>6, LinkAssumption
  <2> QED  BY <2>6, <2>7, <2>8, <2>9 DEF IsPosition
<1>3. CASE code \notin DOMAIN geekplusMap
  <2>1. \A n \in 2..Len(MapLines) : MapLines[n].code # code
    BY <1>3 DEF geekplusMap
  <2> QED  BY <1>3, <2>1 DEF IsPosition, PointOf
<1> QED  BY <1>2, <1>3

-----------------------------------------------------------------------------
(* Types.                                                                  *)

LEMMA FieldByte == \A b \in Seq(Byte), k \in Nat \ {0} : Field(b, k) \in Byte
<1> SUFFICES ASSUME NEW b \in Seq(Byte), NEW k \in Nat \ {0} PROVE Field(b, k) \in Byte
  OBVIOUS
<1>1. 0 \in Byte
  BY DEF Byte
<1>2. k <= Len(b) => b[k] \in Byte
  OBVIOUS
<1> QED  BY <1>1, <1>2 DEF Field

LEMMA ByteWord == \A t \in Byte : t \in Word
BY ONLY DEF Byte, Word

LEMMA RequestBytes ==
    ASSUME NEW m \in Requests
    PROVE  /\ m \in Message /\ m.type \in Byte /\ m.body \in Seq(Byte)
           /\ m.type \in Word /\ m = [type |-> m.type, body |-> m.body]
<1>1. m \in Message
  BY RequestAssumption
<1>2. m \in [type : Byte, body : Seq(Byte)]
  BY <1>1 DEF Message
<1>3. m.type \in Byte /\ m.body \in Seq(Byte)
  BY ONLY <1>2
<1>4. m = [type |-> m.type, body |-> m.body]
  BY ONLY <1>2
<1>5. \A t \in Byte : t \in Word
  BY ONLY ByteWord
<1> QED  BY ONLY <1>1, <1>3, <1>4, <1>5, Zenon

\* What messageProcess writes: nothing, or the reply to the message.
Reply(type, body) ==
    IF type = SESSION_REGISTER_INFO THEN Encode(SESSION_REGISTER_INFO, <<0>>)
    ELSE IF type = AGV_REGISTER_REQUEST
         THEN Encode(AGV_REGISTER_RESPONSE, <<Field(body, 1)>>)
         ELSE Encode(INIT_POS_RESPONSE,
                     <<Field(body, 2), PointOf(Field(body, 1), Field(body, 2))>>)

IsRequest(type) == type \in {SESSION_REGISTER_INFO, AGV_REGISTER_REQUEST, INIT_POS_REQ}

LEMMA Replies ==
    ASSUME NEW type, NEW body, messageProcess(type, body)
    PROVE  /\ IsRequest(type)  => down' = Append(down, Reply(type, body))
           /\ ~IsRequest(type) => down' = down
BY DEF messageProcess, sendSessionResponse, sendRegisterResponse, sendInitPosResponse, Write,
       Reply, IsRequest, SESSION_REGISTER_INFO, AGV_REGISTER_REQUEST, INIT_POS_REQ

\* A reply is a frame, and its type is not the one of a heartbeat.
LEMMA ReplyBytes ==
    ASSUME NEW type, NEW body \in Seq(Byte)
    PROVE  Reply(type, body) \in Seq(Byte) /\ Reply(type, body)[6] # HEART_BEAT
<1>1. Field(body, 1) \in Byte /\ Field(body, 2) \in Byte /\ 0 \in Byte
  BY FieldByte DEF Byte
<1>2. PointOf(Field(body, 1), Field(body, 2)) \in Byte
  BY <1>1, PositionFound
<1> DEFINE b1 == <<0>>
           b2 == <<Field(body, 1)>>
           b3 == <<Field(body, 2), PointOf(Field(body, 1), Field(body, 2))>>
<1>3. b1 \in Seq(Byte) /\ b2 \in Seq(Byte) /\ b3 \in Seq(Byte)
  BY ONLY <1>1, <1>2
<1>4. SESSION_REGISTER_INFO \in Byte /\ AGV_REGISTER_RESPONSE \in Byte /\ INIT_POS_RESPONSE \in Byte
  BY DEF SESSION_REGISTER_INFO, AGV_REGISTER_RESPONSE, INIT_POS_RESPONSE, Byte
<1>5. Reply(type, body) \in {Encode(SESSION_REGISTER_INFO, b1), Encode(AGV_REGISTER_RESPONSE, b2),
                             Encode(INIT_POS_RESPONSE, b3)}
  BY ONLY DEF Reply
<1> HIDE DEF b1, b2, b3
<1>6. /\ Encode(SESSION_REGISTER_INFO, b1) \in Seq(Byte)
      /\ Encode(SESSION_REGISTER_INFO, b1)[6] = SESSION_REGISTER_INFO
  BY ONLY <1>3, <1>4, EncodeType
<1>7. /\ Encode(AGV_REGISTER_RESPONSE, b2) \in Seq(Byte)
      /\ Encode(AGV_REGISTER_RESPONSE, b2)[6] = AGV_REGISTER_RESPONSE
  BY ONLY <1>3, <1>4, EncodeType
<1>8. /\ Encode(INIT_POS_RESPONSE, b3) \in Seq(Byte)
      /\ Encode(INIT_POS_RESPONSE, b3)[6] = INIT_POS_RESPONSE
  BY ONLY <1>3, <1>4, EncodeType
<1>9. /\ SESSION_REGISTER_INFO # HEART_BEAT /\ AGV_REGISTER_RESPONSE # HEART_BEAT
      /\ INIT_POS_RESPONSE # HEART_BEAT
  BY ONLY DEF SESSION_REGISTER_INFO, AGV_REGISTER_RESPONSE, INIT_POS_RESPONSE, HEART_BEAT
<1> QED  BY ONLY <1>5, <1>6, <1>7, <1>8, <1>9

LEMMA BeatBytes == Encode(HEART_BEAT, <<0>>) \in Seq(Byte) /\ Encode(HEART_BEAT, <<0>>)[6] = HEART_BEAT
<1> DEFINE b == <<0>>
<1>1. HEART_BEAT \in Byte /\ b \in Seq(Byte)
  BY DEF HEART_BEAT, Byte
<1> HIDE DEF b
<1>2. Encode(HEART_BEAT, b) \in Seq(Byte) /\ Encode(HEART_BEAT, b)[6] = HEART_BEAT
  BY ONLY <1>1, EncodeType
<1> QED  BY ONLY <1>2 DEF b

\* The body is in the buffer, also when the length in the header is too small.
LEMMA SizeFits ==
    ASSUME TypeOK, Len(buffer) >= header_msg.len - 6
    PROVE  BodySize \in 0..Len(buffer)
<1>1. header_msg.len \in Nat /\ Len(buffer) \in Nat
  BY DEF TypeOK, Word
<1>2. \A len, n \in Nat : n >= len - 6 => (IF len > 6 THEN len - 6 ELSE 0) \in 0..n
  OBVIOUS
<1> QED  BY <1>1, <1>2 DEF BodySize

Streams == wire \in Seq(Byte) /\ buffer \in Seq(Byte)

LEMMA StreamsStep == TypeOK /\ [Next]_vars => Streams'
<1> SUFFICES ASSUME TypeOK, [Next]_vars PROVE Streams'
  OBVIOUS
<1> USE DEF TypeOK, Streams
<1>1. ASSUME NEW m \in Requests, RobotSends(m) PROVE Streams'
  <2>1. Encode(m.type, m.body) \in Seq(Byte)
    BY RequestBytes, EncodeBytes
  <2> QED  BY <1>1, <2>1 DEF RobotSends, parser
<1>2. ASSUME NEW bytes \in NoiseRuns, Noise(bytes) PROVE Streams'
  <2>1. bytes \in Seq(Byte)
    BY LinkAssumption
  <2> QED  BY <1>2, <2>1 DEF Noise, parser
<1>3. CASE ReadyRead
  <2>1. PICK k \in 1..Len(wire) : /\ buffer' = buffer \o SubSeq(wire, 1, k)
                                  /\ wire' = SubSeq(wire, k + 1, Len(wire))
    BY <1>3 DEF ReadyRead
  <2>2. Len(wire) \in Nat /\ k \in 0..Len(wire)
    OBVIOUS
  <2>3. SubSeq(wire, 1, k) \in Seq(Byte) /\ SubSeq(wire, k + 1, Len(wire)) \in Seq(Byte)
    BY <2>2, TakeProperties, DropProperties
  <2> QED  BY <2>1, <2>3
<1>4. ASSUME NEW n \in 0..Len(buffer), Drop(n), wire' = wire PROVE Streams'
  BY <1>4, DropProperties DEF Drop
<1>5. Len(buffer) \in Nat /\ (buffer # << >> => 1 \in 0..Len(buffer))
  OBVIOUS
<1>6. CASE WaitingPrefix1 \/ WaitingPrefix2
  BY <1>4, <1>5, <1>6 DEF WaitingPrefix1, WaitingPrefix2, Unpacking, Read
<1>7. CASE WaitingHeader
  BY <1>4, <1>5, <1>7 DEF WaitingHeader, Read
<1>8. CASE WaitingBody
  <2>1. BodySize \in 0..Len(buffer)
    BY <1>8, SizeFits DEF WaitingBody
  <2> QED  BY <1>4, <1>8, <2>1 DEF WaitingBody, Read
<1>9. CASE SlotEnds \/ timer_slot \/ UNCHANGED vars
  BY <1>9 DEF SlotEnds, timer_slot, parser, vars
<1> QED  BY <1>1, <1>2, <1>3, <1>6, <1>7, <1>8, <1>9 DEF Next, Slot

LEMMA HeaderValues ==
    ASSUME buffer \in Seq(Byte), Len(buffer) >= 4
    PROVE  /\ buffer[1] * 256 + buffer[2] \in Word
           /\ buffer[3] * 256 + buffer[4] \in Word
<1>1. /\ buffer[1] \in 0..255 /\ buffer[2] \in 0..255 /\ buffer[3] \in 0..255
      /\ buffer[4] \in 0..255
  <2>1. \A j \in 1..4 : j \in 1..Len(buffer)
    OBVIOUS
  <2>2. \A j \in 1..Len(buffer) : buffer[j] \in Byte
    OBVIOUS
  <2>3. \A j \in 1..4 : buffer[j] \in 0..255
    BY ONLY <2>1, <2>2 DEF Byte
  <2> QED  BY ONLY <2>3
<1> DEFINE a == buffer[1]
           b == buffer[2]
           c == buffer[3]
           d == buffer[4]
<1>2. a \in 0..255 /\ b \in 0..255 /\ c \in 0..255 /\ d \in 0..255
  BY ONLY <1>1
<1> HIDE DEF a, b, c, d
<1>3. a * 256 + b \in Word
  BY ONLY <1>2 DEF Word
<1>4. c * 256 + d \in Word
  BY ONLY <1>2 DEF Word
<1> QED  BY ONLY <1>3, <1>4 DEF a, b, c, d

Outputs ==
    /\ timer \in BOOLEAN /\ agvStatus \in Seq(Byte) /\ down \in Seq(Seq(Byte))
    /\ gui \in Seq([type : Word, body : Seq(Byte)])

LEMMA ProcessTypes ==
    ASSUME Outputs, NEW type \in Word, NEW body \in Seq(Byte), messageProcess(type, body)
    PROVE  Outputs'
<1>1. down' \in Seq(Seq(Byte))
  <2>1. CASE IsRequest(type)
    <3>1. down' = Append(down, Reply(type, body)) /\ Reply(type, body) \in Seq(Byte)
      BY <2>1, Replies, ReplyBytes
    <3>2. down \in Seq(Seq(Byte))
      BY DEF Outputs
    <3> QED  BY ONLY <3>1, <3>2, AppendType
  <2>2. CASE ~IsRequest(type)
    BY <2>2, Replies DEF Outputs
  <2> QED  BY <2>1, <2>2
<1>2. timer' \in BOOLEAN /\ agvStatus' \in Seq(Byte)
  BY DEF messageProcess, Outputs
<1>3. gui' \in Seq([type : Word, body : Seq(Byte)])
  <2> DEFINE s == [type |-> type, body |-> body]
             T == [type : Word, body : Seq(Byte)]
  <2>1. s \in T
    OBVIOUS
  <2>2. gui' = Append(gui, s) \/ gui' = gui
    BY DEF messageProcess
  <2>3. gui \in Seq(T)
    BY DEF Outputs
  <2> HIDE DEF s, T
  <2>4. gui' \in Seq(T)
    BY ONLY <2>1, <2>2, <2>3, AppendType
  <2> QED  BY <2>4 DEF T
<1> QED  BY <1>1, <1>2, <1>3 DEF Outputs

LEMMA TypeInit == Init => TypeOK
<1> SUFFICES ASSUME Init PROVE TypeOK
  OBVIOUS
<1>1. noise \in 0..MaxNoise
  BY LinkAssumption DEF Init
<1>2. header_msg \in [len : Word, type : Word]
  <2>1. 0 \in Word
    BY DEF Word
  <2> QED  BY <2>1 DEF Init
<1>3. \A S : << >> \in Seq(S)
  OBVIOUS
<1> QED  BY <1>1, <1>2, <1>3 DEF Init, TypeOK

LEMMA TypeStep == TypeOK /\ [Next]_vars => TypeOK'
<1> SUFFICES ASSUME TypeOK, [Next]_vars PROVE TypeOK'
  OBVIOUS
<1>1. Streams'
  BY StreamsStep
<1> USE <1>1 DEF TypeOK, Streams
<1>2. ASSUME NEW m \in Requests, RobotSends(m) PROVE TypeOK'
  BY <1>2 DEF RobotSends, parser, effects
<1>3. ASSUME NEW bytes \in NoiseRuns, Noise(bytes) PROVE TypeOK'
  <2>1. noise' \in 0..MaxNoise
    BY <1>3, LinkAssumption DEF Noise
  <2> QED  BY <1>3, <2>1 DEF Noise, parser, effects
<1>4. CASE ReadyRead
  BY <1>4 DEF ReadyRead, effects
<1>5. CASE WaitingPrefix1
  BY <1>5 DEF WaitingPrefix1, Read, effects
<1>6. CASE WaitingPrefix2
  BY <1>6 DEF WaitingPrefix2, Read, effects
<1>7. CASE WaitingHeader
  <2>1. header_msg' \in [len : Word, type : Word]
    BY <1>7, HeaderValues DEF WaitingHeader
  <2> QED  BY <1>7, <2>1 DEF WaitingHeader, Read, effects
<1>8. CASE WaitingBody
  <2> DEFINE body == SubSeq(buffer, 1, BodySize)
  <2>1. BodySize \in 0..Len(buffer)
    BY <1>8, SizeFits DEF WaitingBody
  <2>2. body \in Seq(Byte) /\ header_msg.type \in Word
    BY <2>1, TakeProperties
  <2>3. /\ messageProcess(header_msg.type, body)
        /\ processed' = Append(processed, [type |-> header_msg.type, body |-> body])
    BY <1>8 DEF WaitingBody
  <2> HIDE DEF body
  <2>4. Outputs'
    BY <2>2, <2>3, ProcessTypes DEF Outputs
  <2>5. processed' \in Seq([type : Word, body : Seq(Byte)])
    BY <2>2, <2>3
  <2> QED  BY <1>8, <2>4, <2>5 DEF WaitingBody, Read, Outputs
<1>9. CASE SlotEnds
  BY <1>9 DEF SlotEnds, parser, effects
<1>10. CASE timer_slot
  BY <1>10, BeatBytes DEF timer_slot, parser, sendHeatbeatResponse, Write
<1>11. CASE UNCHANGED vars
  BY <1>11 DEF vars, parser, effects
<1> QED  BY <1>2, <1>3, <1>4, <1>5, <1>6, <1>7, <1>8, <1>9, <1>10, <1>11 DEF Next, Slot

\* Every variable of the connection keeps its type, whatever the robot and TCP do.
THEOREM TypeCorrect == Spec => []TypeOK
<1>1. TypeOK /\ [Next]_vars => TypeOK'
  BY TypeStep
<1> QED  BY TypeInit, <1>1, PTL DEF Spec

-----------------------------------------------------------------------------
(* What is still to be read is the frames of the messages that are not yet *)
(* dispatched, without what the slot has read of the first of them.        *)

Stream == buffer \o wire

\* The frame of ms[k] lies in s after position at[k], for each k after p; a position
\* below zero is that of a frame that has been read in part.
Laid(at, p, ms, s) ==
    /\ at \in [Nat -> Int]
    /\ \A k \in (p + 1)..Len(ms) : at[k + 1] = at[k] + (Len(ms[k].body) + 6)
    /\ at[Len(ms) + 1] = Len(s)
    /\ \A k \in (p + 1)..(Len(ms) + 1) : at[k] <= Len(s)
    /\ \A k \in (p + 1)..Len(ms) : \A j \in 1..(Len(ms[k].body) + 6) :
          at[k] + j >= 1 => s[at[k] + j] = Encode(ms[k].type, ms[k].body)[j]

LEMMA Within ==
    \A a \in Int : \A c, d, l, j \in Nat :
        (d <= l /\ a + c <= l /\ j <= c /\ (a - d) + j >= 1)
            => /\ (a - d) + j \in 1..(l - d) /\ d + ((a - d) + j) = a + j /\ a + j >= 1
OBVIOUS

LEMMA BodyLength == \A m \in Requests : Len(m.body) \in Nat
BY RequestBytes

LEMMA LaidSend ==
    ASSUME NEW ms \in Seq(Requests), NEW m \in Requests, NEW s \in Seq(Byte),
           NEW p \in 0..Len(ms), NEW at, Laid(at, p, ms, s)
    PROVE  \E at2 : /\ Laid(at2, p, Append(ms, m), s \o Encode(m.type, m.body))
                    /\ at2[p + 1] = at[p + 1]
<1>1. PICK L \in Nat : L = Len(ms)
  OBVIOUS
<1>2. PICK l \in Nat : l = Len(s)
  OBVIOUS
<1>3. PICK d \in Nat : d = Len(m.body) + 6
  BY BodyLength
<1>4. PICK e : e = Encode(m.type, m.body)
  OBVIOUS
<1>5. e \in Seq(Byte) /\ Len(e) = d
  <2>1. m.type \in Byte /\ m.body \in Seq(Byte)
    BY RequestBytes
  <2> QED  BY ONLY <1>3, <1>4, <2>1, EncodeType
<1>6. PICK ms2 : ms2 = Append(ms, m)
  OBVIOUS
<1>7. Len(ms2) = L + 1 /\ ms2[L + 1] = m /\ \A k \in 1..L : ms2[k] = ms[k]
  BY ONLY <1>1, <1>6, ms \in Seq(Requests), m \in Requests
<1>8. PICK s2 : s2 = s \o e
  OBVIOUS
<1>9. /\ Len(s2) = l + d
      /\ \A j \in 1..l : s2[j] = s[j]
      /\ \A j \in 1..d : s2[l + j] = e[j]
  <2>1. /\ Len(s2) = l + d
        /\ \A j \in 1..(l + d) : s2[j] = IF j <= l THEN s[j] ELSE e[j - l]
    BY ONLY <1>2, <1>5, <1>8, s \in Seq(Byte), ConcatProperties
  <2>2. \A j \in 1..l : j \in 1..(l + d) /\ j <= l
    BY ONLY l \in Nat, d \in Nat
  <2>3. \A j \in 1..d : l + j \in 1..(l + d) /\ ~(l + j <= l) /\ (l + j) - l = j
    BY ONLY l \in Nat, d \in Nat
  <2>4. \A j \in 1..l : s2[j] = s[j]
    BY ONLY <2>1, <2>2
  <2>5. \A j \in 1..d : s2[l + j] = e[j]
    BY ONLY <2>1, <2>3
  <2> QED  BY ONLY <2>1, <2>4, <2>5
<1>10. /\ at \in [Nat -> Int] /\ at[L + 1] = l
       /\ \A k \in (p + 1)..L : at[k + 1] = at[k] + (Len(ms[k].body) + 6)
       /\ \A k \in (p + 1)..(L + 1) : at[k] <= l
       /\ \A k \in (p + 1)..L : \A j \in 1..(Len(ms[k].body) + 6) :
             at[k] + j >= 1 => s[at[k] + j] = Encode(ms[k].type, ms[k].body)[j]
  BY <1>1, <1>2 DEF Laid
<1>11. p \in Nat /\ p <= L
  BY <1>1
<1>12. PICK at2 : at2 = [at EXCEPT ![L + 2] = l + d]
  OBVIOUS
<1>13. /\ at2 \in [Nat -> Int] /\ at2[L + 2] = l + d
       /\ \A k \in Nat : at[k] \in Int /\ (k # L + 2 => at2[k] = at[k])
  BY ONLY <1>10, <1>12, L \in Nat, l \in Nat, d \in Nat
<1>14. \A k \in (p + 1)..(L + 1) : k \in Nat /\ k # L + 2
  BY ONLY <1>11, L \in Nat
<1>15. \A k \in (p + 1)..L : /\ k \in (p + 1)..(L + 1) /\ k + 1 \in (p + 1)..(L + 1)
                             /\ k \in 1..L
  BY ONLY <1>11, L \in Nat
<1>16. \A k \in (p + 1)..(L + 1) : at2[k] = at[k] /\ at[k] \in Int
  BY ONLY <1>13, <1>14
<1>17. ASSUME NEW k \in (p + 1)..(L + 1)
       PROVE  at2[k + 1] = at2[k] + (Len(ms2[k].body) + 6)
  <2>1. CASE k = L + 1
    <3>1. k + 1 = L + 2 /\ at2[k] = l /\ ms2[k] = m
      BY ONLY <1>7, <1>10, <1>16, <2>1, L \in Nat, k \in (p + 1)..(L + 1)
    <3> QED  BY ONLY <1>3, <1>13, <3>1
  <2>2. CASE k # L + 1
    <3>1. k \in (p + 1)..L
      BY ONLY <1>11, <2>2, L \in Nat, k \in (p + 1)..(L + 1)
    <3>2. ms2[k] = ms[k] /\ at2[k] = at[k] /\ at2[k + 1] = at[k + 1]
      BY ONLY <1>7, <1>15, <1>16, <3>1
    <3> QED  BY ONLY <1>10, <3>1, <3>2
  <2> QED  BY ONLY <2>1, <2>2
<1>18. at2[Len(ms2) + 1] = Len(s2)
  <2>1. (L + 1) + 1 = L + 2
    BY ONLY L \in Nat
  <2> QED  BY ONLY <1>7, <1>9, <1>13, <2>1
<1>19. ASSUME NEW k \in (p + 1)..(L + 2) PROVE at2[k] <= l + d
  <2>1. CASE k = L + 2
    BY ONLY <1>13, <2>1, l \in Nat, d \in Nat
  <2>2. CASE k # L + 2
    <3>1. k \in (p + 1)..(L + 1)
      BY ONLY <1>11, <2>2, L \in Nat, k \in (p + 1)..(L + 2)
    <3>2. at2[k] \in Int /\ at2[k] <= l
      BY ONLY <1>10, <1>16, <3>1
    <3> QED  BY ONLY <3>2, l \in Nat, d \in Nat
  <2> QED  BY ONLY <2>1, <2>2
<1>20. ASSUME NEW k \in (p + 1)..(L + 1), NEW j \in 1..(Len(ms2[k].body) + 6), at2[k] + j >= 1
       PROVE  s2[at2[k] + j] = Encode(ms2[k].type, ms2[k].body)[j]
  <2>1. CASE k = L + 1
    <3>1. at2[k] = l /\ ms2[k] = m
      BY ONLY <1>7, <1>10, <1>16, <2>1, k \in (p + 1)..(L + 1)
    <3>2. j \in 1..d
      BY ONLY <1>3, <3>1, j \in 1..(Len(ms2[k].body) + 6)
    <3> QED  BY ONLY <1>4, <1>9, <3>1, <3>2
  <2>2. CASE k # L + 1
    <3>1. k \in (p + 1)..L
      BY ONLY <1>11, <2>2, L \in Nat, k \in (p + 1)..(L + 1)
    <3>2. ms2[k] = ms[k] /\ at2[k] = at[k] /\ k + 1 \in (p + 1)..(L + 1)
      BY ONLY <1>7, <1>15, <1>16, <3>1
    <3>3. PICK c \in Nat : c = Len(ms[k].body) + 6
      <4>1. ms[k] \in Requests
        BY ONLY <1>1, <1>15, <3>1, ms \in Seq(Requests)
      <4> QED  BY ONLY <4>1, BodyLength
    <3>4. PICK a \in Int : a = at[k]
      BY ONLY <1>15, <1>16, <3>1
    <3>5. a + c <= l
      <4>1. at[k + 1] = a + c /\ at[k + 1] <= l
        BY ONLY <1>10, <3>1, <3>2, <3>3, <3>4
      <4> QED  BY ONLY <4>1
    <3>6. j \in 1..c /\ a + j >= 1
      BY ONLY <1>20, <3>2, <3>3, <3>4, j \in 1..(Len(ms2[k].body) + 6)
    <3>7. a + j \in 1..l
      BY ONLY <3>5, <3>6, a \in Int, c \in Nat, l \in Nat
    <3>8. s[a + j] = Encode(ms[k].type, ms[k].body)[j]
      BY ONLY <1>10, <3>1, <3>3, <3>4, <3>6
    <3> QED  BY ONLY <1>9, <3>2, <3>4, <3>7, <3>8
  <2> QED  BY ONLY <2>1, <2>2
<1>21. at2[p + 1] = at[p + 1]
  <2>1. p + 1 \in (p + 1)..(L + 1)
    BY ONLY <1>11, L \in Nat
  <2> QED  BY ONLY <1>16, <2>1
<1>22. Laid(at2, p, ms2, s2)
  <2>1. (L + 1) + 1 = L + 2
    BY ONLY L \in Nat
  <2> QED  BY ONLY <1>7, <1>9, <1>13, <1>17, <1>18, <1>19, <1>20, <2>1 DEF Laid
<1> QED  BY ONLY <1>4, <1>6, <1>8, <1>21, <1>22

LEMMA LaidDrop ==
    ASSUME NEW ms \in Seq(Requests), NEW s \in Seq(Byte), NEW p \in 0..Len(ms),
           NEW at, Laid(at, p, ms, s), NEW d \in 0..Len(s)
    PROVE  \E at2 : /\ Laid(at2, p, ms, SubSeq(s, d + 1, Len(s)))
                    /\ \A k \in Nat : at2[k] = at[k] - d
<1>1. PICK L \in Nat : L = Len(ms)
  OBVIOUS
<1>2. PICK l \in Nat : l = Len(s)
  OBVIOUS
<1>3. p \in Nat /\ p <= L /\ d \in Nat /\ d <= l
  BY <1>1, <1>2
<1>4. PICK s2 : s2 = SubSeq(s, d + 1, Len(s))
  OBVIOUS
<1>5. Len(s2) = l - d /\ \A j \in 1..(l - d) : s2[j] = s[d + j]
  BY ONLY <1>2, <1>4, s \in Seq(Byte), d \in 0..Len(s), DropProperties
<1>6. /\ at \in [Nat -> Int] /\ at[L + 1] = l
      /\ \A k \in (p + 1)..L : at[k + 1] = at[k] + (Len(ms[k].body) + 6)
      /\ \A k \in (p + 1)..(L + 1) : at[k] <= l
      /\ \A k \in (p + 1)..L : \A j \in 1..(Len(ms[k].body) + 6) :
            at[k] + j >= 1 => s[at[k] + j] = Encode(ms[k].type, ms[k].body)[j]
  BY <1>1, <1>2 DEF Laid
<1>7. PICK at2 : at2 = [k \in Nat |-> at[k] - d]
  OBVIOUS
<1>8. \A k \in Nat : at[k] \in Int /\ at2[k] = at[k] - d
  BY ONLY <1>6, <1>7
<1>9. at2 \in [Nat -> Int]
  <2>1. \A k \in Nat : at[k] - d \in Int
    BY ONLY <1>3, <1>8
  <2> QED  BY ONLY <1>7, <2>1
<1>10. \A k \in (p + 1)..(L + 1) : k \in Nat
  BY ONLY <1>3, L \in Nat
<1>11. \A k \in (p + 1)..L : /\ k \in (p + 1)..(L + 1) /\ k + 1 \in (p + 1)..(L + 1)
                             /\ k \in 1..L
  BY ONLY <1>3, L \in Nat
<1>12. ASSUME NEW k \in (p + 1)..L
       PROVE  \E a \in Int, c \in Nat :
                 /\ a = at[k] /\ c = Len(ms[k].body) + 6 /\ a + c <= l
                 /\ at2[k] = a - d /\ at2[k + 1] = (a + c) - d
  <2>1. PICK a \in Int : a = at[k]
    BY ONLY <1>8, <1>10, <1>11, k \in (p + 1)..L
  <2>2. PICK c \in Nat : c = Len(ms[k].body) + 6
    <3>1. ms[k] \in Requests
      BY ONLY <1>1, <1>11, k \in (p + 1)..L, ms \in Seq(Requests)
    <3> QED  BY ONLY <3>1, BodyLength
  <2>3. at[k + 1] = a + c /\ at[k + 1] <= l
    BY ONLY <1>6, <1>11, <2>1, <2>2, k \in (p + 1)..L
  <2>4. at2[k] = a - d /\ at2[k + 1] = at[k + 1] - d
    BY ONLY <1>8, <1>10, <1>11, <2>1, k \in (p + 1)..L
  <2> QED  BY ONLY <2>1, <2>2, <2>3, <2>4, a \in Int, c \in Nat
<1>13. ASSUME NEW k \in (p + 1)..L PROVE at2[k + 1] = at2[k] + (Len(ms[k].body) + 6)
  <2>1. PICK a \in Int, c \in Nat :
           /\ c = Len(ms[k].body) + 6 /\ at2[k] = a - d /\ at2[k + 1] = (a + c) - d
    BY ONLY <1>12, k \in (p + 1)..L
  <2>2. (a + c) - d = (a - d) + c
    BY ONLY <1>3, a \in Int, c \in Nat
  <2> QED  BY ONLY <2>1, <2>2
<1>14. at2[L + 1] = Len(s2)
  <2>1. L + 1 \in Nat
    BY ONLY L \in Nat
  <2> QED  BY ONLY <1>5, <1>6, <1>8, <2>1
<1>15. ASSUME NEW k \in (p + 1)..(L + 1) PROVE at2[k] <= Len(s2)
  <2>1. PICK a \in Int : a = at[k] /\ a <= l /\ at2[k] = a - d
    BY ONLY <1>6, <1>8, <1>10, k \in (p + 1)..(L + 1)
  <2>2. a - d <= l - d
    BY ONLY <1>3, <2>1, a \in Int, l \in Nat
  <2> QED  BY ONLY <1>5, <2>1, <2>2
<1>16. ASSUME NEW k \in (p + 1)..L, NEW j \in 1..(Len(ms[k].body) + 6), at2[k] + j >= 1
       PROVE  s2[at2[k] + j] = Encode(ms[k].type, ms[k].body)[j]
  <2>1. PICK a \in Int, c \in Nat :
           a = at[k] /\ c = Len(ms[k].body) + 6 /\ a + c <= l /\ at2[k] = a - d
    BY ONLY <1>12, k \in (p + 1)..L
  <2>2. j \in 1..c /\ (a - d) + j >= 1
    BY ONLY <1>16, <2>1, j \in 1..(Len(ms[k].body) + 6)
  <2>3. /\ (a - d) + j \in 1..(l - d) /\ d + ((a - d) + j) = a + j /\ a + j >= 1
    <3>1. j \in Nat /\ j <= c
      BY ONLY <2>2, c \in Nat
    <3>2. a + c <= l
      BY ONLY <2>1
    <3> QED  BY ONLY <1>3, <2>2, <3>1, <3>2, Within, a \in Int, c \in Nat, l \in Nat
  <2>4. s2[(a - d) + j] = s[a + j]
    BY ONLY <1>5, <2>3
  <2>5. s[a + j] = Encode(ms[k].type, ms[k].body)[j]
    BY ONLY <1>6, <2>1, <2>2, <2>3, k \in (p + 1)..L
  <2> QED  BY ONLY <2>1, <2>4, <2>5
<1>17. Laid(at2, p, ms, s2)
  BY ONLY <1>1, <1>9, <1>13, <1>14, <1>15, <1>16 DEF Laid
<1> QED  BY ONLY <1>4, <1>8, <1>17

LEMMA LaidNext ==
    ASSUME NEW ms \in Seq(Requests), NEW s, NEW p \in Nat, NEW at, Laid(at, p, ms, s), p < Len(ms)
    PROVE  Laid(at, p + 1, ms, s) /\ at[p + 2] = at[p + 1] + (Len(ms[p + 1].body) + 6)
<1>1. Len(ms) \in Nat /\ p + 1 \in (p + 1)..Len(ms) /\ (p + 1) + 1 = p + 2
  OBVIOUS
<1>2. \A k : k \in (p + 1 + 1)..Len(ms) => k \in (p + 1)..Len(ms)
  OBVIOUS
<1>3. \A k : k \in (p + 1 + 1)..(Len(ms) + 1) => k \in (p + 1)..(Len(ms) + 1)
  OBVIOUS
<1>4. at[(p + 1) + 1] = at[p + 1] + (Len(ms[p + 1].body) + 6)
  BY <1>1 DEF Laid
<1> QED  BY <1>1, <1>2, <1>3, <1>4 DEF Laid

\* How many bytes of the next frame the slot has read.
Consumed ==
    CASE unpackingStatus = "prefix1" -> 0
      [] unpackingStatus = "prefix2" -> 1
      [] unpackingStatus = "header"  -> 2
      [] unpackingStatus = "body"    -> 6

Handled ==
    /\ Len(processed) <= Len(sent)
    /\ \A k \in 1..Len(processed) : processed[k] = sent[k]

\* The message whose frame the slot is in.
Underway == sent[Len(processed) + 1]
HeaderRead ==
    unpackingStatus = "body" =>
        /\ Len(processed) < Len(sent)
        /\ header_msg = [len |-> Len(Underway.body) + 6, type |-> Underway.type]

Framed ==
    \E at : Laid(at, Len(processed), sent, Stream) /\ at[Len(processed) + 1] = 0 - Consumed

LinkInv == TypeOK /\ Handled /\ HeaderRead /\ Framed

LEMMA Lengths ==
    ASSUME TypeOK
    PROVE  /\ Len(processed) \in Nat /\ Len(sent) \in Nat /\ sent \in Seq(Requests)
           /\ Stream \in Seq(Byte) /\ Len(Stream) = Len(buffer) + Len(wire)
           /\ Len(buffer) \in Nat /\ Len(wire) \in Nat /\ Consumed \in {0, 1, 2, 6}
           /\ \A j \in 1..Len(buffer) : Stream[j] = buffer[j]
           /\ buffer \in Seq(Byte) /\ wire \in Seq(Byte)
<1>1. buffer \in Seq(Byte) /\ wire \in Seq(Byte)
  BY DEF TypeOK
<1>2. /\ Stream \in Seq(Byte) /\ Len(Stream) = Len(buffer) + Len(wire)
      /\ \A j \in 1..Len(buffer) : Stream[j] = buffer[j]
  BY <1>1, ConcatProperties DEF Stream
<1>3. /\ Len(processed) \in Nat /\ Len(sent) \in Nat /\ sent \in Seq(Requests)
      /\ Len(buffer) \in Nat /\ Len(wire) \in Nat
  BY DEF TypeOK
<1>4. Consumed \in {0, 1, 2, 6}
  BY DEF TypeOK, Consumed
<1> QED  BY <1>1, <1>2, <1>3, <1>4

\* A byte in the buffer is the next one of the first frame not yet dispatched.
LEMMA NextBytes ==
    ASSUME TypeOK, Handled, Framed, buffer # << >>
    PROVE  /\ Len(processed) < Len(sent)
           /\ \A j \in 1..(Len(Underway.body) + 6 - Consumed) :
                 j <= Len(buffer) =>
                     buffer[j] = Encode(Underway.type, Underway.body)[Consumed + j]
<1> DEFINE p == Len(processed)
           c == Consumed
<1>1. PICK at : Laid(at, p, sent, Stream) /\ at[p + 1] = 0 - c
  BY DEF Framed
<1>2. p \in Nat /\ Len(sent) \in Nat /\ p <= Len(sent) /\ c \in {0, 1, 2, 6}
  BY Lengths DEF Handled
<1>3. Len(buffer) >= 1 /\ Len(Stream) >= 1
  BY Lengths
<1>4. p < Len(sent)
  <2> SUFFICES ASSUME p = Len(sent) PROVE FALSE
    BY <1>2
  <2>1. Len(Stream) = 0 - c
    BY <1>1 DEF Laid
  <2> QED  BY <1>2, <1>3, <2>1
<1>5. ASSUME NEW j \in 1..(Len(Underway.body) + 6 - c), j <= Len(buffer)
      PROVE  buffer[j] = Encode(Underway.type, Underway.body)[c + j]
  <2>1. Len(Underway.body) \in Nat
    <3>1. Underway \in Requests
      BY <1>2, <1>4, Lengths DEF Underway
    <3> QED  BY <3>1, RequestBytes
  <2>2. c + j \in 1..(Len(Underway.body) + 6) /\ (0 - c) + (c + j) = j /\ j >= 1
    BY <1>2, <2>1
  <2>3. p + 1 \in (p + 1)..Len(sent)
    BY <1>2, <1>4
  <2>4. at[p + 1] + (c + j) >= 1 =>
            Stream[at[p + 1] + (c + j)] = Encode(Underway.type, Underway.body)[c + j]
    BY <1>1, <2>2, <2>3 DEF Laid, Underway
  <2>5. Stream[j] = Encode(Underway.type, Underway.body)[c + j]
    BY <1>1, <2>2, <2>4
  <2> QED  BY <1>5, <2>5, Lengths
<1> QED  BY <1>4, <1>5

\* Reading n bytes of the buffer.
LEMMA FramedDrop ==
    ASSUME TypeOK, Handled, NEW at, Laid(at, Len(processed), sent, Stream),
           NEW n \in 0..Len(buffer), Drop(n), wire' = wire, sent' = sent
    PROVE  \E at2 : /\ Laid(at2, Len(processed), sent', Stream')
                    /\ \A k \in Nat : at2[k] = at[k] - n
<1>1. Stream' = SubSeq(Stream, n + 1, Len(Stream))
  BY Lengths, DropStream DEF Stream, Drop
<1>2. n \in 0..Len(Stream) /\ Len(processed) \in 0..Len(sent)
  BY Lengths DEF Handled
<1>3. sent \in Seq(Requests) /\ Stream \in Seq(Byte)
  BY Lengths
<1>4. \E at2 : /\ Laid(at2, Len(processed), sent, SubSeq(Stream, n + 1, Len(Stream)))
               /\ \A k \in Nat : at2[k] = at[k] - n
  BY ONLY <1>2, <1>3, Laid(at, Len(processed), sent, Stream), LaidDrop
<1> QED  BY ONLY <1>1, <1>4, sent' = sent

\* The bytes of a frame.
IsFrame(e, t, b) ==
    /\ e[1] = 254 /\ e[2] = 254 /\ e[3] = ((Len(b) + 6) \div 256) % 256
    /\ e[4] = (Len(b) + 6) % 256 /\ e[5] = 0 /\ e[6] = t
    /\ \A j \in 1..Len(b) : e[6 + j] = b[j]

LEMMA EncodeFrame == \A t \in Byte, b \in Seq(Byte) : IsFrame(Encode(t, b), t, b)
BY EncodeBytes DEF IsFrame

Frame == Encode(Underway.type, Underway.body)

LEMMA FrameOf ==
    ASSUME TypeOK, Handled, Len(processed) < Len(sent)
    PROVE  /\ Underway \in Requests /\ Underway.type \in Byte /\ Underway.body \in Seq(Byte)
           /\ Len(Underway.body) \in Nat /\ Len(Underway.body) + 6 \in Word
           /\ IsFrame(Frame, Underway.type, Underway.body)
<1>1. Underway \in Requests
  BY Lengths DEF Underway
<1>2. Underway.type \in Byte /\ Underway.body \in Seq(Byte)
  BY <1>1, RequestBytes
<1>3. Len(Underway.body) + 6 \in Word
  BY <1>1, RequestAssumption
<1>4. Len(Underway.body) \in Nat
  BY <1>2
<1>5. IsFrame(Frame, Underway.type, Underway.body)
  BY ONLY <1>2, EncodeFrame DEF Frame
<1> QED  BY <1>1, <1>2, <1>3, <1>4, <1>5

\* The body the slot takes out of the buffer is the one of the message it is in.
LEMMA BodyTaken ==
    ASSUME LinkInv, WaitingBody
    PROVE  /\ Len(processed) < Len(sent) /\ BodySize = Len(Underway.body)
           /\ BodySize \in 0..Len(buffer)
           /\ SubSeq(buffer, 1, BodySize) = Underway.body /\ header_msg.type = Underway.type
           /\ processed' = Append(processed, Underway)
<1>1. /\ unpackingStatus = "body" /\ buffer # << >> /\ Len(buffer) >= header_msg.len - 6
      /\ processed' = Append(processed, [type |-> header_msg.type,
                                         body |-> SubSeq(buffer, 1, BodySize)])
  BY DEF WaitingBody, Unpacking
<1>2. /\ Len(processed) < Len(sent) /\ header_msg.len = Len(Underway.body) + 6
      /\ header_msg.type = Underway.type
  BY <1>1 DEF LinkInv, HeaderRead
<1>3. Underway \in Requests /\ Len(Underway.body) \in Nat /\ Underway.body \in Seq(Byte)
  BY <1>2, FrameOf DEF LinkInv
<1>4. BodySize = Len(Underway.body) /\ BodySize \in 0..Len(buffer) /\ BodySize \in Nat
  BY <1>1, <1>2, <1>3, Lengths DEF BodySize, LinkInv
<1> DEFINE b == SubSeq(buffer, 1, BodySize)
<1>5. /\ b \in Seq(Byte) /\ Len(b) = BodySize /\ \A j \in 1..BodySize : b[j] = buffer[j]
  BY <1>4, Lengths, TakeProperties DEF LinkInv
<1> HIDE DEF b
<1>6. Consumed = 6
  BY <1>1 DEF Consumed
<1>7. ASSUME NEW j \in 1..Len(b) PROVE b[j] = Underway.body[j]
  <2>1. /\ j \in 1..(Len(Underway.body) + 6 - Consumed) /\ j <= Len(buffer)
        /\ j \in 1..BodySize /\ j \in 1..Len(Underway.body)
    BY <1>3, <1>4, <1>5, <1>6, Lengths DEF LinkInv
  <2>2. buffer[j] = Encode(Underway.type, Underway.body)[6 + j]
    BY <1>1, <1>6, <2>1, NextBytes DEF LinkInv
  <2>3. Encode(Underway.type, Underway.body)[6 + j] = Underway.body[j]
    BY <1>2, <2>1, FrameOf DEF LinkInv, IsFrame, Frame
  <2> QED  BY <1>5, <2>1, <2>2, <2>3
<1>8. b = Underway.body
  BY <1>3, <1>4, <1>5, <1>7, SeqEqual
<1>9. [type |-> header_msg.type, body |-> b] = Underway
  BY <1>2, <1>3, <1>8, RequestBytes
<1> QED  BY <1>1, <1>2, <1>4, <1>8, <1>9 DEF b

\* Only WaitingBody dispatches a message.
LEMMA HandledStep ==
    ASSUME LinkInv, [Next]_vars
    PROVE  /\ Handled'
           /\ \/ processed' = processed /\ sent' = sent
              \/ /\ processed' = Append(processed, Underway) /\ sent' = sent
                 /\ Len(processed) < Len(sent)
              \/ \E m \in Requests : processed' = processed /\ sent' = Append(sent, m)
<1>1. /\ Len(processed) \in Nat /\ Len(sent) \in Nat /\ Handled
      /\ sent \in Seq(Requests)
  BY Lengths DEF LinkInv
<1>2. CASE WaitingBody
  <2>1. sent' = sent /\ processed' = Append(processed, Underway) /\ Len(processed) < Len(sent)
    BY <1>2, BodyTaken DEF WaitingBody, Read
  <2>2. processed \in Seq([type : Word, body : Seq(Byte)])
    BY DEF LinkInv, TypeOK
  <2>3. /\ Len(processed') = Len(processed) + 1 /\ processed'[Len(processed) + 1] = Underway
        /\ \A k \in 1..Len(processed) : processed'[k] = processed[k]
    BY <2>1, <2>2
  <2> QED  BY <1>1, <2>1, <2>3 DEF Handled, Underway
<1>3. CASE \E m \in Requests : RobotSends(m)
  <2>1. PICK m \in Requests : sent' = Append(sent, m) /\ processed' = processed
    BY <1>3 DEF RobotSends
  <2>2. Len(sent') = Len(sent) + 1 /\ \A k \in 1..Len(sent) : sent'[k] = sent[k]
    BY <1>1, <2>1
  <2> QED  BY <1>1, <2>1, <2>2 DEF Handled
<1>4. CASE UNCHANGED <<sent, processed>>
  BY <1>1, <1>4 DEF Handled
<1> QED  BY <1>2, <1>3, <1>4 DEF Next, Noise, ReadyRead, Slot, WaitingPrefix1,
             WaitingPrefix2, WaitingHeader, SlotEnds, timer_slot, effects, vars, Read

LEMMA LengthValue ==
    ASSUME NEW n \in Word
    PROVE  ((n \div 256) % 256) * 256 + (n % 256) = n
<1>1. n \div 256 \in 0..255
  BY SMT DEF Word
<1>2. \A d \in 0..255 : d % 256 = d
  OBVIOUS
<1>3. (n \div 256) * 256 + (n % 256) = n
  BY SMT DEF Word
<1>4. (n \div 256) % 256 = n \div 256
  BY <1>1, <1>2
<1> QED  BY <1>3, <1>4

LEMMA HeaderReadStep ==
    ASSUME LinkInv, [Next]_vars
    PROVE  HeaderRead'
<1>1. CASE WaitingHeader
  <2>1. /\ unpackingStatus = "header" /\ buffer # << >> /\ Len(buffer) >= 4
        /\ header_msg' = [len |-> buffer[1] * 256 + buffer[2],
                          type |-> buffer[3] * 256 + buffer[4]]
        /\ sent' = sent /\ processed' = processed
    BY <1>1 DEF WaitingHeader, Unpacking, Read
  <2>2. Consumed = 2
    BY <2>1 DEF Consumed
  <2>3. Len(processed) < Len(sent)
    BY <2>1, NextBytes DEF LinkInv
  <2>4. PICK L \in Nat : L = Len(Underway.body)
    BY <2>3, FrameOf DEF LinkInv
  <2>5. PICK e : e = Frame
    OBVIOUS
  <2>6. \A j \in 1..(L + 6 - 2) : j <= Len(buffer) => buffer[j] = e[2 + j]
    BY <2>1, <2>2, <2>4, <2>5, NextBytes DEF LinkInv, Frame
  <2>7. /\ IsFrame(e, Underway.type, Underway.body)
        /\ L + 6 \in Word /\ Underway.type \in Byte
    BY <2>3, <2>4, <2>5, FrameOf DEF LinkInv
  <2>8. /\ Len(buffer) \in Nat /\ 1 \in 1..(L + 6 - 2) /\ 2 \in 1..(L + 6 - 2)
        /\ 3 \in 1..(L + 6 - 2) /\ 4 \in 1..(L + 6 - 2)
    BY <2>4, Lengths DEF LinkInv
  <2>9. buffer[1] = e[3] /\ buffer[2] = e[4] /\ buffer[3] = e[5] /\ buffer[4] = e[6]
    BY ONLY <2>1, <2>6, <2>8
  <2>10. /\ buffer[1] * 256 + buffer[2] = Len(Underway.body) + 6
         /\ buffer[3] * 256 + buffer[4] = Underway.type
    <3>1. /\ e[3] = ((L + 6) \div 256) % 256 /\ e[4] = (L + 6) % 256 /\ e[5] = 0
          /\ e[6] = Underway.type
      BY ONLY <2>4, <2>7 DEF IsFrame
    <3>2. PICK n \in Word : n = L + 6
      BY ONLY <2>7
    <3>3. ((n \div 256) % 256) * 256 + (n % 256) = n
      BY ONLY LengthValue, n \in Word
    <3>4. buffer[1] = (n \div 256) % 256 /\ buffer[2] = n % 256
      BY ONLY <2>9, <3>1, <3>2
    <3>5. buffer[1] * 256 + buffer[2] = n
      BY ONLY <3>3, <3>4
    <3>6. PICK t \in 0..255 : t = Underway.type
      BY ONLY <2>7 DEF Byte
    <3>7. buffer[3] = 0 /\ buffer[4] = t
      BY ONLY <2>9, <3>1, <3>6
    <3>8. buffer[3] * 256 + buffer[4] = t
      BY ONLY <3>7, t \in 0..255
    <3> QED  BY ONLY <2>4, <3>2, <3>5, <3>6, <3>8
  <2>11. Underway' = Underway
    BY <2>1 DEF Underway
  <2> QED  BY <2>1, <2>3, <2>10, <2>11 DEF HeaderRead
<1>2. CASE WaitingPrefix1 \/ WaitingPrefix2 \/ WaitingBody
  <2>1. unpackingStatus' # "body"
    BY <1>2 DEF WaitingPrefix1, WaitingPrefix2, WaitingBody
  <2> QED  BY <2>1 DEF HeaderRead
<1>3. CASE \E m \in Requests : RobotSends(m)
  <2>1. PICK m \in Requests : /\ sent' = Append(sent, m) /\ processed' = processed
                              /\ unpackingStatus' = unpackingStatus /\ header_msg' = header_msg
    BY <1>3 DEF RobotSends, parser
  <2>2. /\ Len(processed) \in Nat /\ Len(sent) \in Nat /\ Len(sent') = Len(sent) + 1
        /\ \A k \in 1..Len(sent) : sent'[k] = sent[k]
    BY <2>1, Lengths DEF LinkInv
  <2>3. Len(processed) < Len(sent) => Underway' = Underway
    BY <2>1, <2>2 DEF Underway
  <2> QED  BY <2>1, <2>2, <2>3 DEF LinkInv, HeaderRead
<1>4. CASE UNCHANGED <<sent, processed, unpackingStatus, header_msg>>
  <2>1. Underway' = Underway
    BY <1>4 DEF Underway
  <2> QED  BY <1>4, <2>1 DEF LinkInv, HeaderRead
<1> QED  BY <1>1, <1>2, <1>3, <1>4 DEF Next, Noise, ReadyRead, Slot, SlotEnds, timer_slot,
             parser, vars

LEMMA FramedStep ==
    ASSUME MaxNoise = 0, LinkInv, [Next]_vars
    PROVE  Framed'
<1> DEFINE p == Len(processed)
           c == Consumed
<1>1. PICK at : Laid(at, p, sent, Stream) /\ at[p + 1] = 0 - c
  BY DEF LinkInv, Framed
<1>2. /\ p \in Nat /\ Len(sent) \in Nat /\ p <= Len(sent) /\ c \in {0, 1, 2, 6}
      /\ p \in 0..Len(sent) /\ p + 1 \in Nat /\ Len(buffer) \in Nat
  BY Lengths DEF LinkInv, Handled
<1>3. CASE \E m \in Requests : RobotSends(m)
  <2>1. PICK m \in Requests : /\ sent' = Append(sent, m) /\ processed' = processed
                              /\ unpackingStatus' = unpackingStatus /\ buffer' = buffer
                              /\ wire' = wire \o Encode(m.type, m.body)
    BY <1>3 DEF RobotSends, parser
  <2>2. Encode(m.type, m.body) \in Seq(Byte)
    BY RequestBytes, EncodeBytes
  <2>3. Stream' = Stream \o Encode(m.type, m.body)
    <3>1. PICK e \in Seq(Byte) : e = Encode(m.type, m.body)
      BY <2>2
    <3>2. buffer \in Seq(Byte) /\ wire \in Seq(Byte)
      BY Lengths DEF LinkInv
    <3>3. Join(buffer, Join(wire, e)) = Join(Join(buffer, wire), e)
      BY ONLY <3>2, e \in Seq(Byte), Associative
    <3> QED  BY ONLY <2>1, <3>1, <3>3 DEF Stream, Join
  <2>4. PICK at2 : /\ Laid(at2, p, Append(sent, m), Stream \o Encode(m.type, m.body))
                   /\ at2[p + 1] = at[p + 1]
    BY <1>1, <1>2, Lengths, LaidSend DEF LinkInv
  <2>5. Consumed' = Consumed
    BY <2>1 DEF Consumed
  <2> QED  BY <1>1, <2>1, <2>3, <2>4, <2>5 DEF Framed
<1>4. CASE ReadyRead
  <2>1. PICK k \in 1..Len(wire) : /\ buffer' = buffer \o SubSeq(wire, 1, k)
                                  /\ wire' = SubSeq(wire, k + 1, Len(wire))
    BY <1>4 DEF ReadyRead
  <2>2. k \in 0..Len(wire)
    BY Lengths DEF LinkInv
  <2>3. Stream' = Stream
    BY <2>1, <2>2, Lengths, MoveStream DEF Stream, LinkInv
  <2>4. sent' = sent /\ processed' = processed /\ unpackingStatus' = unpackingStatus
    BY <1>4 DEF ReadyRead
  <2>5. Consumed' = Consumed
    BY <2>4 DEF Consumed
  <2> QED  BY <1>1, <2>3, <2>4, <2>5 DEF Framed
<1>5. ASSUME NEW n \in 0..Len(buffer), Drop(n), wire' = wire, sent' = sent,
             processed' = processed, Consumed' = Consumed + n
      PROVE  Framed'
  <2>1. PICK at2 : Laid(at2, p, sent', Stream') /\ \A k \in Nat : at2[k] = at[k] - n
    BY <1>1, <1>5, FramedDrop DEF LinkInv
  <2>2. at2[p + 1] = 0 - Consumed'
    BY <1>1, <1>2, <1>5, <2>1
  <2> QED  BY <1>5, <2>1, <2>2 DEF Framed
<1>6. ASSUME buffer # << >>, Consumed \in {0, 1}
      PROVE  Head(buffer) = 254 /\ 1 \in 0..Len(buffer)
  <2>1. p < Len(sent) /\ 1 \in 1..(Len(Underway.body) + 6 - Consumed) /\ 1 <= Len(buffer)
    <3>1. p < Len(sent)
      BY <1>6, NextBytes DEF LinkInv
    <3>2. Len(Underway.body) \in Nat
      BY <3>1, FrameOf DEF LinkInv
    <3>3. Len(buffer) >= 1
      BY <1>6, Lengths DEF LinkInv
    <3> QED  BY <1>2, <1>6, <3>1, <3>2, <3>3
  <2>2. buffer[1] = Encode(Underway.type, Underway.body)[Consumed + 1]
    BY <1>6, <2>1, NextBytes DEF LinkInv
  <2>3. buffer[1] = 254
    <3>1. Consumed + 1 \in {1, 2}
      BY <1>6
    <3> QED  BY <2>1, <2>2, <3>1, FrameOf DEF LinkInv, IsFrame, Frame
  <2> QED  BY <1>2, <2>1, <2>3, Lengths DEF LinkInv
<1>7. CASE WaitingPrefix1
  <2>1. buffer # << >> /\ unpackingStatus = "prefix1" /\ Consumed = 0
    BY <1>7 DEF WaitingPrefix1, Unpacking, Consumed
  <2>2. unpackingStatus' = "prefix2"
    BY <1>6, <1>7, <2>1 DEF WaitingPrefix1
  <2>3. Consumed' = Consumed + 1
    BY <2>1, <2>2 DEF Consumed
  <2> QED  BY <1>5, <1>6, <1>7, <2>1, <2>3 DEF WaitingPrefix1, Read
<1>8. CASE WaitingPrefix2
  <2>1. buffer # << >> /\ unpackingStatus = "prefix2" /\ Consumed = 1
    BY <1>8 DEF WaitingPrefix2, Unpacking, Consumed
  <2>2. unpackingStatus' = "header"
    BY <1>6, <1>8, <2>1 DEF WaitingPrefix2
  <2>3. Consumed' = Consumed + 1
    BY <2>1, <2>2 DEF Consumed
  <2> QED  BY <1>5, <1>6, <1>8, <2>1, <2>3 DEF WaitingPrefix2, Read
<1>9. CASE WaitingHeader
  <2>1. /\ unpackingStatus = "header" /\ unpackingStatus' = "body" /\ Drop(4)
        /\ Len(buffer) >= 4 /\ wire' = wire /\ sent' = sent /\ processed' = processed
    BY <1>9 DEF WaitingHeader, Unpacking, Read
  <2>2. Consumed' = Consumed + 4 /\ 4 \in 0..Len(buffer)
    BY <1>2, <2>1 DEF Consumed
  <2> QED  BY <1>5, <2>1, <2>2
<1>10. CASE WaitingBody
  <2>1. /\ unpackingStatus = "body" /\ unpackingStatus' = "prefix1" /\ Drop(BodySize)
        /\ wire' = wire /\ sent' = sent /\ BodySize \in 0..Len(buffer)
        /\ p < Len(sent) /\ BodySize = Len(Underway.body)
        /\ processed' = Append(processed, Underway)
    BY <1>10, BodyTaken DEF WaitingBody, Unpacking, Read
  <2>2. PICK at2 : Laid(at2, p, sent', Stream') /\ \A k \in Nat : at2[k] = at[k] - BodySize
    BY <1>1, <2>1, FramedDrop DEF LinkInv
  <2>3. /\ Laid(at2, p + 1, sent', Stream')
        /\ at2[p + 2] = at2[p + 1] + (Len(sent'[p + 1].body) + 6)
    <3>1. sent' \in Seq(Requests) /\ p < Len(sent')
      BY <2>1, Lengths DEF LinkInv
    <3> QED  BY <1>2, <2>2, <3>1, LaidNext
  <2>4. Len(processed') = p + 1
    <3>1. processed \in Seq([type : Word, body : Seq(Byte)])
      BY DEF LinkInv, TypeOK
    <3> QED  BY <2>1, <3>1
  <2>5. Consumed = 6 /\ Consumed' = 0
    BY <2>1 DEF Consumed
  <2>6. at2[p + 2] = 0
    <3>1. sent'[p + 1] = Underway /\ at2[p + 1] = -6 - BodySize /\ BodySize \in Nat
      BY <1>1, <1>2, <2>1, <2>2, <2>5 DEF Underway
    <3> QED  BY <2>1, <2>3, <3>1
  <2>7. at2[Len(processed') + 1] = 0 - Consumed'
    BY <1>2, <2>4, <2>5, <2>6
  <2> QED  BY <2>3, <2>4, <2>7 DEF Framed
<1>11. CASE UNCHANGED <<wire, buffer, sent, processed, unpackingStatus>>
  <2>1. Stream' = Stream /\ Consumed' = Consumed
    BY <1>11 DEF Stream, Consumed
  <2> QED  BY <1>1, <1>11, <2>1 DEF Framed
<1>12. ~\E bytes \in NoiseRuns : Noise(bytes)
  BY DEF Noise, LinkInv, TypeOK
<1> QED  BY <1>3, <1>4, <1>7, <1>8, <1>9, <1>10, <1>11, <1>12 DEF Next, Slot, SlotEnds,
             timer_slot, parser, vars

LEMMA LinkInit == Init => LinkInv
<1> SUFFICES ASSUME Init PROVE LinkInv
  OBVIOUS
<1>1. /\ sent = << >> /\ processed = << >> /\ buffer = << >> /\ wire = << >>
      /\ unpackingStatus = "prefix1"
  BY DEF Init
<1>2. Len(sent) = 0 /\ Len(processed) = 0 /\ Len(Stream) = 0
  BY <1>1 DEF Stream
<1>3. Framed
  <2> DEFINE at == [k \in Nat |-> 0]
  <2>1. at \in [Nat -> Int] /\ at[1] = 0
    OBVIOUS
  <2>2. \A k : ~(k \in (0 + 1)..0)
    OBVIOUS
  <2>3. \A k \in (0 + 1)..(0 + 1) : k \in Nat /\ at[k] = 0
    OBVIOUS
  <2> HIDE DEF at
  <2>4. Laid(at, 0, sent, Stream)
    BY ONLY <1>2, <2>1, <2>2, <2>3 DEF Laid
  <2>5. Consumed = 0
    BY ONLY <1>1 DEF Consumed
  <2>6. at[0 + 1] = 0 - Consumed
    BY ONLY <2>1, <2>5
  <2> QED  BY ONLY <1>2, <2>4, <2>6 DEF Framed
<1> QED  BY TypeInit, <1>1, <1>2, <1>3 DEF LinkInv, Handled, HeaderRead

\* The robot's messages and nothing between them, however TCP cuts the stream.
THEOREM FramesFound ==
    ASSUME MaxNoise = 0
    PROVE  Spec => []LinkInv
<1>1. LinkInv /\ [Next]_vars => LinkInv'
  <2> SUFFICES ASSUME LinkInv, [Next]_vars PROVE LinkInv'
    OBVIOUS
  <2>1. TypeOK'
    BY TypeStep DEF LinkInv
  <2> QED  BY <2>1, HandledStep, HeaderReadStep, FramedStep DEF LinkInv
<1> QED  BY LinkInit, <1>1, PTL DEF Spec

-----------------------------------------------------------------------------
(* The connection implements the channel of messages.                      *)

LEMMA ChannelStep == LinkInv /\ [Next]_vars => [Channel!Next]_(Channel!chan)
<1> SUFFICES ASSUME LinkInv, [Next]_vars PROVE [Channel!Next]_(Channel!chan)
  OBVIOUS
<1> USE DEF Channel!Next, Channel!chan, Channel!Handle, Channel!Send
<1>1. CASE processed' = processed /\ sent' = sent
  BY <1>1
<1>2. CASE /\ processed' = Append(processed, Underway) /\ sent' = sent
           /\ Len(processed) < Len(sent)
  BY <1>2 DEF Underway
<1>3. CASE \E m \in Requests : processed' = processed /\ sent' = Append(sent, m)
  BY <1>3
<1> QED  BY <1>1, <1>2, <1>3, HandledStep

\* The safety part of Delivers: whatever the chunks, each message is dispatched at
\* most once, unchanged and in the order of sending.
THEOREM StreamImplementsChannel ==
    ASSUME MaxNoise = 0
    PROVE  Spec => Channel!Init /\ [][Channel!Next]_(Channel!chan)
<1>1. Init => Channel!Init
  BY DEF Init, Channel!Init
<1> QED  BY <1>1, FramesFound, ChannelStep, PTL DEF Spec

-----------------------------------------------------------------------------
(* Heartbeats.                                                             *)

HasSentBeat == \E k \in DOMAIN down : IsBeat(down[k])
BeatInv     == (timer \/ HasSentBeat) => HasBeaten

LEMMA ReplyNoBeat == \A type : \A body \in Seq(Byte) : ~IsBeat(Reply(type, body))
BY ReplyBytes, BeatBytes DEF IsBeat

LEMMA BeatStep == LinkInv /\ BeatInv /\ [Next]_vars => BeatInv'
<1> SUFFICES ASSUME LinkInv, BeatInv, [Next]_vars PROVE BeatInv'
  OBVIOUS
<1>1. CASE \E m \in Requests : RobotSends(m)
  <2>1. PICK m \in Requests : sent' = Append(sent, m) /\ timer' = timer /\ down' = down
    BY <1>1 DEF RobotSends, effects
  <2>2. HasBeaten => HasBeaten'
    <3>1. sent \in Seq(Requests)
      BY Lengths DEF LinkInv
    <3>2. \A k \in DOMAIN sent : k \in DOMAIN sent' /\ sent'[k] = sent[k]
      BY ONLY <2>1, <3>1, m \in Requests, Appended
    <3> QED  BY ONLY <3>2 DEF HasBeaten
  <2> QED  BY <2>1, <2>2 DEF BeatInv, HasSentBeat
<1>2. CASE WaitingBody
  <2>1. /\ Len(processed) < Len(sent) /\ header_msg.type = Underway.type
        /\ messageProcess(header_msg.type, Underway.body) /\ sent' = sent
    BY <1>2, BodyTaken DEF WaitingBody, Read
  <2>2. PICK r \in Seq(Byte) : ~IsBeat(r) /\ (down' = down \/ down' = Append(down, r))
    <3>1. Underway.body \in Seq(Byte)
      BY <2>1, FrameOf DEF LinkInv
    <3> QED  BY <2>1, <3>1, Replies, ReplyBytes, ReplyNoBeat
  <2>3. HasSentBeat' => HasSentBeat
    <3>1. down \in Seq(Seq(Byte))
      BY DEF LinkInv, TypeOK
    <3>2. CASE down' = Append(down, r)
      <4>1. \A k \in 1..(Len(down) + 1) : k = Len(down) + 1 \/ k \in 1..Len(down)
        BY <3>1
      <4> QED  BY <2>2, <3>1, <3>2, <4>1, Appended DEF HasSentBeat
    <3> QED  BY <2>2, <3>2 DEF HasSentBeat
  <2>4. timer' => timer \/ Underway.type = HEART_BEAT
    BY <2>1 DEF messageProcess
  <2>5. Underway.type = HEART_BEAT => HasBeaten
    <3>1. Len(processed) + 1 \in DOMAIN sent
      BY <2>1, Lengths DEF LinkInv
    <3> QED  BY <3>1 DEF HasBeaten, Underway
  <2>6. HasBeaten' = HasBeaten
    BY <2>1 DEF HasBeaten
  <2> QED  BY <2>3, <2>4, <2>5, <2>6 DEF BeatInv
<1>3. CASE timer_slot
  <2>1. HasBeaten /\ sent' = sent
    BY <1>3 DEF BeatInv, timer_slot
  <2> QED  BY <2>1 DEF BeatInv, HasBeaten
<1>4. CASE UNCHANGED <<sent, timer, down>>
  BY <1>4 DEF BeatInv, HasSentBeat, HasBeaten
<1> QED  BY <1>1, <1>2, <1>3, <1>4 DEF Next, Noise, ReadyRead, Slot, WaitingPrefix1,
             WaitingPrefix2, WaitingHeader, SlotEnds, effects, vars, Read

\* A robot that has sent no heartbeat is sent none.
THEOREM HeartbeatsFollowRequest ==
    ASSUME MaxNoise = 0
    PROVE  Spec => []HeartbeatsFollow
<1>1. Init => BeatInv
  BY DEF Init, BeatInv, HasSentBeat
<1>2. BeatInv => HeartbeatsFollow
  BY DEF BeatInv, HasSentBeat, HeartbeatsFollow
<1> QED  BY FramesFound, BeatStep, <1>1, <1>2, PTL DEF Spec

-----------------------------------------------------------------------------
(* The answers: as many replies are written as requests are dispatched.    *)

Finished == UpTo(Asked, Len(processed))
AnswerInv == AnswersInOrder /\ Cardinality(Replied) = Cardinality(Finished)

LEMMA Prefixes ==
    ASSUME NEW S, NEW n \in Nat, S \subseteq 1..n
    PROVE  /\ IsFiniteSet(S) /\ Cardinality(S) \in Nat
           /\ \A m \in Nat : IsFiniteSet(UpTo(S, m)) /\ Cardinality(UpTo(S, m)) \in Nat
<1>1. IsFiniteSet(1..n)
  BY FS_Interval
<1>2. \A T : T \subseteq 1..n => IsFiniteSet(T) /\ Cardinality(T) \in Nat
  BY <1>1, FS_Subset, FS_CardinalityType
<1>3. \A m \in Nat : UpTo(S, m) \subseteq 1..n
  BY DEF UpTo
<1> QED  BY <1>2, <1>3

LEMMA AddOne == \A S : \A x : IsFiniteSet(S) /\ x \notin S => Cardinality(S \cup {x}) = Cardinality(S) + 1
BY FS_AddElement

\* A reply is an answer, made of the data of the request.
LEMMA ReplyAnswers ==
    ASSUME NEW m \in Requests, IsRequest(m.type)
    PROVE  Answers(Reply(m.type, m.body), m) /\ Asks(m)
<1>1. m.body \in Seq(Byte) /\ m.body # << >>
  BY RequestBytes, RequestAssumption
<1>2. Field(m.body, 1) = m.body[1]
  <2>1. 1 <= Len(m.body)
    BY <1>1
  <2> QED  BY <2>1 DEF Field
<1>3. Field(m.body, 1) \in Byte /\ Field(m.body, 2) \in Byte
  BY <1>1, FieldByte
<1>4. Asks(m)
  BY DEF Asks, IsRequest
<1>5. CASE m.type = SESSION_REGISTER_INFO
  <2>1. Reply(m.type, m.body) = Encode(SESSION_REGISTER_INFO, <<0>>)
    BY <1>5 DEF Reply
  <2> QED  BY ONLY <1>4, <1>5, <2>1 DEF Answers
<1>6. CASE m.type = AGV_REGISTER_REQUEST
  <2>1. Reply(m.type, m.body) = Encode(AGV_REGISTER_RESPONSE, <<m.body[1]>>)
    BY <1>2, <1>6 DEF Reply, SESSION_REGISTER_INFO, AGV_REGISTER_REQUEST
  <2> QED  BY ONLY <1>4, <1>6, <2>1 DEF Answers
<1>7. CASE m.type = INIT_POS_REQ
  <2> DEFINE p == PointOf(m.body[1], Field(m.body, 2))
  <2>1. p \in Byte /\ IsPosition(p, m.body[1], Field(m.body, 2))
    BY <1>2, <1>3, PositionFound
  <2>2. Reply(m.type, m.body) = Encode(INIT_POS_RESPONSE, <<Field(m.body, 2), p>>)
    BY <1>2, <1>7 DEF Reply, SESSION_REGISTER_INFO, AGV_REGISTER_REQUEST, INIT_POS_REQ
  <2> HIDE DEF p
  <2> QED  BY ONLY <1>4, <1>7, <2>1, <2>2 DEF Answers
<1> QED  BY <1>4, <1>5, <1>6, <1>7 DEF IsRequest

Places ==
    /\ Replied \subseteq 1..Len(down) /\ Asked \subseteq 1..Len(sent)
    /\ Len(down) \in Nat /\ Len(sent) \in Nat /\ Len(processed) \in Nat
    /\ Len(processed) <= Len(sent)

LEMMA PlacesHold == LinkInv => Places
<1> SUFFICES ASSUME LinkInv PROVE Places
  OBVIOUS
<1>1. /\ Len(sent) \in Nat /\ Len(processed) \in Nat /\ Len(processed) <= Len(sent)
  BY Lengths DEF LinkInv, Handled
<1>2. DOMAIN sent = 1..Len(sent)
  <2>1. sent \in Seq(Requests)
    BY DEF LinkInv, TypeOK
  <2> QED  BY ONLY <2>1
<1>3. Len(down) \in Nat /\ DOMAIN down = 1..Len(down)
  <2>1. down \in Seq(Seq(Byte))
    BY DEF LinkInv, TypeOK
  <2> QED  BY ONLY <2>1
<1> QED  BY ONLY <1>1, <1>2, <1>3 DEF Places, Replied, Asked

\* A request that is sent comes after every request that was answered.
LEMMA AnswerSend ==
    ASSUME LinkInv, AnswerInv, NEW m \in Requests, sent' = Append(sent, m), down' = down,
           processed' = processed
    PROVE  AnswerInv'
<1>1. Places /\ sent \in Seq(Requests)
  BY PlacesHold, Lengths DEF LinkInv
<1>2. PICK L \in Nat : L = Len(sent)
  BY <1>1 DEF Places
<1>3. /\ DOMAIN sent = 1..L /\ DOMAIN sent' = 1..(L + 1)
      /\ \A k \in 1..L : k \in 1..(L + 1) /\ sent'[k] = sent[k]
  BY ONLY <1>1, <1>2, m \in Requests, sent' = Append(sent, m), Appended
<1>4. \A n \in 1..L : n \in Asked' <=> n \in Asked
  BY ONLY <1>3 DEF Asked
<1>5. \A n \in Nat : n <= L => UpTo(Asked', n) = UpTo(Asked, n)
  <2> SUFFICES ASSUME NEW n \in Nat, n <= L, NEW j
               PROVE  j \in UpTo(Asked', n) <=> j \in UpTo(Asked, n)
    OBVIOUS
  <2>1. j \in Asked \/ j \in Asked' => j \in 1..(L + 1)
    BY ONLY <1>3 DEF Asked
  <2>2. j \in 1..(L + 1) /\ j <= n => j \in 1..L
    BY ONLY L \in Nat, n \in Nat, n <= L
  <2> QED  BY ONLY <1>4, <2>1, <2>2 DEF UpTo
<1>6. Asked \subseteq Asked' /\ \A n \in Asked : n \in Nat /\ n <= L /\ sent'[n] = sent[n]
  BY ONLY <1>3, <1>4, L \in Nat DEF Asked
<1>7. Replied' = Replied
  BY DEF Replied
<1>8. ASSUME NEW k \in Replied
      PROVE  \E n \in Asked' :
                /\ Cardinality(UpTo(Replied, k)) = Cardinality(UpTo(Asked', n))
                /\ Answers(down[k], sent'[n])
  <2>1. PICK n \in Asked : /\ Cardinality(UpTo(Replied, k)) = Cardinality(UpTo(Asked, n))
                           /\ Answers(down[k], sent[n])
    BY DEF AnswerInv, AnswersInOrder
  <2>2. UpTo(Asked', n) = UpTo(Asked, n) /\ n \in Asked' /\ sent'[n] = sent[n]
    BY ONLY <1>5, <1>6, n \in Asked
  <2> QED  BY ONLY <2>1, <2>2
<1>9. Finished' = Finished
  BY ONLY <1>1, <1>2, <1>5, processed' = processed DEF Finished, Places
<1>10. \A k \in Replied' : \E n \in Asked' :
          /\ Cardinality(UpTo(Replied', k)) = Cardinality(UpTo(Asked', n))
          /\ Answers(down'[k], sent'[n])
  BY ONLY <1>7, <1>8, down' = down
<1>11. AnswersInOrder'
  BY ONLY <1>10 DEF AnswersInOrder, UpTo
<1> QED  BY <1>7, <1>9, <1>11 DEF AnswerInv

\* A frame that is a heartbeat, or none at all, is no reply.
LEMMA AnswerSame ==
    ASSUME LinkInv, AnswerInv, sent' = sent,
           \/ down' = down
           \/ \E r \in Seq(Byte) : IsBeat(r) /\ down' = Append(down, r),
           \/ processed' = processed
           \/ /\ processed' = Append(processed, Underway) /\ ~Asks(Underway)
              /\ Len(processed) < Len(sent)
    PROVE  AnswerInv'
<1>1. Places
  BY PlacesHold
<1>2. PICK D \in Nat : D = Len(down)
  BY <1>1 DEF Places
<1>3. Replied' = Replied /\ \A k \in Replied : down'[k] = down[k]
  <2>1. CASE down' = down
    BY <2>1 DEF Replied
  <2>2. ASSUME NEW r \in Seq(Byte), IsBeat(r), down' = Append(down, r)
        PROVE  Replied' = Replied /\ \A k \in Replied : down'[k] = down[k]
    <3>1. down \in Seq(Seq(Byte))
      BY DEF LinkInv, TypeOK
    <3>2. /\ DOMAIN down = 1..D /\ DOMAIN down' = 1..(D + 1) /\ down'[D + 1] = r
          /\ \A k \in 1..D : k \in 1..(D + 1) /\ down'[k] = down[k]
      BY ONLY <1>2, <2>2, <3>1, r \in Seq(Byte), Appended
    <3>3. \A k \in 1..(D + 1) : k \in 1..D \/ k = D + 1
      BY ONLY D \in Nat
    <3> QED  BY ONLY <2>2, <3>2, <3>3 DEF Replied
  <2> QED  BY <2>1, <2>2
<1>4. Asked' = Asked
  BY DEF Asked
<1>5. AnswersInOrder'
  BY ONLY <1>3, <1>4, AnswerInv, sent' = sent DEF AnswerInv, AnswersInOrder
<1>6. Finished' = Finished
  <2>1. CASE processed' = processed
    BY <1>4, <2>1 DEF Finished
  <2>2. CASE /\ processed' = Append(processed, Underway) /\ ~Asks(Underway)
             /\ Len(processed) < Len(sent)
    <3>1. processed \in Seq([type : Word, body : Seq(Byte)])
      BY DEF LinkInv, TypeOK
    <3>2. PICK p \in Nat : p = Len(processed)
      BY <3>1
    <3>3. Len(processed') = p + 1
      BY <2>2, <3>1, <3>2
    <3>4. p + 1 \notin Asked
      BY <2>2, <3>2 DEF Asked, Underway
    <3>5. \A j \in Asked : j \in Nat
      BY <1>1 DEF Places
    <3>6. \A j \in Nat : j # p + 1 => (j <= p + 1 <=> j <= p)
      BY ONLY p \in Nat
    <3>7. UpTo(Asked, p + 1) = UpTo(Asked, p)
      BY ONLY <3>4, <3>5, <3>6 DEF UpTo
    <3> QED  BY ONLY <1>4, <3>2, <3>3, <3>7 DEF Finished
  <2> QED  BY <2>1, <2>2
<1> QED  BY <1>3, <1>5, <1>6 DEF AnswerInv

\* The reply to a request takes the next place in both orders.
LEMMA AnswerReply ==
    ASSUME LinkInv, AnswerInv, sent' = sent, Len(processed) < Len(sent),
           processed' = Append(processed, Underway), IsRequest(Underway.type),
           down' = Append(down, Reply(Underway.type, Underway.body))
    PROVE  AnswerInv'
<1>1. Places
  BY PlacesHold
<1>2. PICK D \in Nat : D = Len(down)
  BY <1>1 DEF Places
<1>3. PICK p \in Nat : p = Len(processed)
  BY <1>1 DEF Places
<1>4. Underway \in Requests /\ Underway.body \in Seq(Byte)
  BY FrameOf DEF LinkInv
<1>5. PICK r \in Seq(Byte) : /\ r = Reply(Underway.type, Underway.body) /\ ~IsBeat(r)
                             /\ Answers(r, Underway)
  BY <1>4, ReplyBytes, ReplyNoBeat, ReplyAnswers
<1>6. /\ DOMAIN down = 1..D /\ DOMAIN down' = 1..(D + 1) /\ down'[D + 1] = r
      /\ \A k \in 1..D : k \in 1..(D + 1) /\ down'[k] = down[k]
  <2>1. down \in Seq(Seq(Byte))
    BY DEF LinkInv, TypeOK
  <2>2. down' = Append(down, r)
    BY <1>5
  <2> QED  BY ONLY <1>2, <2>1, <2>2, r \in Seq(Byte), Appended
<1>7. \A k \in 1..(D + 1) : k \in 1..D \/ k = D + 1
  BY ONLY D \in Nat
<1>8. D + 1 \in 1..(D + 1) /\ D + 1 \notin 1..D /\ \A k \in 1..D : k <= D /\ k <= D + 1 /\ ~(D + 1 <= k)
  BY ONLY D \in Nat
<1>9. Replied' = Replied \cup {D + 1} /\ D + 1 \notin Replied /\ Replied \subseteq 1..D
  BY ONLY <1>5, <1>6, <1>7, <1>8 DEF Replied
<1>10. \A k \in Replied : UpTo(Replied', k) = UpTo(Replied, k)
  BY ONLY <1>8, <1>9 DEF UpTo
<1>11. UpTo(Replied', D + 1) = Replied \cup {D + 1}
  <2>1. D + 1 <= D + 1
    BY ONLY D \in Nat
  <2> QED  BY ONLY <1>8, <1>9, <2>1 DEF UpTo
<1>12. Cardinality(Replied') = Cardinality(Replied) + 1
  <2>1. IsFiniteSet(Replied)
    BY ONLY <1>9, D \in Nat, Prefixes
  <2> QED  BY ONLY <1>9, <2>1, AddOne
<1>13. Asked' = Asked /\ p + 1 \in Asked
  <2>1. Asks(Underway) /\ p + 1 \in DOMAIN sent
    BY <1>1, <1>3, <1>4, ReplyAnswers, Lengths DEF LinkInv, Places
  <2> QED  BY <1>3, <2>1 DEF Asked, Underway
<1>14. UpTo(Asked, p + 1) = UpTo(Asked, p) \cup {p + 1} /\ p + 1 \notin UpTo(Asked, p)
  <2>1. \A j \in Asked : j \in Nat
    BY <1>1 DEF Places
  <2>2. /\ \A j \in Nat : j # p + 1 => (j <= p + 1 <=> j <= p)
        /\ p + 1 <= p + 1 /\ ~(p + 1 <= p)
    BY ONLY p \in Nat
  <2> QED  BY ONLY <1>13, <2>1, <2>2 DEF UpTo
<1>15. Cardinality(UpTo(Asked, p + 1)) = Cardinality(UpTo(Asked, p)) + 1
  <2>1. IsFiniteSet(UpTo(Asked, p))
    BY <1>1, Prefixes DEF Places
  <2> QED  BY ONLY <1>14, <2>1, AddOne
<1>16. Cardinality(Replied) = Cardinality(UpTo(Asked, p))
  BY <1>3 DEF AnswerInv, Finished
<1>17. Finished' = UpTo(Asked, p + 1)
  <2>1. processed \in Seq([type : Word, body : Seq(Byte)])
    BY DEF LinkInv, TypeOK
  <2>2. Len(processed') = p + 1
    BY <1>3, <2>1
  <2> QED  BY ONLY <1>13, <2>2 DEF Finished
<1>18. ASSUME NEW k \in Replied'
       PROVE  \E n \in Asked' : /\ Cardinality(UpTo(Replied', k)) = Cardinality(UpTo(Asked', n))
                                /\ Answers(down'[k], sent'[n])
  <2>1. CASE k \in Replied
    <3>1. PICK n \in Asked : /\ Cardinality(UpTo(Replied, k)) = Cardinality(UpTo(Asked, n))
                             /\ Answers(down[k], sent[n])
      BY <2>1 DEF AnswerInv, AnswersInOrder
    <3>2. down'[k] = down[k]
      BY ONLY <1>6, <1>9, <2>1
    <3> QED  BY ONLY <1>10, <1>13, <2>1, <3>1, <3>2, sent' = sent
  <2>2. CASE k = D + 1
    <3>1. Cardinality(UpTo(Replied', k)) = Cardinality(UpTo(Asked', p + 1))
      BY ONLY <1>9, <1>11, <1>12, <1>13, <1>15, <1>16, <2>2
    <3>2. Answers(down'[k], sent'[p + 1])
      BY <1>3, <1>5, <1>6, <2>2 DEF Underway
    <3> QED  BY ONLY <1>13, <3>1, <3>2
  <2> QED  BY ONLY <1>9, <2>1, <2>2, k \in Replied'
<1>19. AnswersInOrder'
  BY ONLY <1>18 DEF AnswersInOrder
<1> QED  BY ONLY <1>12, <1>15, <1>16, <1>17, <1>19 DEF AnswerInv

LEMMA AnswerStep == LinkInv /\ AnswerInv /\ [Next]_vars => AnswerInv'
<1> SUFFICES ASSUME LinkInv, AnswerInv, [Next]_vars PROVE AnswerInv'
  OBVIOUS
<1>1. CASE \E m \in Requests : RobotSends(m)
  BY <1>1, AnswerSend DEF RobotSends, effects
<1>2. CASE WaitingBody
  <2>1. /\ Len(processed) < Len(sent) /\ header_msg.type = Underway.type
        /\ SubSeq(buffer, 1, BodySize) = Underway.body
        /\ processed' = Append(processed, Underway)
    BY <1>2, BodyTaken
  <2>2. messageProcess(Underway.type, Underway.body) /\ sent' = sent
    BY <1>2, <2>1 DEF WaitingBody, Read
  <2>3. CASE IsRequest(Underway.type)
    <3>1. down' = Append(down, Reply(Underway.type, Underway.body))
      BY <2>2, <2>3, Replies
    <3> QED  BY <2>1, <2>2, <2>3, <3>1, AnswerReply
  <2>4. CASE ~IsRequest(Underway.type)
    <3>1. down' = down
      BY <2>2, <2>4, Replies
    <3>2. ~Asks(Underway)
      BY <2>4 DEF IsRequest, Asks
    <3> QED  BY <2>1, <2>2, <3>1, <3>2, AnswerSame
  <2> QED  BY <2>3, <2>4
<1>3. CASE timer_slot
  <2>1. /\ down' = Append(down, Encode(HEART_BEAT, <<0>>))
        /\ sent' = sent /\ processed' = processed
    BY <1>3 DEF timer_slot, sendHeatbeatResponse, Write
  <2>2. PICK r \in Seq(Byte) : r = Encode(HEART_BEAT, <<0>>)
    BY BeatBytes
  <2>3. IsBeat(r) /\ down' = Append(down, r)
    BY <2>1, <2>2 DEF IsBeat
  <2> QED  BY <2>1, <2>3, AnswerSame
<1>4. CASE UNCHANGED <<sent, processed, down>>
  BY <1>4, AnswerSame
<1> QED  BY <1>1, <1>2, <1>3, <1>4 DEF Next, Noise, ReadyRead, Slot, WaitingPrefix1,
             WaitingPrefix2, WaitingHeader, SlotEnds, effects, vars, Read

\* The n-th reply the robot gets is the answer to the n-th request it sent.
THEOREM AnswersComeInOrder ==
    ASSUME MaxNoise = 0
    PROVE  Spec => []AnswersInOrder
<1>1. Init => AnswerInv
  <2> SUFFICES ASSUME Init PROVE AnswerInv
    OBVIOUS
  <2>1. Replied = {} /\ Asked = {}
    BY DEF Init, Replied, Asked
  <2>2. Finished = {}
    BY <2>1 DEF Finished, UpTo
  <2> QED  BY <2>1, <2>2 DEF AnswerInv, AnswersInOrder
<1>2. AnswerInv => AnswersInOrder
  BY DEF AnswerInv
<1> QED  BY FramesFound, AnswerStep, <1>1, <1>2, PTL DEF Spec
=============================================================================
