------------------------------ MODULE AgentLink ------------------------------
(***************************************************************************)
(* The connection of one robot, served by an Agent in a thread of its own  *)
(* (src/src/agent.cpp): the byte stream is cut into frames by the readyRead*)
(* slot, whatever the chunks TCP delivers, and each frame is dispatched by *)
(* messageProcess.  A frame is FE FE, its length and type in two bytes     *)
(* each, and a JSON body.                                                  *)
(*                                                                         *)
(* Abstractions: a body is a short sequence of bytes, each one a field of  *)
(* the message; a field that is missing has protobuf's default, 0.         *)
(***************************************************************************)
EXTENDS Bytes, Sequences, FiniteSetsExt

CONSTANTS
    Requests,     \* the messages the robot may send
    NoiseRuns,    \* runs of bytes that are no message
    MapLines,     \* the lines of the map file: a code, a position in tenths
    MaxSent,      \* bound: messages sent
    MaxNoise,     \* bound: runs of noise
    MaxBeats      \* bound: heartbeats the timer sends

Word    == {n \in Nat : n < 65536}    \* what two bytes hold
Message == [type : Byte, body : Seq(Byte)]

AGV_ACTION_EVENT      == 2
AGV_REGISTER_REQUEST  == 3
AGV_RT_STATUS         == 4
HEART_BEAT            == 6
SESSION_REGISTER_INFO == 7
INIT_POS_REQ          == 8
INIT_POS_RESPONSE     == 9
AGV_REGISTER_RESPONSE == 10

\* A body is JSON, so it has at least two characters; the two bytes of the length
\* count the header too.
ASSUME RequestAssumption ==
    /\ Requests \subseteq Message
    /\ \A m \in Requests : m.body # << >> /\ Len(m.body) + 6 \in Word
ASSUME LinkAssumption ==
    /\ NoiseRuns \subseteq Seq(Byte)
    /\ MapLines \in Seq([code : Byte, tenths : Nat])
    /\ \A n \in DOMAIN MapLines : MapLines[n].tenths \div 10 \in Byte
    /\ MaxSent \in Nat /\ MaxNoise \in Nat /\ MaxBeats \in Nat

VARIABLES
    wire,             \* bytes on the way from the robot
    noise,            \* how many runs of noise came before or between the messages
    buffer,           \* what socket_down has buffered
    reading,          \* the readyRead slot runs
    unpackingStatus,  \* "prefix1", "prefix2", "header", "body"
    header_msg,       \* the header read last
    timer,            \* the heartbeat timer is active
    agvStatus,        \* the fields of the last status
    down,             \* frames written to the robot
    gui,              \* signals emitted to the panels
    sent, processed   \* history: messages the robot sent, messages dispatched

parser  == <<buffer, unpackingStatus, header_msg>>
effects == <<timer, agvStatus, down, gui>>
vars    == <<wire, noise, parser, reading, effects, sent, processed>>

\* downSocketWrite: the length in two bytes, whatever the size of the body.
Encode(type, body) ==
    LET len == Len(body) + 6
    IN  <<254, 254, (len \div 256) % 256, len % 256, 0, type>> \o body

Field(body, k) == IF k <= Len(body) THEN body[k] ELSE 0

Init ==
    /\ wire = << >> /\ noise = 0 /\ buffer = << >> /\ reading = FALSE
    /\ unpackingStatus = "prefix1" /\ header_msg = [len |-> 0, type |-> 0]
    /\ timer = FALSE /\ agvStatus = << >> /\ down = << >> /\ gui = << >>
    /\ sent = << >> /\ processed = << >>

-----------------------------------------------------------------------------
(* The robot and TCP.                                                      *)

RobotSends(m) ==
    /\ Len(sent) < MaxSent
    /\ sent' = Append(sent, m)
    /\ wire' = wire \o Encode(m.type, m.body)
    /\ UNCHANGED <<noise, parser, reading, effects, processed>>

Noise(bytes) ==
    /\ noise < MaxNoise
    /\ wire' = wire \o bytes /\ noise' = noise + 1
    /\ UNCHANGED <<parser, reading, effects, sent, processed>>

\* A chunk arrives between two slots; readyRead starts the parser.
ReadyRead ==
    /\ ~reading
    /\ \E k \in 1..Len(wire) :
          /\ buffer' = buffer \o SubSeq(wire, 1, k)
          /\ wire' = SubSeq(wire, k + 1, Len(wire))
    /\ reading' = TRUE
    /\ UNCHANGED <<noise, unpackingStatus, header_msg, effects, sent, processed>>

-----------------------------------------------------------------------------
(* The replies.                                                            *)

Write(type, body) == down' = Append(down, Encode(type, body))

\* initGeekplusMap: the first line is the header of the table, a later line with the
\* same code replaces an earlier one, and QPoint keeps the integer part.
Lines(code)  == {n \in 2..Len(MapLines) : MapLines[n].code = code}
geekplusMap  == [code \in {MapLines[n].code : n \in 2..Len(MapLines)} |->
                    MapLines[Max(Lines(code))].tenths \div 10]

\* mutants: no fallback, the first line with the code
PointOrError(code, logical) == IF code \in DOMAIN geekplusMap THEN geekplusMap[code] ELSE -1
FirstLine(code, logical) ==
    IF code \in DOMAIN geekplusMap THEN MapLines[Min(Lines(code))].tenths \div 10 ELSE logical

\* getPointById, with the logical position of the request as a fallback.
PointOf(code, logical) == IF code \in DOMAIN geekplusMap THEN geekplusMap[code] ELSE logical

\* mutant: nothing is written
NoReply == UNCHANGED down

sendSessionResponse        == Write(SESSION_REGISTER_INFO, <<0>>)
sendHeatbeatResponse       == Write(HEART_BEAT, <<0>>)
sendRegisterResponse(agv)  == Write(AGV_REGISTER_RESPONSE, <<agv>>)
sendInitPosResponse(logical, code) ==
    Write(INIT_POS_RESPONSE, <<logical, PointOf(code, logical)>>)

\* A heartbeat only starts the timer: the reply is commented out.
messageProcess(type, body) ==
    /\ timer' = (timer \/ type = HEART_BEAT)
    /\ agvStatus' = IF type = AGV_RT_STATUS THEN body ELSE agvStatus
    /\ gui' = IF type \in {HEART_BEAT, AGV_RT_STATUS, AGV_ACTION_EVENT}
              THEN Append(gui, [type |-> type, body |-> body]) ELSE gui
    /\ \/ type = SESSION_REGISTER_INFO /\ sendSessionResponse
       \/ type = AGV_REGISTER_REQUEST  /\ sendRegisterResponse(Field(body, 1))
       \/ type = INIT_POS_REQ /\ sendInitPosResponse(Field(body, 2), Field(body, 1))
       \/ type \notin {SESSION_REGISTER_INFO, AGV_REGISTER_REQUEST, INIT_POS_REQ}
          /\ UNCHANGED down

-----------------------------------------------------------------------------
(* The readyRead slot: a loop over the buffer.                             *)

Unpacking(status) == reading /\ buffer # << >> /\ unpackingStatus = status
Drop(n) == buffer' = SubSeq(buffer, n + 1, Len(buffer))
Read    == UNCHANGED <<wire, noise, reading, sent>>

\* mutant: a byte that is no prefix is left in the buffer
PeekPrefix1 ==
    /\ Unpacking("prefix1") /\ Head(buffer) = 254 /\ Drop(1)
    /\ unpackingStatus' = "prefix2"
    /\ Read /\ UNCHANGED <<header_msg, effects, processed>>

WaitingPrefix1 ==
    /\ Unpacking("prefix1") /\ Drop(1)
    /\ unpackingStatus' = IF Head(buffer) = 254 THEN "prefix2" ELSE "prefix1"
    /\ Read /\ UNCHANGED <<header_msg, effects, processed>>

\* A byte that is no second prefix is dropped, the first prefix stays.
WaitingPrefix2 ==
    /\ Unpacking("prefix2") /\ Drop(1)
    /\ unpackingStatus' = IF Head(buffer) = 254 THEN "header" ELSE "prefix2"
    /\ Read /\ UNCHANGED <<header_msg, effects, processed>>

WaitingHeader ==
    /\ Unpacking("header") /\ Len(buffer) >= 4 /\ Drop(4)
    /\ header_msg' = [len |-> buffer[1] * 256 + buffer[2], type |-> buffer[3] * 256 + buffer[4]]
    /\ unpackingStatus' = "body"
    /\ Read /\ UNCHANGED <<effects, processed>>

\* mutant: the length counts one byte more of header
BodyShort == IF header_msg.len > 6 THEN header_msg.len - 7 ELSE 0

\* A length below 6 makes the size negative, and read returns nothing.
BodySize == IF header_msg.len > 6 THEN header_msg.len - 6 ELSE 0

WaitingBody ==
    /\ Unpacking("body") /\ Len(buffer) >= header_msg.len - 6 /\ Drop(BodySize)
    /\ LET body == SubSeq(buffer, 1, BodySize)
       IN  /\ messageProcess(header_msg.type, body)
           /\ processed' = Append(processed, [type |-> header_msg.type, body |-> body])
    /\ unpackingStatus' = "prefix1"
    /\ Read /\ UNCHANGED header_msg

\* Nothing left, or too little for the header or the body.
SlotEnds ==
    /\ reading
    /\ \/ buffer = << >>
       \/ Unpacking("header") /\ Len(buffer) < 4
       \/ Unpacking("body") /\ Len(buffer) < header_msg.len - 6
    /\ reading' = FALSE
    /\ UNCHANGED <<wire, noise, parser, effects, sent, processed>>

IsBeat(f) == f = Encode(HEART_BEAT, <<0>>)
Beats     == Cardinality({k \in DOMAIN down : IsBeat(down[k])})

\* mutant: heartbeats without a request
BeatsAlways ==
    /\ ~reading /\ Beats < MaxBeats
    /\ sendHeatbeatResponse
    /\ UNCHANGED <<wire, noise, parser, reading, timer, agvStatus, gui, sent, processed>>

timer_slot ==
    /\ timer /\ ~reading /\ Beats < MaxBeats
    /\ sendHeatbeatResponse
    /\ UNCHANGED <<wire, noise, parser, reading, timer, agvStatus, gui, sent, processed>>

-----------------------------------------------------------------------------
Slot == WaitingPrefix1 \/ WaitingPrefix2 \/ WaitingHeader \/ WaitingBody \/ SlotEnds
Next == \/ \E m \in Requests : RobotSends(m)
        \/ \E bytes \in NoiseRuns : Noise(bytes)
        \/ ReadyRead \/ Slot \/ timer_slot

\* The thread runs its event loop, TCP delivers, the timer fires.
Spec == Init /\ [][Next]_vars /\ WF_vars(ReadyRead) /\ WF_vars(Slot) /\ WF_vars(timer_slot)

-----------------------------------------------------------------------------
(* Properties.                                                             *)

\* Every variable keeps its type.
TypeOK ==
    /\ wire \in Seq(Byte) /\ buffer \in Seq(Byte) /\ noise \in 0..MaxNoise
    /\ reading \in BOOLEAN /\ timer \in BOOLEAN
    /\ unpackingStatus \in {"prefix1", "prefix2", "header", "body"}
    /\ header_msg \in [len : Word, type : Word]
    /\ agvStatus \in Seq(Byte) /\ down \in Seq(Seq(Byte))
    /\ gui \in Seq([type : Word, body : Seq(Byte)])
    /\ sent \in Seq(Requests) /\ processed \in Seq([type : Word, body : Seq(Byte)])

\* The byte stream implements the channel of messages: however TCP cuts it, each
\* message is dispatched once, in order and in the end.
Channel == INSTANCE FrameChannel WITH Messages <- Requests, handled <- processed
Delivers == Channel!Spec

\* The position of a code: the integer part of the last line of the table that
\* gives one, and the robot's own when there is none.
IsPosition(p, code, logical) ==
    \/ /\ \A n \in 2..Len(MapLines) : MapLines[n].code # code
       /\ p = logical
    \/ \E n \in 2..Len(MapLines) :
          /\ MapLines[n].code = code /\ p = MapLines[n].tenths \div 10
          /\ \A j \in (n + 1)..Len(MapLines) : MapLines[j].code # code

\* What the robot is answered, a reader of src/README.md:67-73 would say.
Asks(m) == m.type \in {SESSION_REGISTER_INFO, AGV_REGISTER_REQUEST, INIT_POS_REQ}
Answers(f, m) ==
    \/ m.type = SESSION_REGISTER_INFO /\ f = Encode(SESSION_REGISTER_INFO, <<0>>)
    \/ m.type = AGV_REGISTER_REQUEST  /\ f = Encode(AGV_REGISTER_RESPONSE, <<m.body[1]>>)
    \/ /\ m.type = INIT_POS_REQ
       /\ \E p \in Byte : /\ IsPosition(p, m.body[1], Field(m.body, 2))
                         /\ f = Encode(INIT_POS_RESPONSE, <<Field(m.body, 2), p>>)

Asked   == {n \in DOMAIN sent : Asks(sent[n])}
Replied == {k \in DOMAIN down : ~IsBeat(down[k])}
UpTo(S, n) == {j \in S : j <= n}

\* The robot gets the answers to its requests in the order it sent them, with its
\* own data in them, also when the heartbeat timer writes in between: the n-th reply
\* is the answer to the n-th request.
AnswersInOrder ==
    \A k \in Replied : \E n \in Asked :
        /\ Cardinality(UpTo(Replied, k)) = Cardinality(UpTo(Asked, n))
        /\ Answers(down[k], sent[n])

\* Each request is answered in the end.
RequestsAnswered ==
    Cardinality(Asked) > Cardinality(Replied) ~> Cardinality(Asked) = Cardinality(Replied)

\* The server sends heartbeats to the robots that have sent one, and only to them.
HasBeaten == \E n \in DOMAIN sent : sent[n].type = HEART_BEAT
HeartbeatsFollow   == (\E k \in DOMAIN down : IsBeat(down[k])) => HasBeaten
HeartbeatsComeBack == HasBeaten ~> \E k \in DOMAIN down : IsBeat(down[k])

\* The loop of the readyRead slot ends, whatever bytes it is given.
SlotReturns == reading ~> ~reading

\* Noise without a prefix in it costs no message: frames are found by the prefix
\* FE FE (src/README.md:63).
MessagesDispatched ==
    \A k \in 1..MaxSent : Len(sent) >= k ~> Len(processed) >= k
=============================================================================
