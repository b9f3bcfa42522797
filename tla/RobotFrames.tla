----------------------------- MODULE RobotFrames -----------------------------
(***************************************************************************)
(* The connection of the virtual robot to its RCS, byte by byte            *)
(* (VirtualRobot::initConnection): the readyRead slot cuts the stream into *)
(* frames, checks both checksums and calls messageProcess, which waits in a*)
(* nested event loop for an AT.  A frame is 02, 'T', the length of the body*)
(* in four bytes, the checksum of these six, the body (two bytes of type,  *)
(* then the message), its checksum, and 03; numbers go low byte first.     *)
(*                                                                         *)
(* unpackingStatus and rx_body_len belong to the robot, not to a socket: a *)
(* new connection, and the slot of an old one that comes back from its     *)
(* handler, use what the other left there.                                 *)
(*                                                                         *)
(* Abstractions: a message is a few bytes; what messageProcess does with it*)
(* is in VirtualRobot.  msg_crc points into a temporary that is gone; glibc*)
(* leaves its bytes, so the comparison is with what was received.          *)
(***************************************************************************)
EXTENDS CrcTables, SequencesExt

CONSTANTS
    Requests,     \* the messages the RCS sends, in order
    Noises,       \* runs of bytes between them: damaged frames, pieces of frames
    MaxNoise,     \* bound: runs of noise
    MaxSession,   \* bound: connections made
    Spoiled       \* how many frames a disturbance may cost, itself not counted

Message == [type : Seq(Byte), msg : Seq(Byte)]
AT == <<65, 84>>

\* A type is two letters; ByteSize, the length of a message, is an int.
ASSUME RequestAssumption ==
    /\ Requests \in Seq(Message) /\ IsInjective(Requests)
    /\ \A k \in DOMAIN Requests :
          /\ Len(Requests[k].type) = 2
          /\ (((Len(Requests[k].msg) + 2) \div 256) \div 256) \div 256 < 128
ASSUME FramesAssumption ==
    /\ Noises \subseteq Seq(Byte)
    /\ MaxNoise \in Nat /\ MaxSession \in Nat /\ Spoiled \in Nat

VARIABLES
    alive,             \* FALSE once the process has been terminated
    conn,              \* the socket `client': "none" (never made or deleted), "open", "lost"
    session,           \* how many sockets have been made
    wire,              \* bytes on the way to `client'
    buffer,            \* bytes `client' has buffered
    stack,             \* the readyRead slots on the C++ stack: their socket, and whether
                       \* they loop or wait in messageProcess
    unpackingStatus,   \* "prefix1", "prefix2", "header", "body"
    rx_body_len,
    noise,             \* how many runs of noise were sent
    upsets,            \* history: how often the parser was disturbed: by a run of noise,
                       \* a new connection, or the end of a handler of an old one
    marks,             \* history: for each request sent, its connection, the disturbances
                       \* before it, and the requests since the last of them
    processed          \* history: the messages dispatched

parser == <<unpackingStatus, rx_body_len>>
peer   == <<noise, upsets, marks>>
link   == <<conn, session>>
vars   == <<alive, link, wire, buffer, stack, parser, peer, processed>>

LowFirst(c) == <<c.crclo, c.crchi>>
Length(n)   == <<n % 256, (n \div 256) % 256, ((n \div 256) \div 256) % 256,
                 (((n \div 256) \div 256) \div 256) % 256>>

\* What the RCS sends; sendStatus and sendRegister build the same with 'V'.
Frame(m) ==
    LET head == <<2, 84>> \o Length(Len(m.msg) + 2)
        body == m.type \o m.msg
    IN  head \o LowFirst(CalcCRC16Modbus(head)) \o body \o LowFirst(CalcCRC16Modbus(body)) \o <<3>>

Frames == [k \in DOMAIN Requests |-> Frame(Requests[k])]

Init ==
    /\ alive = TRUE /\ conn = "none" /\ session = 0 /\ wire = << >> /\ buffer = << >>
    /\ stack = << >> /\ unpackingStatus = "prefix1" /\ rx_body_len = 0
    /\ noise = 0 /\ upsets = 0 /\ marks = << >> /\ processed = << >>

Top      == stack[Len(stack)]
Yielding == alive /\ (stack # << >> => Top.pc = "handler")

\* A read through a socket that has been deleted: the process may die of it.
Undefined == alive' \in BOOLEAN

-----------------------------------------------------------------------------
(* The RCS and TCP.                                                        *)

\* Requests sent since the last disturbance, or Spoiled when there was none.
Since ==
    IF upsets = 0 THEN Spoiled
    ELSE IF marks # << >> /\ Last(marks).upsets = upsets THEN Last(marks).since + 1 ELSE 0

RcsSends ==
    /\ alive /\ conn = "open" /\ Len(marks) < Len(Requests)
    /\ wire' = wire \o Frames[Len(marks) + 1]
    /\ marks' = Append(marks, [sess |-> session, upsets |-> upsets, since |-> Since])
    /\ UNCHANGED <<alive, link, buffer, stack, parser, noise, upsets, processed>>

Noise(bytes) ==
    /\ alive /\ conn = "open" /\ noise < MaxNoise
    /\ wire' = wire \o bytes /\ noise' = noise + 1 /\ upsets' = upsets + 1
    /\ UNCHANGED <<alive, link, buffer, stack, parser, marks, processed>>

\* mutant: readyRead is emitted again inside its own slot
ReadyReadNested ==
    /\ Yielding /\ conn = "open"
    /\ \E k \in 1..Len(wire) :
          /\ buffer' = buffer \o SubSeq(wire, 1, k)
          /\ wire' = SubSeq(wire, k + 1, Len(wire))
    /\ stack' = Append(stack, [sess |-> session, pc |-> "loop"])
    /\ UNCHANGED <<alive, link, parser, peer, processed>>

\* A chunk arrives while the event loop runs.  readyRead is not emitted again
\* while a slot of the same socket is on the stack.
ReadyRead ==
    /\ Yielding /\ conn = "open"
    /\ \E k \in 1..Len(wire) :
          /\ buffer' = buffer \o SubSeq(wire, 1, k)
          /\ wire' = SubSeq(wire, k + 1, Len(wire))
    /\ stack' = IF \E k \in 1..Len(stack) : stack[k].sess = session THEN stack
                ELSE Append(stack, [sess |-> session, pc |-> "loop"])
    /\ UNCHANGED <<alive, link, parser, peer, processed>>

\* The connect button, pressed and released: initConnection and deInitConnection.
\* The state of the parser is not touched.
ConnectOn ==
    /\ Yielding /\ conn = "none" /\ session < MaxSession
    /\ conn' = "open" /\ session' = session + 1
    /\ upsets' = IF session = 0 THEN 0 ELSE upsets + 1
    /\ UNCHANGED <<alive, wire, buffer, stack, parser, noise, marks, processed>>

ConnectOff ==
    /\ Yielding /\ conn # "none"
    /\ conn' = "none" /\ wire' = << >> /\ buffer' = << >>
    /\ UNCHANGED <<alive, session, stack, parser, peer, processed>>

\* The RCS closes the connection; what has arrived can still be read.
LinkLost ==
    /\ Yielding /\ conn = "open"
    /\ conn' = "lost" /\ wire' = << >>
    /\ UNCHANGED <<alive, session, buffer, stack, parser, peer, processed>>

-----------------------------------------------------------------------------
(* The readyRead slot: a loop over the bytes of the current `client'.      *)

Looping   == alive /\ stack # << >> /\ Top.pc = "loop"
Unpacking(status) == Looping /\ buffer # << >> /\ unpackingStatus = status
Drop(n)   == buffer' = SubSeq(buffer, n + 1, Len(buffer))
Goto(status) == unpackingStatus' = status
Read      == UNCHANGED <<alive, link, wire, peer>>
Replace(pc)  == stack' = [stack EXCEPT ![Len(stack)].pc = pc]
Pop       == stack' = Front(stack)

WaitingPrefix1 ==
    /\ Unpacking("prefix1") /\ Drop(1)
    /\ Goto(IF Head(buffer) = 2 THEN "prefix2" ELSE "prefix1")
    /\ Read /\ UNCHANGED <<stack, rx_body_len, processed>>

\* A byte that is not 'T' is dropped, and the first prefix stays.
WaitingPrefix2 ==
    /\ Unpacking("prefix2") /\ Drop(1)
    /\ Goto(IF Head(buffer) = 84 THEN "header" ELSE "prefix2")
    /\ Read /\ UNCHANGED <<stack, rx_body_len, processed>>

HeaderChecks(rx) == LowFirst(CalcCRC16Modbus(<<2, 84>> \o SubSeq(rx, 1, 4))) = SubSeq(rx, 5, 6)

\* A header whose checksum is wrong is taken for that of an empty body.
WaitingHeader ==
    /\ Unpacking("header") /\ Len(buffer) >= 6 /\ Drop(6)
    /\ rx_body_len' = IF HeaderChecks(SubSeq(buffer, 1, 6))
                      THEN buffer[1] + 256 * (buffer[2] + 256 * (buffer[3] + 256 * buffer[4]))
                      ELSE 0
    /\ Goto("body")
    /\ Read /\ UNCHANGED <<stack, processed>>

\* mutant: the checksum of the body is not compared
TailOnly(rx) == Last(rx) = 3

\* The tail is 03 and the two bytes before it are the checksum of the rest.
BodyChecks(rx) ==
    /\ Last(rx) = 3
    /\ LowFirst(CalcCRC16Modbus(SubSeq(rx, 1, Len(rx) - 3))) = SubSeq(rx, Len(rx) - 2, Len(rx) - 1)

Body == SubSeq(buffer, 1, rx_body_len + 3)

\* messageProcess is called with the type and the message; an AT may keep it waiting.
Dispatch ==
    /\ Unpacking("body") /\ Len(buffer) >= rx_body_len + 3 /\ Drop(rx_body_len + 3)
    /\ BodyChecks(Body)
    /\ LET m == [type |-> SubSeq(Body, 1, 2), msg |-> SubSeq(Body, 3, rx_body_len)]
       IN  /\ processed' = Append(processed, m)
           /\ IF m.type = AT THEN Replace("handler") /\ UNCHANGED unpackingStatus
              ELSE Goto("prefix1") /\ UNCHANGED stack
    /\ Read /\ UNCHANGED rx_body_len

Refuse ==
    /\ Unpacking("body") /\ Len(buffer) >= rx_body_len + 3 /\ Drop(rx_body_len + 3)
    /\ ~BodyChecks(Body)
    /\ Goto("prefix1")
    /\ Read /\ UNCHANGED <<stack, rx_body_len, processed>>

\* mutant: the parser is left where the handler found it
HandlerForgets ==
    /\ Yielding /\ stack # << >>
    /\ IF conn = "none" THEN Pop /\ Undefined ELSE Replace("loop") /\ UNCHANGED alive
    /\ upsets' = IF Top.sess = session THEN upsets ELSE upsets + 1
    /\ UNCHANGED <<link, wire, buffer, parser, noise, marks, processed>>

\* messageProcess returns.  The loop goes on with whatever socket `client' is now,
\* and reads through a deleted one when there is none.
HandlerReturns ==
    /\ Yielding /\ stack # << >>
    /\ Goto("prefix1")
    /\ IF conn = "none" THEN Pop /\ Undefined ELSE Replace("loop") /\ UNCHANGED alive
    /\ upsets' = IF Top.sess = session THEN upsets ELSE upsets + 1
    /\ UNCHANGED <<link, wire, buffer, rx_body_len, noise, marks, processed>>

\* Nothing left, or too little for the header or the body.  The slot returns into
\* its socket, which has been deleted if it is no longer `client'.
SlotEnds ==
    /\ Looping
    /\ \/ buffer = << >>
       \/ Unpacking("header") /\ Len(buffer) < 6
       \/ Unpacking("body") /\ Len(buffer) < rx_body_len + 3
    /\ Pop
    /\ IF Top.sess = session THEN UNCHANGED alive ELSE Undefined
    /\ UNCHANGED <<link, wire, buffer, parser, peer, processed>>

-----------------------------------------------------------------------------
Slot == WaitingPrefix1 \/ WaitingPrefix2 \/ WaitingHeader \/ Dispatch \/ Refuse \/ SlotEnds
Next == \/ RcsSends \/ (\E bytes \in Noises : Noise(bytes)) \/ ReadyRead
        \/ ConnectOn \/ ConnectOff \/ LinkLost
        \/ Slot \/ HandlerReturns

\* The GUI thread runs its event loop, TCP delivers, and the P40 does what the
\* handler waits for.
Thread == ReadyRead \/ Slot \/ HandlerReturns
Spec == Init /\ [][Next]_vars /\ WF_vars(Thread)

-----------------------------------------------------------------------------
(* Properties.                                                             *)

\* Every variable keeps its type; no two slots of one socket are nested.
TypeOK ==
    /\ alive \in BOOLEAN /\ conn \in {"none", "open", "lost"} /\ session \in 0..MaxSession
    /\ wire \in Seq(Byte) /\ buffer \in Seq(Byte)
    /\ stack \in Seq([sess : 1..MaxSession, pc : {"loop", "handler"}])
    /\ \A k, n \in 1..Len(stack) : stack[k].sess = stack[n].sess => k = n
    /\ unpackingStatus \in {"prefix1", "prefix2", "header", "body"} /\ rx_body_len \in Nat
    /\ noise \in 0..MaxNoise /\ upsets \in Nat
    /\ marks \in Seq([sess : 1..MaxSession, upsets : Nat, since : Nat])
    /\ processed \in Seq(Message)

\* Which of the requests sent a message is.
Number(m) == CHOOSE k \in 1..Len(marks) : Requests[k] = m

\* Whatever is lost, damaged or cut in two on the way, and however connections
\* follow each other: what messageProcess is called with was sent, unchanged, on
\* the connection that is open, after everything it was called with before.
DispatchInOrder ==
    processed' # processed =>
        /\ \E k \in 1..Len(marks) : Requests[k] = Last(processed')
        /\ LET k == Number(Last(processed'))
           IN  /\ marks[k].sess = session
               /\ \A n \in 1..Len(processed) : Number(processed[n]) < k
InOrderOrNotAtAll == [][DispatchInOrder]_vars

\* The parser finds its way back: of a connection that stays open, each frame is
\* dispatched that has Spoiled others between it and the last disturbance.
Underway(k) ==
    \E n \in DOMAIN marks : /\ n = k /\ marks[n].sess = session /\ marks[n].upsets = upsets
                          /\ alive /\ conn = "open"
Dispatched(k) == \E n \in DOMAIN processed : processed[n] = Requests[k]
Clear(k)      == \E n \in DOMAIN marks : n = k /\ marks[n].since >= Spoiled

Resynchronises ==
    \A k \in DOMAIN Requests : Underway(k) /\ Clear(k) ~> Dispatched(k) \/ ~Underway(k)
=============================================================================
