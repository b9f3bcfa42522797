--------------------------- MODULE AgentCommands ---------------------------
(***************************************************************************)
(* The commands an Agent sends to its robot (src/src/agent.cpp), for the   *)
(* ControlPanel and for the virtual IMR.  A click is queued for the Agent's*)
(* thread; the slot builds the command from agvStatus, the last status that*)
(* thread has processed.  Statuses and events go on to the panel through   *)
(* the main thread's queue.  The robot is external: it carries out its     *)
(* commands in order and reports where it is.                              *)
(***************************************************************************)
EXTENDS Integers, Sequences

CONSTANTS
    Calls,        \* the slot calls explored
    Starts,       \* where the robot may be at first
    MaxClicks,    \* bound: calls
    MaxReports    \* bound: statuses and events under way to the panel

GRID    == 800
Heading == 0..3     \* EAST 0, SOUTH 1, WEST 2, NORTH 3
Pos     == [x : Int, y : Int]
Status  == [x : Int, y : Int, directionid : Heading]
Kinds   == {"lift", "put", "turn", "charge", "uncharge", "move", "forward", "back",
            "clear", "aim", "rcslift"}
\* n: height, direction or grids; the rest is set for the calls of the IMR only
Call    == [kind : Kinds, n : Int, orderId : Int, missionKey : Int, from : Pos, to : Pos]
Command == [type : Kinds, actionid : Int, traceid : Int, points : Seq(Pos),
            directionid : Heading, loadheight : Int]

\* The unit vectors of the four headings, and a straight way with one of them.
East(h)  == IF h = 0 THEN 1 ELSE IF h = 2 THEN -1 ELSE 0
North(h) == IF h = 3 THEN 1 ELSE IF h = 1 THEN -1 ELSE 0
Travels(from, to, h) ==
    \E d \in {to.x - from.x, from.x - to.x, to.y - from.y, from.y - to.y} :
        d > 0 /\ to.x - from.x = East(h) * d /\ to.y - from.y = North(h) * d
Apart(from, to) ==
    \E d \in {to.x - from.x, from.x - to.x, to.y - from.y, from.y - to.y} : d > 200

\* The panel offers the four headings and no backward button; the points of the
\* map an aim names are on a straight way, and not the same.
ASSUME CallAssumption    ==
    /\ Calls \subseteq Call /\ Starts \subseteq Status
    /\ \A c \in Calls : /\ c.kind # "back"
                       /\ (c.kind = "aim" => /\ \E h \in Heading : Travels(c.from, c.to, h)
                                             /\ Apart(c.from, c.to))
                       /\ (c.kind = "turn" => c.n \in Heading)
                       /\ (c.kind = "forward" => c.n \in Nat)
ASSUME BoundAssumption   == MaxClicks \in Nat /\ MaxReports \in Nat

VARIABLES
    robot,                \* where the robot is, external
    clicks,               \* slot calls queued for the Agent's thread
    agvStatus,            \* the Agent's last status
    actionCnt, traceCnt,  \* its counters
    down,                 \* commands on the way to the robot
    up,                   \* statuses and events on the way to the Agent
    gui,                  \* signals on the way to the panel
    ready,                \* the panel shows a status from after the last result
    clicked, seen,        \* calls made, results shown
    patient,              \* history: each call was made when the panel was ready
    expected              \* history: where the calls should have led the robot

agent == <<agvStatus, actionCnt, traceCnt>>
panel == <<ready, clicked, seen, patient, expected>>
vars  == <<robot, clicks, agent, down, up, gui, panel>>

-----------------------------------------------------------------------------
(* The builders.                                                           *)

At(s) == [x |-> s.x, y |-> s.y]

\* mutant: y grows to the south
ForwardDown(s, i) ==
    CASE s.directionid = 0 -> [x |-> s.x + GRID * i, y |-> s.y]
      [] s.directionid = 1 -> [x |-> s.x, y |-> s.y + GRID * i]
      [] s.directionid = 2 -> [x |-> s.x - GRID * i, y |-> s.y]
      [] s.directionid = 3 -> [x |-> s.x, y |-> s.y - GRID * i]

\* The i-th point of sendActionMoveForword.
ForwardPoint(s, i) ==
    CASE s.directionid = 0 -> [x |-> s.x + GRID * i, y |-> s.y]
      [] s.directionid = 1 -> [x |-> s.x, y |-> s.y - GRID * i]
      [] s.directionid = 2 -> [x |-> s.x - GRID * i, y |-> s.y]
      [] s.directionid = 3 -> [x |-> s.x, y |-> s.y + GRID * i]

\* sendActionMoveBackword has each sign the other way round; an unexpected
\* heading adds no point.
Path(s, grids, sign) ==
    <<At(s)>> \o (IF s.directionid \in Heading
                  THEN [i \in 1..grids |-> ForwardPoint(s, sign * i)] ELSE << >>)

\* mutant: a negative difference is not looked at
DirectionPositive(from, to, otherwise) ==
    CASE to.y - from.y > 200                         -> 3
      [] to.y - from.y <= 200 /\ to.x - from.x > 200 -> 0
      [] OTHER                                       -> otherwise

\* linkRCStoP40_1: north and east win over south and west; within 200 the robot
\* keeps its heading.
Direction(from, to, otherwise) ==
    LET errorx == to.x - from.x
        errory == to.y - from.y
    IN  CASE errory > 200                                        -> 3
          [] errory <= 200 /\ errorx > 200                       -> 0
          [] errory < -200 /\ errorx <= 200                      -> 1
          [] errory \in -200..200 /\ errorx < -200               -> 2
          [] errory \in -200..200 /\ errorx \in -200..200        -> otherwise

Points(c) ==
    CASE c.kind = "forward" -> Path(agvStatus, c.n, 1)
      [] c.kind = "back"    -> Path(agvStatus, c.n, -1)
      [] c.kind = "move"    -> <<At(agvStatus), [x |-> agvStatus.x + GRID, y |-> agvStatus.y]>>
      [] c.kind = "aim"     -> <<c.from, c.to>>
      [] c.kind = "rcslift" -> <<c.from>>
      [] c.kind \in {"put", "clear"} -> << >>
      [] OTHER              -> <<At(agvStatus)>>

\* mutant: degrees instead of headings
DirectionDegrees(c) == IF c.kind = "turn" THEN 90 * c.n ELSE 0

DirectionId(c) ==
    CASE c.kind = "turn"                          -> c.n
      [] c.kind = "charge"                        -> 3
      [] c.kind \in {"forward", "back", "uncharge"} -> agvStatus.directionid
      [] c.kind = "aim"                           -> Direction(c.from, c.to, agvStatus.directionid)
      [] OTHER                                    -> 0

FromRCS(c) == c.kind \in {"aim", "rcslift"}
Counted(c) == ~FromRCS(c) /\ c.kind # "clear"

Build(c) ==
    [type |-> c.kind,
     actionid |-> IF FromRCS(c) THEN c.missionKey ELSE IF Counted(c) THEN actionCnt ELSE 0,
     traceid  |-> IF FromRCS(c) THEN c.orderId ELSE IF Counted(c) THEN traceCnt ELSE 0,
     points |-> Points(c), directionid |-> DirectionId(c),
     loadheight |-> IF c.kind \in {"lift", "put", "rcslift"} THEN c.n ELSE 0]

-----------------------------------------------------------------------------
Init ==
    /\ robot \in Starts
    /\ clicks = << >> /\ down = << >> /\ up = << >> /\ gui = << >>
    /\ agvStatus = [x |-> 0, y |-> 0, directionid |-> 0]   \* a cleared message
    /\ actionCnt = 100 /\ traceCnt = 100
    /\ ready = FALSE /\ clicked = 0 /\ seen = 0 /\ patient = TRUE
    /\ expected = robot

\* Where a call should lead a robot at s.
Led(s, c) ==
    CASE c.kind = "forward" -> [s EXCEPT !.x = @ + East(s.directionid) * GRID * c.n,
                                         !.y = @ + North(s.directionid) * GRID * c.n]
      [] c.kind = "move"    -> [s EXCEPT !.x = @ + GRID, !.directionid = 0]
      [] c.kind = "turn"    -> [s EXCEPT !.directionid = c.n]
      [] c.kind = "aim"     -> [x |-> c.to.x, y |-> c.to.y,
                                directionid |-> CHOOSE h \in Heading : Travels(c.from, c.to, h)]
      [] OTHER              -> s

\* A click in the panel, or a signal of the virtual IMR.
Click(c) ==
    /\ clicked < MaxClicks /\ patient' = (patient /\ ready)
    /\ clicks' = Append(clicks, c)
    /\ IF c.kind = "clear" THEN UNCHANGED <<clicked, ready>>
       ELSE clicked' = clicked + 1 /\ ready' = FALSE
    /\ expected' = Led(expected, c)
    /\ Len(clicks) < MaxClicks /\ Len(down) < MaxClicks
    /\ UNCHANGED <<robot, agent, down, up, gui, seen>>

\* Turn, Charge and Uncharge also show the command as sent.
SlotCall ==
    /\ clicks # << >>
    /\ LET c == Head(clicks)
       IN  /\ down' = Append(down, Build(c))
           /\ actionCnt' = actionCnt + (IF Counted(c) THEN 1 ELSE 0)
           /\ traceCnt' = traceCnt + (IF Counted(c) THEN 1 ELSE 0)
           /\ gui' = IF c.kind \in {"turn", "charge", "uncharge"}
                     THEN Append(gui, [kind |-> "sent", status |-> agvStatus]) ELSE gui
    /\ clicks' = Tail(clicks)
    /\ UNCHANGED <<robot, agvStatus, up, panel>>

\* A status or an event arrives: messageProcess.
Receive ==
    /\ up # << >>
    /\ gui' = Append(gui, Head(up))
    /\ agvStatus' = IF Head(up).kind = "status" THEN Head(up).status ELSE agvStatus
    /\ up' = Tail(up)
    /\ UNCHANGED <<robot, clicks, actionCnt, traceCnt, down, panel>>

\* The panel shows a status, a result, or a command that was sent.
Show ==
    /\ gui # << >>
    /\ seen' = IF Head(gui).kind = "event" THEN seen + 1 ELSE seen
    /\ ready' = (ready \/ (Head(gui).kind = "status" /\ seen = clicked))
    /\ gui' = Tail(gui)
    /\ UNCHANGED <<robot, clicks, agent, down, up, clicked, patient, expected>>

\* Where a command takes a robot at s.
Outcome(s, c) ==
    LET last == c.points[Len(c.points)]
    IN  CASE c.type \in {"forward", "move", "back", "aim"} ->
                [x |-> last.x, y |-> last.y, directionid |-> c.directionid]
          [] c.type = "turn" -> [s EXCEPT !.directionid = c.directionid]
          [] OTHER           -> s

\* The robot carries out a command and reports it as finished.
Finish ==
    /\ down # << >>
    /\ LET c == Head(down)
       IN  /\ robot' = Outcome(robot, c)
           /\ up' = IF c.type = "clear" THEN up
                    ELSE Append(up, [kind |-> "event", status |-> robot'])
    /\ down' = Tail(down)
    /\ UNCHANGED <<clicks, agent, gui, panel>>

Report ==
    /\ Len(up) + Len(gui) < MaxReports
    /\ up' = Append(up, [kind |-> "status", status |-> robot])
    /\ UNCHANGED <<robot, clicks, agent, down, gui, panel>>

Next == (\E c \in Calls : Click(c)) \/ SlotCall \/ Receive \/ Show \/ Finish \/ Report
Spec == Init /\ [][Next]_vars

-----------------------------------------------------------------------------
(* Properties.                                                             *)

Signal == [kind : {"status", "event", "sent"}, status : Status]

\* Every variable keeps its type; the robot is left with one of the four headings.
TypeOK ==
    /\ robot \in Status /\ agvStatus \in Status /\ expected \in Status
    /\ clicks \in Seq(Call) /\ down \in Seq(Command)
    /\ actionCnt \in Nat /\ traceCnt \in Nat
    /\ up \in Seq(Signal) /\ gui \in Seq(Signal)
    /\ ready \in BOOLEAN /\ patient \in BOOLEAN /\ clicked \in Nat /\ seen \in Nat

\* An operator who waits for the result of a click, and for a status after it, is
\* never misled: the robot then is where his clicks should have led it, although
\* each command was built from a status that had crossed two queues.
RobotGoesWhereTold == patient /\ ready => robot = expected

\* The heading a command ends with is the one it travels in: each point is reached
\* from the one before by going that way (the robot never has to reverse or slide).
HeadingOfTravel ==
    \A k \in 1..Len(down) : down[k].type \in {"forward", "move", "aim"} =>
        \A j \in 1..(Len(down[k].points) - 1) :
            Travels(down[k].points[j], down[k].points[j + 1], down[k].directionid)
=============================================================================
