------------------------- MODULE AgentCommandsProofs -------------------------
(***************************************************************************)
(* The commands of AgentCommands, for every set of calls, every start and  *)
(* any number of clicks and reports.                                       *)
(*                                                                         *)
(* A patient operator has at most one call under way, and that call is in  *)
(* one of four places: the queue of the Agent, the wire to the robot, the  *)
(* wire back, or the queue to the panel.  What has to be known of the      *)
(* statuses around it differs from place to place; when the panel shows a  *)
(* status after the result, the Agent has it too.                          *)
(***************************************************************************)
EXTENDS AgentCommands, SequenceTheorems, TLAPS

-----------------------------------------------------------------------------
(* What a command is like.                                                 *)

Driving == {"forward", "move", "aim"}

\* A command that moves the robot says where to and with which heading.
Sound(c) ==
    /\ c.type # "back"
    /\ c.type \in Driving => Len(c.points) > 0 /\ c.directionid \in Heading
    /\ c.type = "turn" => c.directionid \in Heading

\* Each of its points is reached from the one before with its heading.
Straight(c) ==
    c.type \in Driving =>
        \A j \in 1..(Len(c.points) - 1) : Travels(c.points[j], c.points[j + 1], c.directionid)

CommandsInv ==
    /\ \A k \in 1..Len(clicks) : clicks[k] \in Calls
    /\ \A k \in 1..Len(down) : Sound(down[k]) /\ Straight(down[k])

-----------------------------------------------------------------------------
(* The place of the call a patient operator has under way.                 *)

NoWorkAsked == \A k \in 1..Len(clicks) : clicks[k].kind = "clear"
NoWorkSent  == \A k \in 1..Len(down) : down[k].type = "clear"
NoEventUp   == \A k \in 1..Len(up) : up[k].kind # "event"
NoEventGui  == \A k \in 1..Len(gui) : gui[k].kind # "event"
UpFresh     == \A k \in 1..Len(up) : up[k].kind = "status" => up[k].status = robot

Idle ==
    /\ clicked = seen /\ robot = expected
    /\ NoWorkAsked /\ NoWorkSent /\ NoEventUp /\ NoEventGui /\ UpFresh
    /\ ready => agvStatus = robot
    /\ \A k \in 1..Len(gui) : gui[k].kind = "status" => agvStatus = robot

Busy == clicked = seen + 1 /\ ~ready

Asked ==
    /\ Busy /\ NoWorkSent /\ NoEventUp /\ NoEventGui /\ UpFresh /\ agvStatus = robot
    /\ \E k \in 1..Len(clicks) :
          /\ clicks[k].kind # "clear" /\ expected = Led(robot, clicks[k])
          /\ \A n \in 1..Len(clicks) : n # k => clicks[n].kind = "clear"

Sent ==
    /\ Busy /\ NoWorkAsked /\ NoEventUp /\ NoEventGui
    /\ \E k \in 1..Len(down) :
          /\ down[k].type # "clear" /\ expected = Outcome(robot, down[k])
          /\ \A n \in 1..Len(down) : n # k => down[n].type = "clear"

Reported ==
    /\ Busy /\ NoWorkAsked /\ NoWorkSent /\ NoEventGui /\ robot = expected
    /\ \E k \in 1..Len(up) :
          /\ up[k].kind = "event"
          /\ \A n \in 1..Len(up) : n # k => up[n].kind # "event"
          /\ \A n \in 1..Len(up) : n > k /\ up[n].kind = "status" => up[n].status = robot

Answered ==
    /\ Busy /\ NoWorkAsked /\ NoWorkSent /\ NoEventUp /\ UpFresh /\ robot = expected
    /\ \E k \in 1..Len(gui) :
          /\ gui[k].kind = "event"
          /\ \A n \in 1..Len(gui) : n # k => gui[n].kind # "event"
          /\ \A n \in 1..Len(gui) : n > k /\ gui[n].kind = "status" => agvStatus = robot

PatientInv == patient => Idle \/ Asked \/ Sent \/ Reported \/ Answered

IInv == TypeOK /\ CommandsInv /\ PatientInv

-----------------------------------------------------------------------------
(* Sequences.                                                              *)

LEMMA Appended ==
    ASSUME NEW S, NEW s \in Seq(S), NEW e \in S
    PROVE  /\ Append(s, e) \in Seq(S)
           /\ Len(s) \in Nat /\ Len(Append(s, e)) = Len(s) + 1
           /\ \A k \in 1..Len(s) : Append(s, e)[k] = s[k]
           /\ Append(s, e)[Len(s) + 1] = e
  OBVIOUS

LEMMA Taken ==
    ASSUME NEW S, NEW s \in Seq(S), s # << >>
    PROVE  /\ Tail(s) \in Seq(S)
           /\ Len(s) \in Nat /\ Len(s) >= 1 /\ Len(Tail(s)) = Len(s) - 1
           /\ \A k \in 1..Len(Tail(s)) : k + 1 \in 1..Len(s) /\ Tail(s)[k] = s[k + 1]
           /\ \A k \in 2..Len(s) : k - 1 \in 1..Len(Tail(s)) /\ s[k] = Tail(s)[k - 1]
           /\ Head(s) = s[1] /\ s[1] \in S
  OBVIOUS

-----------------------------------------------------------------------------
(* The builders.                                                           *)

\* The points of a straight way: as many as grids, each one grid after the last.
LEMMA PathPoints ==
    ASSUME NEW s \in Status, NEW grids \in Nat
    PROVE  /\ Path(s, grids, 1) \in Seq(Pos) /\ Len(Path(s, grids, 1)) = grids + 1
           /\ \A j \in 1..grids + 1 :
                 Path(s, grids, 1)[j] = [x |-> s.x + (East(s.directionid) * GRID) * (j - 1),
                                         y |-> s.y + (North(s.directionid) * GRID) * (j - 1)]
<1> DEFINE q == [i \in 1..grids |-> ForwardPoint(s, 1 * i)]
           place(i) == [x |-> s.x + (East(s.directionid) * GRID) * i,
                        y |-> s.y + (North(s.directionid) * GRID) * i]
<1>1. s.x \in Int /\ s.y \in Int /\ s.directionid \in {0, 1, 2, 3}
  BY DEF Status, Heading
<1>2. Path(s, grids, 1) = <<At(s)>> \o q
  BY <1>1 DEF Path, Heading
<1>3. \A i \in 1..grids : ForwardPoint(s, 1 * i) = place(i) /\ place(i) \in Pos
  <2> SUFFICES ASSUME NEW i \in 1..grids
               PROVE  ForwardPoint(s, 1 * i) = place(i) /\ place(i) \in Pos
    OBVIOUS
  <2>1. i \in Int /\ 1 * i = i  OBVIOUS
  <2>2. CASE s.directionid = 0  BY <1>1, <2>1, <2>2 DEF ForwardPoint, East, North, GRID, Pos
  <2>3. CASE s.directionid = 1  BY <1>1, <2>1, <2>3 DEF ForwardPoint, East, North, GRID, Pos
  <2>4. CASE s.directionid = 2  BY <1>1, <2>1, <2>4 DEF ForwardPoint, East, North, GRID, Pos
  <2>5. CASE s.directionid = 3  BY <1>1, <2>1, <2>5 DEF ForwardPoint, East, North, GRID, Pos
  <2> QED  BY <1>1, <2>2, <2>3, <2>4, <2>5
<1>4. At(s) = place(0) /\ place(0) \in Pos
  BY <1>1 DEF At, East, North, GRID, Pos
<1> HIDE DEF place
<1>5. q \in Seq(Pos) /\ Len(q) = grids /\ \A i \in 1..grids : q[i] = place(i)
  BY <1>3
<1> HIDE DEF q
<1>6. <<At(s)>> \in Seq(Pos) /\ Len(<<At(s)>>) = 1 /\ <<At(s)>>[1] = At(s)
  BY <1>4
<1>7. /\ <<At(s)>> \o q \in Seq(Pos) /\ Len(<<At(s)>> \o q) = 1 + grids
      /\ \A j \in 1..1 + grids :
            (<<At(s)>> \o q)[j] = IF j <= 1 THEN <<At(s)>>[j] ELSE q[j - 1]
  BY <1>5, <1>6, ConcatProperties
<1>8. ASSUME NEW j \in 1..grids + 1 PROVE (<<At(s)>> \o q)[j] = place(j - 1)
  <2>1. CASE j = 1  BY <1>4, <1>6, <1>7, <2>1
  <2>2. CASE j > 1
    <3>1. j - 1 \in 1..grids /\ j \in 1..1 + grids /\ ~(j <= 1)  BY <2>2
    <3> QED  BY <1>5, <1>7, <3>1
  <2>3. j = 1 \/ j > 1  OBVIOUS
  <2> QED  BY <2>1, <2>2, <2>3
<1>9. Len(Path(s, grids, 1)) = grids + 1  BY <1>2, <1>7
<1> QED  BY <1>2, <1>7, <1>8, <1>9 DEF place

\* The thresholds of linkRCStoP40_1 find the heading of a straight way, and there
\* is only one.
LEMMA DirectionTravels ==
    ASSUME NEW from \in Pos, NEW to \in Pos, NEW h \in Heading, Travels(from, to, h),
           Apart(from, to), NEW otherwise
    PROVE  /\ Direction(from, to, otherwise) = h
           /\ \A g \in Heading : Travels(from, to, g) => g = h
<1> DEFINE X == to.x - from.x
           Y == to.y - from.y
<1>1. from.x \in Int /\ from.y \in Int /\ to.x \in Int /\ to.y \in Int  BY DEF Pos
<1>2. X \in Int /\ Y \in Int /\ from.x - to.x = -X /\ from.y - to.y = -Y  BY <1>1
<1>3. PICK e \in {X, -X, Y, -Y} : e > 200  BY <1>2 DEF Apart
<1>4. \A g \in Heading : Travels(from, to, g) =>
         \E d \in {X, -X, Y, -Y} : d > 0 /\ X = East(g) * d /\ Y = North(g) * d
  BY <1>2 DEF Travels
<1>5. PICK d \in {X, -X, Y, -Y} : d > 0 /\ X = East(h) * d /\ Y = North(h) * d
  BY <1>4
<1>6. Direction(from, to, otherwise) =
         (CASE Y > 200                                 -> 3
            [] Y <= 200 /\ X > 200                     -> 0
            [] Y < -200 /\ X <= 200                    -> 1
            [] Y \in -200..200 /\ X < -200             -> 2
            [] Y \in -200..200 /\ X \in -200..200      -> otherwise)
  BY DEF Direction
<1> HIDE DEF X, Y
<1>7. h \in {0, 1, 2, 3}  BY DEF Heading
<1>8. /\ h = 0 => X = d /\ Y = 0 /\ X > 200
      /\ h = 1 => X = 0 /\ Y = -d /\ Y < -200
      /\ h = 2 => X = -d /\ Y = 0 /\ X < -200
      /\ h = 3 => X = 0 /\ Y = d /\ Y > 200
  <2>1. CASE h = 0  BY <1>2, <1>3, <1>5, <2>1 DEF East, North
  <2>2. CASE h = 1  BY <1>2, <1>3, <1>5, <2>2 DEF East, North
  <2>3. CASE h = 2  BY <1>2, <1>3, <1>5, <2>3 DEF East, North
  <2>4. CASE h = 3  BY <1>2, <1>3, <1>5, <2>4 DEF East, North
  <2> QED  BY <1>7, <2>1, <2>2, <2>3, <2>4
<1>9. Direction(from, to, otherwise) = h
  BY <1>2, <1>6, <1>7, <1>8
<1>10. ASSUME NEW g \in Heading, Travels(from, to, g) PROVE g = h
  <2>1. PICK b \in {X, -X, Y, -Y} : b > 0 /\ X = East(g) * b /\ Y = North(g) * b
    BY <1>4, <1>10
  <2>2. g \in {0, 1, 2, 3} /\ b \in Int  BY <1>2, <2>1 DEF Heading
  <2>3. /\ g = 0 => X > 0 /\ Y = 0
        /\ g = 1 => X = 0 /\ Y < 0
        /\ g = 2 => X < 0 /\ Y = 0
        /\ g = 3 => X = 0 /\ Y > 0
    <3>1. CASE g = 0  BY <1>2, <2>1, <2>2, <3>1 DEF East, North
    <3>2. CASE g = 1  BY <1>2, <2>1, <2>2, <3>2 DEF East, North
    <3>3. CASE g = 2  BY <1>2, <2>1, <2>2, <3>3 DEF East, North
    <3>4. CASE g = 3  BY <1>2, <2>1, <2>2, <3>4 DEF East, North
    <3> QED  BY <2>2, <3>1, <3>2, <3>3, <3>4
  <2> QED  BY <1>2, <1>7, <1>8, <2>2, <2>3
<1> QED  BY <1>9, <1>10

\* The fields a call determines.
LEMMA BuildFields ==
    ASSUME NEW c
    PROVE  /\ Build(c).type = c.kind /\ Build(c).points = Points(c)
           /\ Build(c).directionid = DirectionId(c)
  BY DEF Build

\* The points of a command are positions.
LEMMA PointsTyped ==
    ASSUME CallAssumption, agvStatus \in Status, NEW c \in Calls
    PROVE  Points(c) \in Seq(Pos)
<1>1. c \in Call /\ c.kind # "back" /\ (c.kind = "forward" => c.n \in Nat)
  BY DEF CallAssumption
<1>2. c.from \in Pos /\ c.to \in Pos /\ c.kind \in Kinds  BY <1>1 DEF Call
<1>3. At(agvStatus) \in Pos /\ [x |-> agvStatus.x + GRID, y |-> agvStatus.y] \in Pos
  BY DEF At, Status, Pos, GRID
<1>4. CASE c.kind = "forward"
  <2>1. Points(c) = Path(agvStatus, c.n, 1)  BY <1>4 DEF Points
  <2> QED  BY <1>1, <1>4, <2>1, PathPoints
<1>5. CASE c.kind = "move"
  <2>1. Points(c) = <<At(agvStatus), [x |-> agvStatus.x + GRID, y |-> agvStatus.y]>>
    BY <1>5 DEF Points
  <2> QED  BY <1>3, <2>1
<1>6. CASE c.kind = "aim"
  <2>1. Points(c) = <<c.from, c.to>>  BY <1>6 DEF Points
  <2> QED  BY <1>2, <2>1
<1>7. CASE c.kind = "rcslift"
  <2>1. Points(c) = <<c.from>>  BY <1>7 DEF Points
  <2> QED  BY <1>2, <2>1
<1>8. CASE c.kind \in {"put", "clear"}
  <2>1. Points(c) = << >>  BY <1>8 DEF Points
  <2> QED  BY <2>1
<1>9. CASE c.kind \in {"lift", "turn", "charge", "uncharge"}
  <2>1. Points(c) = <<At(agvStatus)>>  BY <1>9 DEF Points
  <2> QED  BY <1>3, <2>1
<1> QED  BY <1>1, <1>2, <1>4, <1>5, <1>6, <1>7, <1>8, <1>9 DEF Kinds

\* What is sent for each call: a command a robot can carry out, whose way is straight,
\* and which takes a robot that is where the Agent believes it to where it should go.
LEMMA BuildSound ==
    ASSUME CallAssumption, agvStatus \in Status, NEW c \in Calls
    PROVE  /\ DirectionId(c) \in Heading /\ Sound(Build(c)) /\ Straight(Build(c))
           /\ Outcome(agvStatus, Build(c)) = Led(agvStatus, c)
<1>1. c \in Call /\ c.kind # "back"  BY DEF CallAssumption
<1>2. c.from \in Pos /\ c.to \in Pos /\ c.kind \in Kinds  BY <1>1 DEF Call
<1>3. agvStatus.x \in Int /\ agvStatus.y \in Int /\ agvStatus.directionid \in Heading
  BY DEF Status
<1>4. Heading \subseteq Int  BY DEF Heading
<1>5. Build(c).type = c.kind /\ Build(c).points = Points(c)
      /\ Build(c).directionid = DirectionId(c)
  BY BuildFields
<1>6. CASE c.kind = "forward"
  <2>1. c.n \in Nat  BY <1>6 DEF CallAssumption
  <2> DEFINE n == c.n
             h == agvStatus.directionid
             p == Points(c)
             dx == East(h) * GRID
             dy == North(h) * GRID
  <2>2. p = Path(agvStatus, n, 1) /\ DirectionId(c) = h  BY <1>6 DEF Points, DirectionId
  <2>3. dx \in Int /\ dy \in Int /\ dx = East(h) * 800 /\ dy = North(h) * 800
    BY DEF East, North, GRID
  <2>4. Len(p) = n + 1 /\ \A j \in 1..n + 1 :
           p[j].x = agvStatus.x + dx * (j - 1) /\ p[j].y = agvStatus.y + dy * (j - 1)
    <3> HIDE DEF p
    <3>1. /\ Len(Path(agvStatus, n, 1)) = n + 1
          /\ \A j \in 1..n + 1 :
                Path(agvStatus, n, 1)[j] = [x |-> agvStatus.x + dx * (j - 1),
                                            y |-> agvStatus.y + dy * (j - 1)]
      BY <2>1, PathPoints
    <3> HIDE DEF dx, dy
    <3>2. Len(p) = n + 1 /\ \A j \in 1..n + 1 :
             p[j] = [x |-> agvStatus.x + dx * (j - 1), y |-> agvStatus.y + dy * (j - 1)]
      BY <2>2, <3>1
    <3>3. ASSUME NEW j \in 1..n + 1
          PROVE  p[j].x = agvStatus.x + dx * (j - 1) /\ p[j].y = agvStatus.y + dy * (j - 1)
      <4>1. p[j] = [x |-> agvStatus.x + dx * (j - 1), y |-> agvStatus.y + dy * (j - 1)]
        BY <3>2
      <4> QED  BY <4>1
    <3> QED  BY <3>2, <3>3
  <2>5. n \in Nat  BY <2>1
  <2> HIDE DEF n, p
  <2>6. \A j \in 1..Len(p) - 1 : Travels(p[j], p[j + 1], h)
    <3> SUFFICES ASSUME NEW j \in 1..n PROVE Travels(p[j], p[j + 1], h)
      BY <2>4, <2>5
    <3>1. /\ p[j].x = agvStatus.x + dx * (j - 1) /\ p[j].y = agvStatus.y + dy * (j - 1)
          /\ p[j + 1].x = agvStatus.x + dx * j /\ p[j + 1].y = agvStatus.y + dy * j
      <4>1. j \in 1..n + 1 /\ j + 1 \in 1..n + 1 /\ (j + 1) - 1 = j  BY <2>5
      <4> QED  BY <2>4, <4>1
    <3>2. h \in {0, 1, 2, 3}  BY <1>3 DEF Heading
    <3>3. CASE h = 0
      <4>1. dx = 800 /\ dy = 0  BY <3>3 DEF East, North, GRID
      <4> QED  BY <1>3, <3>1, <3>3, <4>1 DEF Travels, East, North
    <3>4. CASE h = 1
      <4>1. dx = 0 /\ dy = -800  BY <3>4 DEF East, North, GRID
      <4> QED  BY <1>3, <3>1, <3>4, <4>1 DEF Travels, East, North
    <3>5. CASE h = 2
      <4>1. dx = -800 /\ dy = 0  BY <3>5 DEF East, North, GRID
      <4> QED  BY <1>3, <3>1, <3>5, <4>1 DEF Travels, East, North
    <3>6. CASE h = 3
      <4>1. dx = 0 /\ dy = 800  BY <3>6 DEF East, North, GRID
      <4> QED  BY <1>3, <3>1, <3>6, <4>1 DEF Travels, East, North
    <3> QED  BY <3>2, <3>3, <3>4, <3>5, <3>6
  <2>7. Outcome(agvStatus, Build(c)) = Led(agvStatus, c)
    <3>1. n + 1 \in 1..n + 1 /\ (n + 1) - 1 = n  BY <2>5
    <3>2. p[Len(p)].x = agvStatus.x + dx * n /\ p[Len(p)].y = agvStatus.y + dy * n
      BY <2>4, <3>1
    <3>3. Outcome(agvStatus, Build(c)) =
             [x |-> p[Len(p)].x, y |-> p[Len(p)].y, directionid |-> h]
      BY <1>5, <1>6, <2>2 DEF Outcome, p
    <3>4. Led(agvStatus, c) = [x |-> agvStatus.x + dx * n, y |-> agvStatus.y + dy * n,
                               directionid |-> h]
      BY <1>3, <1>6 DEF Led, Status, n
    <3> QED  BY <3>2, <3>3, <3>4
  <2>8. Build(c).type = "forward" /\ Build(c).points = p /\ Build(c).directionid = h
    BY <1>5, <1>6, <2>2 DEF p
  <2> HIDE DEF h
  <2>9. Len(p) > 0 /\ h \in Heading  BY <1>3, <2>4, <2>5 DEF h
  <2>10. Sound(Build(c))  BY <2>8, <2>9 DEF Sound, Driving
  <2>11. Straight(Build(c))  BY <2>6, <2>8 DEF Straight
  <2>12. DirectionId(c) \in Heading  BY <2>2, <2>9
  <2> QED  BY <2>7, <2>10, <2>11, <2>12
<1>7. CASE c.kind = "move"
  <2> DEFINE q == [x |-> agvStatus.x + GRID, y |-> agvStatus.y]
  <2>1. Points(c) = <<At(agvStatus), q>> /\ DirectionId(c) = 0
    BY <1>7 DEF Points, DirectionId
  <2>2. Travels(At(agvStatus), q, 0)
    BY <1>3 DEF Travels, At, East, North, GRID
  <2>3. Outcome(agvStatus, Build(c)) = [x |-> q.x, y |-> q.y, directionid |-> 0]
    BY <1>5, <1>7, <2>1 DEF Outcome
  <2>4. Led(agvStatus, c) = [x |-> q.x, y |-> q.y, directionid |-> 0]
    BY <1>3, <1>7 DEF Led, Status
  <2>5. Sound(Build(c))  BY <1>5, <1>7, <2>1 DEF Sound, Driving, Heading
  <2>6. Straight(Build(c))  BY <1>5, <1>7, <2>1, <2>2 DEF Straight, Driving
  <2>7. DirectionId(c) \in Heading  BY <2>1 DEF Heading
  <2> QED  BY <2>3, <2>4, <2>5, <2>6, <2>7
<1>8. CASE c.kind = "aim"
  <2>1. PICK h \in Heading : Travels(c.from, c.to, h) /\ Apart(c.from, c.to)
    BY <1>8 DEF CallAssumption
  <2>2. Points(c) = <<c.from, c.to>>
        /\ DirectionId(c) = Direction(c.from, c.to, agvStatus.directionid)
    BY <1>8 DEF Points, DirectionId
  <2>3. DirectionId(c) = h /\ \A g \in Heading : Travels(c.from, c.to, g) => g = h
    BY <1>2, <2>1, <2>2, DirectionTravels
  <2>4. (CHOOSE g \in Heading : Travels(c.from, c.to, g)) = h  BY <2>1, <2>3
  <2>5. Outcome(agvStatus, Build(c)) = [x |-> c.to.x, y |-> c.to.y, directionid |-> h]
    BY <1>5, <1>8, <2>2, <2>3 DEF Outcome
  <2>6. Led(agvStatus, c) = [x |-> c.to.x, y |-> c.to.y, directionid |-> h]
    BY <1>8, <2>4 DEF Led
  <2>7. Sound(Build(c))  BY <1>5, <1>8, <2>2, <2>3 DEF Sound, Driving
  <2>8. Straight(Build(c))  BY <1>5, <1>8, <2>1, <2>2, <2>3 DEF Straight, Driving
  <2> QED  BY <1>4, <2>3, <2>5, <2>6, <2>7, <2>8
<1>9. CASE c.kind = "turn"
  <2>1. DirectionId(c) = c.n /\ c.n \in Heading  BY <1>9 DEF DirectionId, CallAssumption
  <2> QED  BY <1>4, <1>5, <1>9, <2>1 DEF Sound, Straight, Driving, Outcome, Led
<1>10. CASE c.kind \in {"lift", "put", "charge", "uncharge", "clear", "rcslift"}
  <2>1. DirectionId(c) \in Heading
    BY <1>3, <1>10 DEF DirectionId, Heading
  <2> QED  BY <1>4, <1>5, <1>10, <2>1 DEF Sound, Straight, Driving, Outcome, Led
<1> QED  BY <1>1, <1>2, <1>6, <1>7, <1>8, <1>9, <1>10 DEF Kinds

\* Where a call should lead, and where a command does, is a place with a heading.
LEMMA LedTyped ==
    ASSUME CallAssumption, NEW s \in Status, NEW c \in Calls
    PROVE  Led(s, c) \in Status
<1>1. c \in Call  BY DEF CallAssumption
<1>2. c.from \in Pos /\ c.to \in Pos /\ c.kind \in Kinds  BY <1>1 DEF Call
<1>3. s.x \in Int /\ s.y \in Int /\ s.directionid \in Heading  BY DEF Status
<1>4. CASE c.kind = "forward"
  <2>1. c.n \in Int  BY <1>4 DEF CallAssumption
  <2>2. East(s.directionid) \in Int /\ North(s.directionid) \in Int  BY DEF East, North
  <2>3. /\ East(s.directionid) * GRID \in Int /\ North(s.directionid) * GRID \in Int
    BY <2>2 DEF GRID
  <2>4. /\ (East(s.directionid) * GRID) * c.n \in Int
        /\ (North(s.directionid) * GRID) * c.n \in Int
    BY <2>1, <2>3
  <2>5. Led(s, c) = [s EXCEPT !.x = @ + East(s.directionid) * GRID * c.n,
                              !.y = @ + North(s.directionid) * GRID * c.n]
    BY <1>4 DEF Led
  <2> DEFINE ex == (East(s.directionid) * GRID) * c.n
             ny == (North(s.directionid) * GRID) * c.n
  <2>6. Led(s, c) = [s EXCEPT !.x = s.x + ex, !.y = s.y + ny]  BY <2>5
  <2>7. ex \in Int /\ ny \in Int  BY <2>4
  <2> HIDE DEF ex, ny
  <2>8. s.x + ex \in Int /\ s.y + ny \in Int  BY <1>3, <2>7
  <2> QED  BY <1>3, <2>6, <2>8 DEF Status
<1>5. CASE c.kind = "move"
  <2>1. Led(s, c) = [s EXCEPT !.x = s.x + GRID, !.directionid = 0]  BY <1>5 DEF Led
  <2>2. s.x + GRID \in Int /\ 0 \in Heading  BY <1>3 DEF GRID, Heading
  <2> QED  BY <1>3, <2>1, <2>2 DEF Status
<1>6. CASE c.kind = "turn"
  <2>1. Led(s, c) = [s EXCEPT !.directionid = c.n] /\ c.n \in Heading
    BY <1>6 DEF Led, CallAssumption
  <2> QED  BY <1>3, <2>1 DEF Status
<1>7. CASE c.kind = "aim"
  <2>1. \E h \in Heading : Travels(c.from, c.to, h)  BY <1>7 DEF CallAssumption
  <2>2. (CHOOSE h \in Heading : Travels(c.from, c.to, h)) \in Heading  BY <2>1
  <2>3. Led(s, c) = [x |-> c.to.x, y |-> c.to.y,
                     directionid |-> CHOOSE h \in Heading : Travels(c.from, c.to, h)]
    BY <1>7 DEF Led
  <2> QED  BY <1>2, <2>2, <2>3 DEF Status, Pos
<1>8. CASE c.kind \notin {"forward", "move", "turn", "aim"}
  <2>1. Led(s, c) = s  BY <1>8 DEF Led
  <2> QED  BY <2>1
<1> QED  BY <1>4, <1>5, <1>6, <1>7, <1>8

LEMMA OutcomeTyped ==
    ASSUME NEW s \in Status, NEW c \in Command, Sound(c)
    PROVE  Outcome(s, c) \in Status /\ (c.type = "clear" => Outcome(s, c) = s)
<1>1. c.points \in Seq(Pos) /\ c.directionid \in Heading /\ c.type # "back"
  BY DEF Command, Sound
<1>2. CASE c.type \in Driving
  <2>1. Len(c.points) \in 1..Len(c.points) /\ c.directionid \in Heading
    BY <1>1, <1>2 DEF Sound
  <2>2. c.points[Len(c.points)] \in Pos  BY <1>1, <2>1
  <2>3. Outcome(s, c) = [x |-> c.points[Len(c.points)].x, y |-> c.points[Len(c.points)].y,
                         directionid |-> c.directionid]
    BY <1>2 DEF Outcome, Driving
  <2> QED  BY <1>2, <2>1, <2>2, <2>3 DEF Status, Pos, Driving
<1>3. CASE c.type = "turn"
  <2>1. Outcome(s, c) = [s EXCEPT !.directionid = c.directionid] /\ c.directionid \in Heading
    BY <1>3 DEF Outcome, Sound
  <2> QED  BY <1>3, <2>1 DEF Status
<1>4. CASE c.type \notin Driving /\ c.type # "turn"
  <2>1. Outcome(s, c) = s  BY <1>1, <1>4 DEF Outcome, Driving
  <2> QED  BY <2>1
<1> QED  BY <1>2, <1>3, <1>4

\* What is sent for a call is a command.
LEMMA BuildTyped ==
    ASSUME CallAssumption, TypeOK, NEW c \in Calls
    PROVE  Build(c) \in Command
<1>1. c \in Call  BY DEF CallAssumption
<1>2. c.kind \in Kinds /\ c.n \in Int /\ c.orderId \in Int /\ c.missionKey \in Int
  BY <1>1 DEF Call
<1>3. agvStatus \in Status /\ actionCnt \in Int /\ traceCnt \in Int  BY DEF TypeOK
<1>4. Points(c) \in Seq(Pos)  BY <1>3, PointsTyped
<1>5. DirectionId(c) \in Heading  BY <1>3, BuildSound
<1>6. /\ (IF FromRCS(c) THEN c.missionKey ELSE IF Counted(c) THEN actionCnt ELSE 0) \in Int
      /\ (IF FromRCS(c) THEN c.orderId ELSE IF Counted(c) THEN traceCnt ELSE 0) \in Int
      /\ (IF c.kind \in {"lift", "put", "rcslift"} THEN c.n ELSE 0) \in Int
  BY <1>2, <1>3
<1> QED  BY <1>2, <1>4, <1>5, <1>6 DEF Build, Command

-----------------------------------------------------------------------------
(* Types, and what is under way to the Agent and to the robot.             *)

LEMMA TypeStep ==
    ASSUME CallAssumption, TypeOK, CommandsInv, [Next]_vars
    PROVE  TypeOK'
<1>1. /\ robot \in Status /\ agvStatus \in Status /\ expected \in Status
      /\ clicks \in Seq(Call) /\ down \in Seq(Command)
      /\ actionCnt \in Nat /\ traceCnt \in Nat
      /\ up \in Seq(Signal) /\ gui \in Seq(Signal)
      /\ clicked \in Nat /\ seen \in Nat
  BY DEF TypeOK
<1>2. ready \in BOOLEAN /\ patient \in BOOLEAN  BY DEF TypeOK
<1>3. ASSUME NEW c \in Calls, Click(c) PROVE TypeOK'
  <2>1. c \in Call  BY DEF CallAssumption
  <2>2. clicks' \in Seq(Call)  BY <1>1, <1>3, <2>1 DEF Click
  <2>3. expected' \in Status  BY <1>1, <1>3, LedTyped DEF Click
  <2>4. clicked' \in Nat  BY <1>1, <1>3 DEF Click
  <2>5. patient' \in BOOLEAN /\ ready' \in BOOLEAN  BY <1>2, <1>3, Zenon DEF Click
  <2>6. UNCHANGED <<robot, agvStatus, actionCnt, traceCnt, down, up, gui, seen>>
    BY <1>3 DEF Click, agent
  <2> QED  BY <1>1, <2>2, <2>3, <2>4, <2>5, <2>6 DEF TypeOK
<1>4. CASE SlotCall
  <2>1. clicks # << >> /\ clicks' = Tail(clicks) /\ Head(clicks) \in Calls
    BY <1>1, <1>4 DEF SlotCall, CommandsInv
  <2>2. clicks' \in Seq(Call)  BY <1>1, <2>1
  <2>3. PICK c \in Calls : c = Head(clicks)  BY <2>1
  <2>4. /\ down' = Append(down, Build(c))
        /\ actionCnt' = actionCnt + (IF Counted(c) THEN 1 ELSE 0)
        /\ traceCnt' = traceCnt + (IF Counted(c) THEN 1 ELSE 0)
        /\ gui' = gui \/ gui' = Append(gui, [kind |-> "sent", status |-> agvStatus])
        /\ UNCHANGED <<robot, agvStatus, up, panel>>
    BY <1>4, <2>3 DEF SlotCall
  <2>5. down' \in Seq(Command)  BY <1>1, <2>4, BuildTyped
  <2>6. actionCnt' \in Nat /\ traceCnt' \in Nat  BY <1>1, <2>4
  <2>7. [kind |-> "sent", status |-> agvStatus] \in Signal  BY <1>1 DEF Signal
  <2>8. PICK e \in Signal : e = [kind |-> "sent", status |-> agvStatus]  BY <2>7
  <2>9. gui' = gui \/ gui' = Append(gui, e)  BY <2>4, <2>8
  <2>10. gui' \in Seq(Signal)
    <3>1. Append(gui, e) \in Seq(Signal)  BY <1>1, Appended, Zenon
    <3> QED  BY <1>1, <2>9, <3>1, Zenon
  <2> QED  BY <1>1, <1>2, <2>2, <2>4, <2>5, <2>6, <2>10 DEF TypeOK, panel
<1>5. CASE Receive
  <2>1. /\ up # << >> /\ gui' = Append(gui, Head(up)) /\ up' = Tail(up)
        /\ agvStatus' = IF Head(up).kind = "status" THEN Head(up).status ELSE agvStatus
        /\ UNCHANGED <<robot, clicks, actionCnt, traceCnt, down, panel>>
    BY <1>5 DEF Receive
  <2>2. Head(up) \in Signal /\ up' \in Seq(Signal)  BY <1>1, <2>1
  <2>3. gui' \in Seq(Signal)  BY <1>1, <2>1, <2>2
  <2>4. agvStatus' \in Status  BY <1>1, <2>1, <2>2 DEF Signal
  <2> QED  BY <1>1, <1>2, <2>1, <2>2, <2>3, <2>4 DEF TypeOK, panel
<1>6. CASE Show
  <2>1. /\ gui # << >> /\ gui' = Tail(gui)
        /\ seen' = IF Head(gui).kind = "event" THEN seen + 1 ELSE seen
        /\ UNCHANGED <<robot, clicks, agent, down, up, clicked, patient, expected>>
    BY <1>6 DEF Show
  <2>2. gui' \in Seq(Signal) /\ seen' \in Nat  BY <1>1, <2>1
  <2>3. ready' \in BOOLEAN  BY <1>6, Zenon DEF Show
  <2> QED  BY <1>1, <1>2, <2>1, <2>2, <2>3 DEF TypeOK, agent
<1>7. CASE Finish
  <2>1. /\ down # << >> /\ down' = Tail(down)
        /\ robot' = Outcome(robot, Head(down))
        /\ up' = up \/ up' = Append(up, [kind |-> "event", status |-> robot'])
        /\ UNCHANGED <<clicks, agent, gui, panel>>
    BY <1>7 DEF Finish
  <2>2. Head(down) \in Command /\ Sound(Head(down)) /\ down' \in Seq(Command)
    BY <1>1, <2>1 DEF CommandsInv
  <2>3. robot' \in Status  BY <1>1, <2>1, <2>2, OutcomeTyped
  <2>4. [kind |-> "event", status |-> robot'] \in Signal  BY <2>3 DEF Signal
  <2>5. PICK e \in Signal : e = [kind |-> "event", status |-> robot']  BY <2>4
  <2>6. up' = up \/ up' = Append(up, e)  BY <2>1, <2>5
  <2>7. up' \in Seq(Signal)
    <3>1. Append(up, e) \in Seq(Signal)  BY <1>1, Appended, Zenon
    <3> QED  BY <1>1, <2>6, <3>1, Zenon
  <2> QED  BY <1>1, <1>2, <2>1, <2>2, <2>3, <2>7 DEF TypeOK, agent, panel
<1>8. CASE Report
  <2>1. /\ up' = Append(up, [kind |-> "status", status |-> robot])
        /\ UNCHANGED <<robot, clicks, agent, down, gui, panel>>
    BY <1>8 DEF Report
  <2>2. [kind |-> "status", status |-> robot] \in Signal  BY <1>1 DEF Signal
  <2>3. up' \in Seq(Signal)  BY <1>1, <2>1, <2>2
  <2> QED  BY <1>1, <1>2, <2>1, <2>3 DEF TypeOK, agent, panel
<1>9. CASE UNCHANGED vars
  BY <1>1, <1>2, <1>9 DEF TypeOK, vars, agent, panel
<1> QED  BY <1>3, <1>4, <1>5, <1>6, <1>7, <1>8, <1>9 DEF Next

LEMMA CommandsStep ==
    ASSUME CallAssumption, TypeOK, CommandsInv, [Next]_vars
    PROVE  CommandsInv'
<1>1. clicks \in Seq(Call) /\ down \in Seq(Command) /\ agvStatus \in Status  BY DEF TypeOK
<1>2. /\ \A k \in 1..Len(clicks) : clicks[k] \in Calls
      /\ \A k \in 1..Len(down) : Sound(down[k]) /\ Straight(down[k])
  BY DEF CommandsInv
<1>3. ASSUME NEW c \in Calls, Click(c) PROVE CommandsInv'
  <2>1. clicks' = Append(clicks, c) /\ down' = down  BY <1>3 DEF Click
  <2>2. c \in Call  BY DEF CallAssumption
  <2>3. \A k \in 1..Len(clicks') : clicks'[k] \in Calls
    BY <1>1, <1>2, <2>1, <2>2, Appended
  <2> QED  BY <1>2, <2>1, <2>3 DEF CommandsInv
<1>4. CASE SlotCall
  <2>1. clicks # << >> /\ clicks' = Tail(clicks) /\ down' = Append(down, Build(Head(clicks)))
    BY <1>4 DEF SlotCall
  <2>2. Head(clicks) \in Calls /\ \A k \in 1..Len(clicks') : clicks'[k] \in Calls
    BY <1>1, <1>2, <2>1, Taken
  <2>3. PICK b \in Command : b = Build(Head(clicks)) /\ Sound(b) /\ Straight(b)
    BY <1>1, <2>2, BuildTyped, BuildSound
  <2>4. \A k \in 1..Len(down') : Sound(down'[k]) /\ Straight(down'[k])
    BY <1>1, <1>2, <2>1, <2>3, Appended
  <2> QED  BY <2>2, <2>4 DEF CommandsInv
<1>5. CASE Finish
  <2>1. down # << >> /\ down' = Tail(down) /\ clicks' = clicks  BY <1>5 DEF Finish
  <2>2. \A k \in 1..Len(down') : Sound(down'[k]) /\ Straight(down'[k])
    BY <1>1, <1>2, <2>1, Taken
  <2> QED  BY <1>2, <2>1, <2>2 DEF CommandsInv
<1>6. CASE Receive \/ Show \/ Report \/ UNCHANGED vars
  <2>1. clicks' = clicks /\ down' = down  BY <1>6 DEF Receive, Show, Report, vars
  <2> QED  BY <1>2, <2>1 DEF CommandsInv
<1> QED  BY <1>3, <1>4, <1>5, <1>6 DEF Next

-----------------------------------------------------------------------------
(* Where the call of a patient operator goes, step by step.                *)

LEMMA PatientClick ==
    ASSUME CallAssumption, TypeOK, CommandsInv, PatientInv, NEW c \in Calls, Click(c)
    PROVE  PatientInv'
<1>1. clicks \in Seq(Call) /\ clicked \in Nat /\ seen \in Nat  BY DEF TypeOK
<1>2. c \in Call  BY DEF CallAssumption
<1>3. /\ clicks' = Append(clicks, c) /\ expected' = Led(expected, c)
      /\ UNCHANGED <<robot, agvStatus, down, up, gui, seen>>
  BY DEF Click, agent
<1>4. c.kind = "clear" => UNCHANGED <<clicked, ready>>  BY DEF Click
<1>5. c.kind # "clear" => clicked' = clicked + 1 /\ ready' = FALSE  BY DEF Click
<1> SUFFICES ASSUME patient' PROVE Idle' \/ Asked'
  BY DEF PatientInv
<1>6. ready /\ Idle
  <2>1. patient /\ ready  BY Zenon DEF Click
  <2> QED  BY <2>1, Zenon DEF PatientInv, Busy, Asked, Sent, Reported, Answered
<1>7. /\ clicked = seen /\ robot = expected /\ agvStatus = robot
      /\ NoWorkAsked /\ NoWorkSent /\ NoEventUp /\ NoEventGui /\ UpFresh
  BY <1>6 DEF Idle
<1>8. NoWorkSent' /\ NoEventUp' /\ NoEventGui' /\ UpFresh'
  BY <1>3, <1>7 DEF NoWorkSent, NoEventUp, NoEventGui, UpFresh
<1>9. /\ Len(clicks) \in Nat /\ Len(clicks') = Len(clicks) + 1
      /\ \A k \in 1..Len(clicks) : clicks'[k] = clicks[k]
      /\ clicks'[Len(clicks) + 1] = c
  BY <1>1, <1>2, <1>3, Appended
<1>10. \A k \in 1..Len(clicks') : k # Len(clicks) + 1 => clicks'[k].kind = "clear"
  BY <1>7, <1>9 DEF NoWorkAsked
<1>11. CASE c.kind = "clear"
  <2>1. expected' = expected  BY <1>3, <1>11 DEF Led
  <2>2. NoWorkAsked'  BY <1>9, <1>10, <1>11 DEF NoWorkAsked
  <2> QED  BY <1>3, <1>4, <1>7, <1>8, <1>11, <2>1, <2>2 DEF Idle
<1>12. CASE c.kind # "clear"
  <2>1. PICK k \in 1..Len(clicks') : k = Len(clicks) + 1  BY <1>9
  <2>2. clicks'[k].kind # "clear" /\ expected' = Led(robot', clicks'[k])
    BY <1>3, <1>7, <1>9, <1>12, <2>1
  <2>3. \A n \in 1..Len(clicks') : n # k => clicks'[n].kind = "clear"  BY <1>10, <2>1
  <2>4. Busy' /\ agvStatus' = robot'  BY <1>1, <1>3, <1>5, <1>7, <1>12 DEF Busy
  <2> QED  BY <1>8, <2>2, <2>3, <2>4 DEF Asked
<1> QED  BY <1>11, <1>12

LEMMA PatientSlotCall ==
    ASSUME CallAssumption, TypeOK, CommandsInv, PatientInv, SlotCall
    PROVE  PatientInv'
<1>1. /\ clicks \in Seq(Call) /\ down \in Seq(Command) /\ gui \in Seq(Signal)
      /\ agvStatus \in Status
  BY DEF TypeOK
<1>2. clicks # << >> /\ clicks' = Tail(clicks)  BY DEF SlotCall
<1>3. PICK c \in Calls : c = Head(clicks)  BY <1>1, <1>2 DEF CommandsInv
<1>4. PICK b \in Command : /\ b = Build(c) /\ b.type = c.kind
                          /\ Outcome(agvStatus, b) = Led(agvStatus, c)
  BY <1>1, BuildTyped, BuildSound, BuildFields
<1>5. /\ down' = Append(down, b)
      /\ UNCHANGED <<robot, agvStatus, up, panel>>
  BY <1>3, <1>4 DEF SlotCall
<1>6. PICK e \in Signal : e = [kind |-> "sent", status |-> agvStatus]  BY <1>1 DEF Signal
<1>7. gui' = gui \/ gui' = Append(gui, e)  BY <1>3, <1>6 DEF SlotCall
<1>8. /\ \A k \in 1..Len(clicks') : k + 1 \in 1..Len(clicks) /\ clicks'[k] = clicks[k + 1]
      /\ \A k \in 2..Len(clicks) : k - 1 \in 1..Len(clicks') /\ clicks[k] = clicks'[k - 1]
      /\ Len(clicks) \in Nat /\ 1 \in 1..Len(clicks) /\ clicks[1] = c
  BY <1>1, <1>2, <1>3, Taken
<1>9. /\ Len(down) \in Nat /\ Len(down') = Len(down) + 1
      /\ \A k \in 1..Len(down) : down'[k] = down[k]
      /\ down'[Len(down) + 1] = b
  BY <1>1, <1>5, Appended
<1>10. NoEventGui => NoEventGui'
  <2>1. CASE gui' = gui  BY <2>1 DEF NoEventGui
  <2>2. CASE gui' = Append(gui, e)
    <3>1. /\ Len(gui) \in Nat /\ Len(gui') = Len(gui) + 1
          /\ \A k \in 1..Len(gui) : gui'[k] = gui[k]
          /\ gui'[Len(gui) + 1].kind = "sent"
      BY <1>1, <1>6, <2>2, Appended
    <3> QED  BY <3>1 DEF NoEventGui
  <2> QED  BY <1>7, <2>1, <2>2
<1>11. c.kind = "clear" => gui' = gui  BY <1>3 DEF SlotCall
<1>12. /\ NoEventUp => NoEventUp'
       /\ UpFresh => UpFresh'
       /\ Busy => Busy'
  BY <1>5 DEF NoEventUp, UpFresh, Busy, panel
<1>13. NoWorkAsked => c.kind = "clear" /\ NoWorkAsked'  BY <1>8 DEF NoWorkAsked
<1>14. c.kind = "clear" /\ NoWorkSent => NoWorkSent'  BY <1>4, <1>9 DEF NoWorkSent
<1> SUFFICES ASSUME patient' PROVE (Idle \/ Asked \/ Sent \/ Reported \/ Answered)'
  BY DEF PatientInv
<1>15. patient  BY <1>5, Zenon DEF panel
<1>16. CASE Idle
  BY <1>5, <1>10, <1>11, <1>12, <1>13, <1>14, <1>16 DEF Idle, panel
<1>17. CASE Asked
  <2>1. PICK k \in 1..Len(clicks) :
           /\ clicks[k].kind # "clear" /\ expected = Led(robot, clicks[k])
           /\ \A n \in 1..Len(clicks) : n # k => clicks[n].kind = "clear"
    BY <1>17 DEF Asked
  <2>2. CASE k = 1
    <3>1. NoWorkAsked'  BY <1>8, <2>1, <2>2 DEF NoWorkAsked
    <3>2. PICK i \in 1..Len(down') : i = Len(down) + 1  BY <1>9
    <3>3. down'[i].type # "clear" /\ expected' = Outcome(robot', down'[i])
      BY <1>4, <1>5, <1>8, <1>9, <1>17, <2>1, <2>2, <3>2 DEF Asked, panel
    <3>4. \A n \in 1..Len(down') : n # i => down'[n].type = "clear"
      BY <1>9, <1>17, <3>2 DEF Asked, NoWorkSent
    <3> QED  BY <1>10, <1>12, <1>17, <3>1, <3>3, <3>4 DEF Asked, Sent
  <2>3. CASE k # 1
    <3>1. PICK i \in 1..Len(clicks') : i = k - 1  BY <1>8, <2>1, <2>3
    <3>2. clicks'[i] = clicks[k] /\ c.kind = "clear"  BY <1>8, <2>1, <2>3, <3>1
    <3>3. \A n \in 1..Len(clicks') : n # i => clicks'[n].kind = "clear"
      BY <1>8, <2>1, <3>1
    <3>4. clicks'[i].kind # "clear" /\ expected' = Led(robot', clicks'[i])
      BY <1>5, <2>1, <3>2 DEF panel
    <3>5. Busy' /\ NoWorkSent' /\ NoEventUp' /\ NoEventGui' /\ UpFresh' /\ agvStatus' = robot'
      BY <1>5, <1>10, <1>12, <1>14, <1>17, <3>2 DEF Asked
    <3> QED  BY <3>3, <3>4, <3>5 DEF Asked
  <2> QED  BY <2>2, <2>3
<1>18. CASE Sent
  <2>1. PICK k \in 1..Len(down) :
           /\ down[k].type # "clear" /\ expected = Outcome(robot, down[k])
           /\ \A n \in 1..Len(down) : n # k => down[n].type = "clear"
    BY <1>18 DEF Sent
  <2>2. c.kind = "clear" /\ NoWorkAsked'  BY <1>13, <1>18 DEF Sent
  <2>3. k \in 1..Len(down') /\ down'[k] = down[k]  BY <1>9
  <2>4. \A n \in 1..Len(down') : n # k => down'[n].type = "clear"
    BY <1>4, <1>9, <2>1, <2>2
  <2>5. expected' = Outcome(robot', down'[k]) /\ down'[k].type # "clear"
    BY <1>5, <2>1, <2>3 DEF panel
  <2>6. Busy' /\ NoEventUp' /\ NoEventGui'  BY <1>10, <1>12, <1>18 DEF Sent
  <2> QED  BY <2>2, <2>3, <2>4, <2>5, <2>6 DEF Sent
<1>19. CASE Reported
  <2>1. c.kind = "clear" /\ NoWorkAsked' /\ NoWorkSent' /\ NoEventGui' /\ Busy'
    BY <1>10, <1>12, <1>13, <1>14, <1>19 DEF Reported
  <2> QED  BY <1>5, <1>19, <2>1 DEF Reported, panel
<1>20. CASE Answered
  <2>1. /\ c.kind = "clear" /\ NoWorkAsked' /\ NoWorkSent' /\ NoEventUp' /\ UpFresh' /\ Busy'
        /\ gui' = gui
    BY <1>11, <1>12, <1>13, <1>14, <1>20 DEF Answered
  <2> QED  BY <1>5, <1>20, <2>1 DEF Answered, panel
<1> QED  BY <1>15, <1>16, <1>17, <1>18, <1>19, <1>20, Zenon DEF PatientInv

LEMMA PatientReceive ==
    ASSUME TypeOK, PatientInv, Receive
    PROVE  PatientInv'
<1>1. up \in Seq(Signal) /\ gui \in Seq(Signal)  BY DEF TypeOK
<1>2. /\ up # << >> /\ up' = Tail(up) /\ gui' = Append(gui, Head(up))
      /\ agvStatus' = IF Head(up).kind = "status" THEN Head(up).status ELSE agvStatus
      /\ UNCHANGED <<robot, clicks, down, panel>>
  BY DEF Receive
<1>3. PICK e \in Signal : e = Head(up)  BY <1>1, <1>2
<1>4. /\ \A k \in 1..Len(up') : k + 1 \in 1..Len(up) /\ up'[k] = up[k + 1]
      /\ \A k \in 2..Len(up) : k - 1 \in 1..Len(up') /\ up[k] = up'[k - 1]
      /\ Len(up) \in Nat /\ 1 \in 1..Len(up) /\ up[1] = e
  BY <1>1, <1>2, <1>3, Taken
<1>5. /\ Len(gui) \in Nat /\ Len(gui') = Len(gui) + 1
      /\ \A k \in 1..Len(gui) : gui'[k] = gui[k]
      /\ gui'[Len(gui) + 1] = e
  BY <1>1, <1>2, <1>3, Appended
<1>6. e.kind = "status" => agvStatus' = e.status  BY <1>2, <1>3
<1>7. e.kind # "status" => agvStatus' = agvStatus  BY <1>2, <1>3
<1>8. /\ NoWorkAsked => NoWorkAsked'
      /\ NoWorkSent => NoWorkSent'
      /\ Busy => Busy'
  BY <1>2 DEF NoWorkAsked, NoWorkSent, Busy, panel
<1>9. NoEventUp => e.kind # "event" /\ NoEventUp'  BY <1>4 DEF NoEventUp
<1>10. UpFresh => UpFresh' /\ (e.kind = "status" => e.status = robot)
  BY <1>2, <1>4 DEF UpFresh
<1>11. NoEventGui /\ e.kind # "event" => NoEventGui'  BY <1>5 DEF NoEventGui
<1> SUFFICES ASSUME patient' PROVE (Idle \/ Asked \/ Sent \/ Reported \/ Answered)'
  BY DEF PatientInv
<1>12. patient  BY <1>2, Zenon DEF panel
<1>13. CASE Idle
  <2>1. UpFresh /\ NoEventUp /\ NoEventGui /\ NoWorkAsked /\ NoWorkSent
        /\ clicked = seen /\ robot = expected /\ (ready => agvStatus = robot)
        /\ \A k \in 1..Len(gui) : gui[k].kind = "status" => agvStatus = robot
    BY <1>13 DEF Idle
  <2>2. ready => agvStatus' = robot  BY <1>6, <1>7, <1>10, <2>1
  <2>3. \A k \in 1..Len(gui') : gui'[k].kind = "status" => agvStatus' = robot
    BY <1>5, <1>6, <1>7, <1>10, <2>1
  <2>4. UpFresh' /\ NoEventUp' /\ NoEventGui' /\ NoWorkAsked' /\ NoWorkSent'
    BY <1>8, <1>9, <1>10, <1>11, <2>1
  <2> QED  BY <1>2, <2>1, <2>2, <2>3, <2>4 DEF Idle, panel
<1>14. CASE Asked
  <2>1. Busy' /\ NoWorkSent' /\ NoEventUp' /\ NoEventGui' /\ UpFresh' /\ agvStatus' = robot
    BY <1>6, <1>7, <1>8, <1>9, <1>10, <1>11, <1>14 DEF Asked
  <2> QED  BY <1>2, <1>14, <2>1 DEF Asked, panel
<1>15. CASE Sent
  <2>1. Busy' /\ NoWorkAsked' /\ NoEventUp' /\ NoEventGui'
    BY <1>8, <1>9, <1>11, <1>15 DEF Sent
  <2> QED  BY <1>2, <1>15, <2>1 DEF Sent, panel
<1>16. CASE Reported
  <2>1. PICK k \in 1..Len(up) :
           /\ up[k].kind = "event"
           /\ \A n \in 1..Len(up) : n # k => up[n].kind # "event"
           /\ \A n \in 1..Len(up) : n > k /\ up[n].kind = "status" => up[n].status = robot
    BY <1>16 DEF Reported
  <2>2. Busy' /\ NoWorkAsked' /\ NoWorkSent' /\ robot' = expected'
    BY <1>2, <1>8, <1>16 DEF Reported, panel
  <2>3. CASE k = 1
    <3>1. NoEventUp'  BY <1>4, <2>1, <2>3 DEF NoEventUp
    <3>2. UpFresh'  BY <1>2, <1>4, <2>1, <2>3 DEF UpFresh
    <3>3. PICK i \in 1..Len(gui') : i = Len(gui) + 1  BY <1>5
    <3>4. gui'[i].kind = "event"  BY <1>4, <1>5, <2>1, <2>3, <3>3
    <3>5. \A n \in 1..Len(gui') : n # i => gui'[n].kind # "event"
      BY <1>5, <1>16, <3>3 DEF Reported, NoEventGui
    <3>6. \A n \in 1..Len(gui') : ~(n > i)  BY <1>5, <3>3
    <3> QED  BY <2>2, <3>1, <3>2, <3>4, <3>5, <3>6 DEF Answered
  <2>4. CASE k # 1
    <3>1. PICK i \in 1..Len(up') : i = k - 1 /\ up'[i] = up[k]  BY <1>4, <2>1, <2>4
    <3>2. e.kind # "event"  BY <1>4, <2>1, <2>4
    <3>3. \A n \in 1..Len(up') : n # i => up'[n].kind # "event"  BY <1>4, <2>1, <3>1
    <3>4. \A n \in 1..Len(up') : n > i /\ up'[n].kind = "status" => up'[n].status = robot'
      BY <1>2, <1>4, <2>1, <3>1
    <3>5. NoEventGui'  BY <1>11, <1>16, <3>2 DEF Reported
    <3> QED  BY <2>1, <2>2, <3>1, <3>3, <3>4, <3>5 DEF Reported
  <2> QED  BY <2>3, <2>4
<1>17. CASE Answered
  <2>1. PICK k \in 1..Len(gui) :
           /\ gui[k].kind = "event"
           /\ \A n \in 1..Len(gui) : n # k => gui[n].kind # "event"
           /\ \A n \in 1..Len(gui) : n > k /\ gui[n].kind = "status" => agvStatus = robot
    BY <1>17 DEF Answered
  <2>2. Busy' /\ NoWorkAsked' /\ NoWorkSent' /\ robot' = expected' /\ NoEventUp' /\ UpFresh'
    BY <1>2, <1>8, <1>9, <1>10, <1>17 DEF Answered, panel
  <2>3. e.kind # "event" /\ (e.kind = "status" => agvStatus' = robot')
    BY <1>2, <1>6, <1>9, <1>10, <1>17 DEF Answered
  <2>4. k \in 1..Len(gui') /\ gui'[k] = gui[k]  BY <1>5
  <2>5. \A n \in 1..Len(gui') : n # k => gui'[n].kind # "event"  BY <1>5, <2>1, <2>3
  <2>6. \A n \in 1..Len(gui') : n > k /\ gui'[n].kind = "status" => agvStatus' = robot'
    BY <1>2, <1>5, <1>7, <2>1, <2>3
  <2> QED  BY <2>1, <2>2, <2>4, <2>5, <2>6 DEF Answered
<1> QED  BY <1>12, <1>13, <1>14, <1>15, <1>16, <1>17, Zenon DEF PatientInv

LEMMA PatientShow ==
    ASSUME TypeOK, PatientInv, Show
    PROVE  PatientInv'
<1>1. gui \in Seq(Signal) /\ clicked \in Nat /\ seen \in Nat  BY DEF TypeOK
<1>2. /\ gui # << >> /\ gui' = Tail(gui)
      /\ seen' = IF Head(gui).kind = "event" THEN seen + 1 ELSE seen
      /\ UNCHANGED <<robot, clicks, agvStatus, down, up, clicked, patient, expected>>
  BY DEF Show, agent
<1>3. PICK e \in Signal : e = Head(gui)  BY <1>1, <1>2
<1>4. ready' <=> (ready \/ (e.kind = "status" /\ seen = clicked))
  BY <1>3, Zenon DEF Show
<1>5. /\ \A k \in 1..Len(gui') : k + 1 \in 1..Len(gui) /\ gui'[k] = gui[k + 1]
      /\ \A k \in 2..Len(gui) : k - 1 \in 1..Len(gui') /\ gui[k] = gui'[k - 1]
      /\ Len(gui) \in Nat /\ 1 \in 1..Len(gui) /\ gui[1] = e
  BY <1>1, <1>2, <1>3, Taken
<1>6. /\ NoWorkAsked => NoWorkAsked'
      /\ NoWorkSent => NoWorkSent'
      /\ NoEventUp => NoEventUp'
      /\ UpFresh => UpFresh'
  BY <1>2 DEF NoWorkAsked, NoWorkSent, NoEventUp, UpFresh
<1>7. NoEventGui => e.kind # "event" /\ NoEventGui'  BY <1>5 DEF NoEventGui
<1>8. e.kind # "event" /\ Busy => Busy'
  <2> SUFFICES ASSUME e.kind # "event", Busy PROVE Busy'
    OBVIOUS
  <2>1. clicked' = seen' + 1 /\ seen # clicked  BY <1>1, <1>2, <1>3 DEF Busy
  <2>2. ~ready'  BY <1>4, <2>1, Zenon DEF Busy
  <2> QED  BY <2>1, <2>2 DEF Busy
<1> SUFFICES ASSUME patient' PROVE (Idle \/ Asked \/ Sent \/ Reported \/ Answered)'
  BY DEF PatientInv
<1>9. patient  BY <1>2, Zenon
<1>10. CASE Idle
  <2>1. UpFresh /\ NoEventUp /\ NoEventGui /\ NoWorkAsked /\ NoWorkSent
        /\ clicked = seen /\ robot = expected /\ (ready => agvStatus = robot)
        /\ \A k \in 1..Len(gui) : gui[k].kind = "status" => agvStatus = robot
    BY <1>10 DEF Idle
  <2>2. clicked' = seen'  BY <1>2, <1>3, <1>7, <2>1
  <2>3. ready' => agvStatus' = robot'
    <3>1. e.kind = "status" => agvStatus = robot  BY <1>5, <2>1
    <3> QED  BY <1>2, <1>4, <2>1, <3>1
  <2>4. \A k \in 1..Len(gui') : gui'[k].kind = "status" => agvStatus' = robot'
    BY <1>2, <1>5, <2>1
  <2> QED  BY <1>2, <1>6, <1>7, <2>1, <2>2, <2>3, <2>4 DEF Idle
<1>11. CASE Asked
  <2>1. Busy' /\ NoWorkSent' /\ NoEventUp' /\ NoEventGui' /\ UpFresh' /\ agvStatus' = robot'
    BY <1>2, <1>6, <1>7, <1>8, <1>11 DEF Asked
  <2> QED  BY <1>2, <1>11, <2>1 DEF Asked
<1>12. CASE Sent
  <2>1. Busy' /\ NoWorkAsked' /\ NoEventUp' /\ NoEventGui'
    BY <1>6, <1>7, <1>8, <1>12 DEF Sent
  <2> QED  BY <1>2, <1>12, <2>1 DEF Sent
<1>13. CASE Reported
  <2>1. Busy' /\ NoWorkAsked' /\ NoWorkSent' /\ NoEventGui'
    BY <1>6, <1>7, <1>8, <1>13 DEF Reported
  <2> QED  BY <1>2, <1>13, <2>1 DEF Reported
<1>14. CASE Answered
  <2>1. PICK k \in 1..Len(gui) :
           /\ gui[k].kind = "event"
           /\ \A n \in 1..Len(gui) : n # k => gui[n].kind # "event"
           /\ \A n \in 1..Len(gui) : n > k /\ gui[n].kind = "status" => agvStatus = robot
    BY <1>14 DEF Answered
  <2>2. NoWorkAsked' /\ NoWorkSent' /\ robot' = expected' /\ NoEventUp' /\ UpFresh'
    BY <1>2, <1>6, <1>14 DEF Answered
  <2>3. CASE k = 1
    <3>1. e.kind = "event"  BY <1>5, <2>1, <2>3
    <3>2. clicked' = seen'  BY <1>2, <1>3, <1>14, <3>1 DEF Answered, Busy
    <3>3. ~ready'
      <4>1. ~ready /\ e.kind # "status"  BY <1>14, <3>1 DEF Answered, Busy
      <4> QED  BY <1>4, <4>1, Zenon
    <3>4. NoEventGui'  BY <1>5, <2>1, <2>3 DEF NoEventGui
    <3>5. \A n \in 1..Len(gui') : gui'[n].kind = "status" => agvStatus' = robot'
      BY <1>2, <1>5, <2>1, <2>3
    <3> QED  BY <2>2, <3>2, <3>3, <3>4, <3>5 DEF Idle
  <2>4. CASE k # 1
    <3>1. PICK i \in 1..Len(gui') : i = k - 1 /\ gui'[i] = gui[k]  BY <1>5, <2>1, <2>4
    <3>2. e.kind # "event"  BY <1>5, <2>1, <2>4
    <3>3. \A n \in 1..Len(gui') : n # i => gui'[n].kind # "event"  BY <1>5, <2>1, <3>1
    <3>4. \A n \in 1..Len(gui') : n > i /\ gui'[n].kind = "status" => agvStatus' = robot'
      BY <1>2, <1>5, <2>1, <3>1
    <3>5. Busy'  BY <1>8, <1>14, <3>2 DEF Answered
    <3> QED  BY <2>1, <2>2, <3>1, <3>3, <3>4, <3>5 DEF Answered
  <2> QED  BY <2>3, <2>4
<1> QED  BY <1>9, <1>10, <1>11, <1>12, <1>13, <1>14, Zenon DEF PatientInv

LEMMA PatientFinish ==
    ASSUME TypeOK, CommandsInv, PatientInv, Finish
    PROVE  PatientInv'
<1>1. down \in Seq(Command) /\ up \in Seq(Signal) /\ robot \in Status  BY DEF TypeOK
<1>2. /\ down # << >> /\ down' = Tail(down) /\ robot' = Outcome(robot, Head(down))
      /\ UNCHANGED <<clicks, agvStatus, gui, panel>>
  BY DEF Finish, agent
<1>3. PICK c \in Command : c = Head(down) /\ Sound(c)  BY <1>1, <1>2 DEF CommandsInv
<1>4. robot' = Outcome(robot, c)  BY <1>2, <1>3
<1>4a. c.type = "clear" => robot' = robot  BY <1>1, <1>3, <1>4, OutcomeTyped
<1>5. /\ \A k \in 1..Len(down') : k + 1 \in 1..Len(down) /\ down'[k] = down[k + 1]
      /\ \A k \in 2..Len(down) : k - 1 \in 1..Len(down') /\ down[k] = down'[k - 1]
      /\ Len(down) \in Nat /\ 1 \in 1..Len(down) /\ down[1] = c
  BY <1>1, <1>2, <1>3, Taken
<1>6. c.type = "clear" => up' = up  BY <1>3 DEF Finish
<1>7. /\ NoWorkAsked => NoWorkAsked'
      /\ NoEventGui => NoEventGui'
      /\ Busy => Busy'
  BY <1>2 DEF NoWorkAsked, NoEventGui, Busy, panel
<1>8. NoWorkSent => c.type = "clear" /\ NoWorkSent'  BY <1>5 DEF NoWorkSent
<1>9. /\ c.type = "clear" /\ NoEventUp => NoEventUp'
      /\ c.type = "clear" /\ UpFresh => UpFresh'
  BY <1>6, <1>4a DEF NoEventUp, UpFresh
<1> SUFFICES ASSUME patient' PROVE (Idle \/ Asked \/ Sent \/ Reported \/ Answered)'
  BY DEF PatientInv
<1>10. patient  BY <1>2, Zenon DEF panel
<1>11. CASE Idle
  <2>1. c.type = "clear" /\ NoWorkSent'  BY <1>8, <1>11 DEF Idle
  <2>2. UpFresh' /\ NoEventUp' /\ NoEventGui' /\ NoWorkAsked' /\ robot' = robot
    BY <1>7, <1>9, <1>11, <1>4a, <2>1 DEF Idle
  <2> QED  BY <1>2, <1>11, <2>1, <2>2 DEF Idle, panel
<1>12. CASE Asked
  <2>1. c.type = "clear" /\ NoWorkSent'  BY <1>8, <1>12 DEF Asked
  <2>2. UpFresh' /\ NoEventUp' /\ NoEventGui' /\ Busy' /\ robot' = robot
    BY <1>7, <1>9, <1>12, <1>4a, <2>1 DEF Asked
  <2> QED  BY <1>2, <1>12, <2>1, <2>2 DEF Asked, panel
<1>13. CASE Sent
  <2>1. PICK k \in 1..Len(down) :
           /\ down[k].type # "clear" /\ expected = Outcome(robot, down[k])
           /\ \A n \in 1..Len(down) : n # k => down[n].type = "clear"
    BY <1>13 DEF Sent
  <2>2. CASE k = 1
    <3>1. c.type # "clear" /\ robot' = expected'  BY <1>2, <1>4, <1>5, <2>1, <2>2 DEF panel
    <3>2. NoWorkSent'  BY <1>5, <2>1, <2>2 DEF NoWorkSent
    <3>3. robot' \in Status  BY <1>1, <1>3, <1>4, OutcomeTyped
    <3>4. PICK e \in Signal : e = [kind |-> "event", status |-> robot']
      BY <3>3 DEF Signal
    <3>5. up' = Append(up, e) /\ e.kind = "event"  BY <1>3, <3>1, <3>4 DEF Finish
    <3>6. /\ Len(up) \in Nat /\ Len(up') = Len(up) + 1
          /\ \A i \in 1..Len(up) : up'[i] = up[i]
          /\ up'[Len(up) + 1] = e
      BY <1>1, <3>5, Appended
    <3>7. PICK i \in 1..Len(up') : i = Len(up) + 1  BY <3>6
    <3>8. \A n \in 1..Len(up') : n # i => up'[n].kind # "event"
      BY <1>13, <3>6, <3>7 DEF Sent, NoEventUp
    <3>9. up'[i].kind = "event" /\ \A n \in 1..Len(up') : ~(n > i)
      BY <3>5, <3>6, <3>7
    <3>10. Busy' /\ NoWorkAsked' /\ NoEventGui'  BY <1>7, <1>13 DEF Sent
    <3> QED  BY <3>1, <3>2, <3>8, <3>9, <3>10 DEF Reported
  <2>3. CASE k # 1
    <3>1. PICK i \in 1..Len(down') : i = k - 1 /\ down'[i] = down[k]  BY <1>5, <2>1, <2>3
    <3>2. c.type = "clear"  BY <1>5, <2>1, <2>3
    <3>3. robot' = robot /\ NoEventUp'  BY <1>9, <1>13, <1>4a, <3>2 DEF Sent
    <3>4. down'[i].type # "clear" /\ expected' = Outcome(robot', down'[i])
      BY <1>2, <2>1, <3>1, <3>3 DEF panel
    <3>5. \A n \in 1..Len(down') : n # i => down'[n].type = "clear"  BY <1>5, <2>1, <3>1
    <3>6. Busy' /\ NoWorkAsked' /\ NoEventGui'  BY <1>7, <1>13 DEF Sent
    <3> QED  BY <3>3, <3>4, <3>5, <3>6 DEF Sent
  <2> QED  BY <2>2, <2>3
<1>14. CASE Reported
  <2>1. c.type = "clear" /\ NoWorkSent' /\ NoWorkAsked' /\ NoEventGui' /\ Busy'
    BY <1>7, <1>8, <1>14 DEF Reported
  <2>2. up' = up /\ robot' = robot  BY <1>6, <1>4a, <2>1
  <2> QED  BY <1>2, <1>14, <2>1, <2>2 DEF Reported, panel
<1>15. CASE Answered
  <2>1. c.type = "clear" /\ NoWorkSent' /\ NoWorkAsked' /\ Busy'
    BY <1>7, <1>8, <1>15 DEF Answered
  <2>2. NoEventUp' /\ UpFresh' /\ robot' = robot  BY <1>9, <1>15, <1>4a, <2>1 DEF Answered
  <2> QED  BY <1>2, <1>15, <2>1, <2>2 DEF Answered, panel
<1> QED  BY <1>10, <1>11, <1>12, <1>13, <1>14, <1>15, Zenon DEF PatientInv

LEMMA PatientReport ==
    ASSUME TypeOK, PatientInv, Report
    PROVE  PatientInv'
<1>1. up \in Seq(Signal) /\ robot \in Status  BY DEF TypeOK
<1>2. PICK e \in Signal : e = [kind |-> "status", status |-> robot]  BY <1>1 DEF Signal
<1>3. up' = Append(up, e) /\ UNCHANGED <<robot, clicks, agvStatus, down, gui, panel>>
  BY <1>2 DEF Report, agent
<1>4. /\ Len(up) \in Nat /\ Len(up') = Len(up) + 1
      /\ \A k \in 1..Len(up) : up'[k] = up[k]
      /\ up'[Len(up) + 1] = e
  BY <1>1, <1>3, Appended
<1>5. /\ NoWorkAsked => NoWorkAsked'
      /\ NoWorkSent => NoWorkSent'
      /\ NoEventGui => NoEventGui'
      /\ Busy => Busy'
  BY <1>3 DEF NoWorkAsked, NoWorkSent, NoEventGui, Busy, panel
<1>6. NoEventUp => NoEventUp'  BY <1>2, <1>4 DEF NoEventUp
<1>7. UpFresh => UpFresh'  BY <1>2, <1>3, <1>4 DEF UpFresh
<1> SUFFICES ASSUME patient' PROVE (Idle \/ Asked \/ Sent \/ Reported \/ Answered)'
  BY DEF PatientInv
<1>8. patient  BY <1>3, Zenon DEF panel
<1>9. CASE Idle
  BY <1>3, <1>5, <1>6, <1>7, <1>9 DEF Idle, panel
<1>10. CASE Asked
  BY <1>3, <1>5, <1>6, <1>7, <1>10 DEF Asked, panel
<1>11. CASE Sent
  BY <1>3, <1>5, <1>6, <1>11 DEF Sent, panel
<1>12. CASE Reported
  <2>1. PICK k \in 1..Len(up) :
           /\ up[k].kind = "event"
           /\ \A n \in 1..Len(up) : n # k => up[n].kind # "event"
           /\ \A n \in 1..Len(up) : n > k /\ up[n].kind = "status" => up[n].status = robot
    BY <1>12 DEF Reported
  <2>2. k \in 1..Len(up') /\ up'[k].kind = "event"  BY <1>4, <2>1
  <2>3. \A n \in 1..Len(up') : n # k => up'[n].kind # "event"  BY <1>2, <1>4, <2>1
  <2>4. \A n \in 1..Len(up') : n > k /\ up'[n].kind = "status" => up'[n].status = robot'
    <3> SUFFICES ASSUME NEW n \in 1..Len(up'), n > k, up'[n].kind = "status"
                 PROVE  up'[n].status = robot
      BY <1>3
    <3>1. CASE n \in 1..Len(up)  BY <1>4, <2>1, <3>1
    <3>2. CASE n = Len(up) + 1  BY <1>2, <1>4, <3>2
    <3> QED  BY <1>4, <3>1, <3>2
  <2>5. Busy' /\ NoWorkAsked' /\ NoWorkSent' /\ NoEventGui' /\ robot' = expected'
    BY <1>3, <1>5, <1>12 DEF Reported, panel
  <2> QED  BY <2>2, <2>3, <2>4, <2>5 DEF Reported
<1>13. CASE Answered
  BY <1>3, <1>5, <1>6, <1>7, <1>13 DEF Answered, panel
<1> QED  BY <1>8, <1>9, <1>10, <1>11, <1>12, <1>13, Zenon DEF PatientInv

LEMMA PatientStep ==
    ASSUME CallAssumption, TypeOK, CommandsInv, PatientInv, [Next]_vars
    PROVE  PatientInv'
<1>1. ASSUME NEW c \in Calls, Click(c) PROVE PatientInv'  BY <1>1, PatientClick
<1>2. CASE SlotCall  BY <1>2, PatientSlotCall
<1>3. CASE Receive   BY <1>3, PatientReceive
<1>4. CASE Show      BY <1>4, PatientShow
<1>5. CASE Finish    BY <1>5, PatientFinish
<1>6. CASE Report    BY <1>6, PatientReport
<1>7. CASE UNCHANGED vars
  BY <1>7 DEF PatientInv, Idle, Asked, Sent, Reported, Answered, Busy, NoWorkAsked,
              NoWorkSent, NoEventUp, NoEventGui, UpFresh, vars, agent, panel
<1> QED  BY <1>1, <1>2, <1>3, <1>4, <1>5, <1>6, <1>7 DEF Next

-----------------------------------------------------------------------------
(* The theorems.                                                           *)

LEMMA Initially ==
    ASSUME CallAssumption, Init
    PROVE  IInv
<1>1. robot \in Status /\ expected \in Status /\ expected = robot
  BY DEF Init, CallAssumption
<1>2. agvStatus \in Status  BY DEF Init, Status, Heading
<1>3. clicks = << >> /\ down = << >> /\ up = << >> /\ gui = << >>  BY DEF Init
<1>4. ready = FALSE /\ patient = TRUE /\ clicked = 0 /\ seen = 0
      /\ actionCnt = 100 /\ traceCnt = 100
  BY DEF Init
<1>5. TypeOK
  <2>1. clicks \in Seq(Call) /\ down \in Seq(Command) /\ up \in Seq(Signal)
        /\ gui \in Seq(Signal)
    BY <1>3
  <2>2. ready \in BOOLEAN /\ patient \in BOOLEAN  BY <1>4
  <2>3. clicked \in Nat /\ seen \in Nat /\ actionCnt \in Nat /\ traceCnt \in Nat
    BY <1>4
  <2> QED  BY <1>1, <1>2, <2>1, <2>2, <2>3 DEF TypeOK
<1>6. CommandsInv  BY <1>3 DEF CommandsInv
<1>7. NoWorkAsked /\ NoWorkSent /\ NoEventUp /\ NoEventGui /\ UpFresh
  BY <1>3 DEF NoWorkAsked, NoWorkSent, NoEventUp, NoEventGui, UpFresh
<1>8. Idle  BY <1>1, <1>3, <1>4, <1>7 DEF Idle
<1> QED  BY <1>5, <1>6, <1>8 DEF IInv, PatientInv

\* The types, what the commands under way are like, and the place of the call of a
\* patient operator hold together in every reachable state.
THEOREM Inductive == Spec => []IInv
<1>1. CallAssumption  BY CallAssumption
<1>2. Init => IInv  BY <1>1, Initially
<1>3. IInv /\ [Next]_vars => IInv'
  BY <1>1, TypeStep, CommandsStep, PatientStep DEF IInv
<1> QED  BY <1>2, <1>3, PTL DEF Spec

\* Every variable keeps its type, whatever the calls and wherever the robot starts.
THEOREM TypeCorrect == Spec => []TypeOK
<1>1. IInv => TypeOK  BY DEF IInv
<1> QED  BY <1>1, Inductive, PTL

\* The panel shows a status from after the last result only when the robot is where
\* the calls should have led it, if each call waited for that.
THEOREM RobotIsWhereTold == Spec => []RobotGoesWhereTold
<1>1. IInv => RobotGoesWhereTold
  <2> SUFFICES ASSUME IInv, patient, ready PROVE robot = expected
    BY DEF RobotGoesWhereTold
  <2>1. Idle
    BY Zenon DEF IInv, PatientInv, Busy, Asked, Sent, Reported, Answered
  <2> QED  BY <2>1 DEF Idle
<1> QED  BY <1>1, Inductive, PTL

\* Every command on its way to the robot travels with the heading it names.
THEOREM HeadingIsOfTravel == Spec => []HeadingOfTravel
<1>1. IInv => HeadingOfTravel
  BY DEF IInv, CommandsInv, Straight, Driving, HeadingOfTravel
<1> QED  BY <1>1, Inductive, PTL
=============================================================================
