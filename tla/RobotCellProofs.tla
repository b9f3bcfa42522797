--------------------------- MODULE RobotCellProofs ---------------------------
(***************************************************************************)
(* The virtual IMR together with its P40, for every map, every set of      *)
(* missions and every timing of the P40: its state is well typed, and with *)
(* missions whose action is at their end the P40 lifts where the mission   *)
(* says and the robot reports what it did.                                 *)
(***************************************************************************)
EXTENDS RobotCell, VirtualRobotProofs

-----------------------------------------------------------------------------
(* Type correctness.                                                       *)

StatusMsg == [place : Place, height : Int]

\* A status of any height keeps the robot's types.
LEMMA LinkType ==
    ASSUME TypeOK, NEW p \in Place, NEW h \in Int, LinkP40(p, h)
    PROVE  TypeOK'
<1>1. task_Imr.orderid # 0 => task_Imr.segend \in Place
  BY MissionFacts DEF TypeOK, Mission0
<1> QED
  BY <1>1 DEF LinkP40, TypeOK, IMRState, ctrl, hist

\* The steps of the robot in the cell are steps of VirtualRobot.
LEMMA RobotSteps ==
    ASSUME \/ Robot(ReceiveAT) \/ Robot(Handler) \/ Robot(Timeout) \/ Robot(SendStButton)
           \/ Robot(SendRgButton) \/ Robot(ConnectOn) \/ Robot(LinkLost) \/ Localise
    PROVE  Next /\ UNCHANGED <<p40Vars, statuses>>
BY DEF Robot, Localise, Next, Events

\* The next signal is one, and the queue without it is still a queue.
LEMMA HeadTail ==
    ASSUME NEW S, NEW s \in Seq(S), s # << >>
    PROVE  Head(s) \in S /\ Tail(s) \in Seq(S)
BY HeadTailProperties

\* Every variable of the cell keeps its type.
LEMMA CellTypeStep == CellTypeOK /\ [CellNext]_cellVars => CellTypeOK'
<1> SUFFICES ASSUME CellTypeOK, [CellNext]_cellVars PROVE CellTypeOK'
  OBVIOUS
<1> USE DEF p40Vars
<1>0. PointIds \subseteq Place /\ 0 \in Place
  BY DEF Place
<1>1. ASSUME Next, UNCHANGED <<p40Vars, statuses>> PROVE CellTypeOK'
  BY <1>1, TypeStep DEF CellTypeOK
<1>2. CASE Take
  <2>1. Head(outbox) \in Signal /\ Tail(outbox) \in Seq(Signal)
    BY <1>2, HeadTail DEF Take, CellTypeOK, TypeOK
  <2>2. TypeOK'
    BY <1>2, <2>1 DEF Take, CellTypeOK, TypeOK, robotVars, ctrl, hist
  <2>3. command' = <<Head(outbox)>> /\ UNCHANGED <<place, height, statuses>>
    BY <1>2 DEF Take
  <2> QED
    BY <2>1, <2>2, <2>3 DEF CellTypeOK
<1>3. CASE Depart
  BY <1>0, <1>3 DEF Depart, CellTypeOK, TypeOK, vars, ctrl, hist
<1>4. CASE Reach \/ DoLift
  <2>1. Current \in Signal
    BY <1>4 DEF Reach, DoLift, CellTypeOK, Current
  <2>2. Current.to \in Place /\ Current.height \in Int
    BY <1>0, <2>1 DEF Signal
  <2>3. TypeOK'
    BY <1>4 DEF Reach, DoLift, CellTypeOK, TypeOK, vars, ctrl, hist
  <2>4. command' = << >>
    BY <1>4 DEF Reach, DoLift
  <2> QED
    BY <1>4, <2>2, <2>3, <2>4, EmptySeq DEF Reach, DoLift, CellTypeOK
<1>5. CASE Publish
  <2>1. TypeOK'
    BY <1>5 DEF Publish, CellTypeOK, TypeOK, vars, ctrl, hist
  <2>2. [place |-> place, height |-> height] \in StatusMsg
    BY DEF CellTypeOK, StatusMsg
  <2>3. statuses' \in Seq(StatusMsg)
    BY <1>5, <2>2 DEF Publish, CellTypeOK, StatusMsg
  <2> QED
    BY <1>5, <2>1, <2>3 DEF Publish, CellTypeOK, StatusMsg
<1>6. CASE Dispatch
  <2>1. statuses \in Seq(StatusMsg) /\ statuses # << >>
    BY <1>6 DEF Dispatch, CellTypeOK, StatusMsg
  <2>2. Head(statuses) \in StatusMsg /\ Tail(statuses) \in Seq(StatusMsg)
    BY <2>1, HeadTail
  <2>3. Head(statuses).place \in Place /\ Head(statuses).height \in Int
    BY <2>2 DEF StatusMsg
  <2>4. TypeOK'
    BY <1>6, <2>3, LinkType DEF Dispatch, CellTypeOK
  <2> QED
    BY <1>6, <2>2, <2>4 DEF Dispatch, CellTypeOK, StatusMsg
<1>7. CASE UNCHANGED cellVars
  BY <1>7 DEF cellVars, CellTypeOK, TypeOK, vars, ctrl, hist
<1> QED
  BY <1>1, <1>2, <1>3, <1>4, <1>5, <1>6, <1>7, RobotSteps DEF CellNext, P40

\* At first the P40 has nothing to do and nothing is under way.
LEMMA CellTypeInit == CellInit => CellTypeOK
<1>1. PointIds \subseteq Place /\ Heights \subseteq Int
  BY HeightAssumption DEF Place
<1> QED
  BY <1>1, TypeInit, EmptySeq DEF CellInit, CellTypeOK

\* The robot, the signals to the P40 and the statuses it sends back keep their types,
\* also with heights the P40 has been told and no status has shown yet.
THEOREM CellTypeCorrect == CellSpec => []CellTypeOK
BY CellTypeInit, CellTypeStep, PTL DEF CellSpec

-----------------------------------------------------------------------------
(* The commands the P40 still has to carry out, and where they lead it.    *)

\* Missions whose only action is at their second point.
EndActions == \A m \in Missions : ActionPoints(m) \subseteq {2}

\* What the P40 is doing, and what it has been told to do next.
Way == command \o outbox

\* From j to k there is no aim in s.
NoAim(s, j, k) == \A n \in j..k : ~IsAim(s[n])

\* A P40 that is at a and has carried out the commands of s before k is at p.
Comes(s, a, k, p) ==
    \/ NoAim(s, 1, k - 1) /\ a = p
    \/ \E j \in 1..(k - 1) : IsAim(s[j]) /\ s[j].to = p /\ NoAim(s, j + 1, k - 1)

\* Commands added at the end do not change where the ones before them lead.
LEMMA ComesAppend ==
    ASSUME NEW s \in Seq(Signal), NEW x \in Signal, NEW a, NEW p,
           NEW k \in 1..Len(s) + 1
    PROVE  Comes(Append(s, x), a, k, p) <=> Comes(s, a, k, p)
<1> DEFINE t == Append(s, x)
<1>1. Len(s) \in Nat /\ \A n \in 1..Len(s) : t[n] = s[n]
  BY AppendProperties
<1> HIDE DEF t
<1>2. \A j \in 1..k : NoAim(t, j, k - 1) <=> NoAim(s, j, k - 1)
  BY <1>1 DEF NoAim
<1>3. \A j \in 1..(k - 1) : t[j] = s[j] /\ j + 1 \in 1..k
  BY <1>1
<1>4. 1 \in 1..k
  OBVIOUS
<1> QED
  BY <1>2, <1>3, <1>4 DEF Comes, t

\* An aim put at the end leads to its target.
LEMMA ComesAim ==
    ASSUME NEW s \in Seq(Signal), NEW x \in Signal, NEW a, IsAim(x)
    PROVE  Comes(Append(s, x), a, Len(s) + 2, x.to)
<1> DEFINE t == Append(s, x)
<1>1. Len(s) \in Nat /\ t[Len(s) + 1] = x
  BY AppendProperties
<1> HIDE DEF t
<1>2. NoAim(t, Len(s) + 2, Len(s) + 1)
  BY <1>1 DEF NoAim
<1>3. Len(s) + 1 \in 1..(Len(s) + 2 - 1) /\ Len(s) + 1 + 1 = Len(s) + 2 /\ Len(s) + 2 - 1 = Len(s) + 1
  BY <1>1
<1> QED
  BY <1>1, <1>2, <1>3 DEF Comes, t

\* A move that has begun leads where it led before.
LEMMA ComesDepart ==
    ASSUME NEW s \in Seq(Signal), NEW a, NEW b, NEW p, NEW k \in Nat, k >= 2, IsAim(s[1]),
           Comes(s, a, k, p)
    PROVE  Comes(s, b, k, p)
<1>1. ~NoAim(s, 1, k - 1)
  BY DEF NoAim
<1> QED
  BY <1>1 DEF Comes

\* A command carried out leads the P40 as it did before.
LEMMA ComesTail ==
    ASSUME NEW s \in Seq(Signal), s # << >>, NEW a, NEW b, NEW p, NEW k \in 2..Len(s) + 1,
           Comes(s, a, k, p), IF IsAim(s[1]) THEN b = s[1].to ELSE b = a
    PROVE  Comes(Tail(s), b, k - 1, p)
<1> DEFINE t == Tail(s)
<1>1. Len(t) = Len(s) - 1 /\ Len(s) \in Nat \ {0} /\ \A n \in 1..Len(t) : t[n] = s[n + 1]
  BY HeadTailProperties, EmptySeq
<1> HIDE DEF t
<1>2. \A j \in 2..k : NoAim(s, j, k - 1) => NoAim(t, j - 1, k - 2)
  <2> SUFFICES ASSUME NEW j \in 2..k, NoAim(s, j, k - 1), NEW n \in (j - 1)..(k - 2)
               PROVE  ~IsAim(t[n])
    BY DEF NoAim
  <2>1. n + 1 \in j..(k - 1) /\ n \in 1..Len(t)
    BY <1>1
  <2> QED
    BY <1>1, <2>1 DEF NoAim
<1>3. CASE NoAim(s, 1, k - 1) /\ a = p
  <2>1. ~IsAim(s[1]) /\ NoAim(s, 2, k - 1)
    BY <1>3 DEF NoAim
  <2>2. NoAim(t, 1, k - 2)
    BY <1>2, <2>1
  <2> QED
    BY <1>3, <2>1, <2>2 DEF Comes, t
<1>4. ASSUME NEW j \in 1..(k - 1), IsAim(s[j]), s[j].to = p, NoAim(s, j + 1, k - 1)
      PROVE  Comes(t, b, k - 1, p)
  <2>1. NoAim(t, j, k - 2)
    <3>1. j + 1 \in 2..k /\ j + 1 - 1 = j
      OBVIOUS
    <3> QED
      BY <1>2, <1>4, <3>1
  <2>2. CASE j = 1
    BY <1>4, <2>1, <2>2 DEF Comes
  <2>3. CASE j # 1
    <3>1. j - 1 \in 1..(k - 1 - 1) /\ j - 1 \in 1..Len(t) /\ j - 1 + 1 = j
      BY <1>1, <2>3
    <3>2. t[j - 1] = s[j]
      BY <1>1, <3>1
    <3> QED
      BY <1>4, <2>1, <3>1, <3>2 DEF Comes
  <2> QED
    BY <2>2, <2>3
<1> QED
  BY <1>3, <1>4 DEF Comes, t

-----------------------------------------------------------------------------
(* The inductive invariant.                                                *)

\* With no reconnection there is one slot, of the socket there is.
OneHandler == stack # << >> => conn # "none" /\ Len(stack) = 1 /\ Top.sess = session

\* A handler that goes on to an action has aimed at its point, and Param is of it.
WaitAimed ==
    stack # << >> /\ Top.pc \notin {"loop", "slot"} =>
        /\ task_Imr \in Missions /\ idParam = task_Imr.points[2].actions[1]
        /\ Top.pc \in {"pos", "waitPos"} =>
               Comes(Way, place, Len(Way) + 1, task_Imr.points[2].pointid)

\* Each lift comes when the P40 is at its point.
LiftsAimed ==
    \A k \in 1..Len(Way) : IsLift(Way[k]) => Comes(Way, place, k, Way[k].to)

CellInv == CellTypeOK /\ OneHandler /\ WaitAimed /\ LiftsAimed

\* The way is a sequence of signals.
LEMMA WayType ==
    ASSUME CellTypeOK
    PROVE  Way \in Seq(Signal) /\ command \in Seq(Signal) /\ outbox \in Seq(Signal)
<1>1. outbox \in Seq(Signal)
  BY DEF CellTypeOK, TypeOK
<1>2. command \in Seq(Signal)
  BY DEF CellTypeOK
<1> QED
  BY <1>1, <1>2, ConcatProperties DEF Way

\* Appending to a concatenation appends to its second part.
LEMMA AppendToWay ==
    \A s, t \in Seq(Signal), x \in Signal : s \o Append(t, x) = Append(s \o t, x)
OBVIOUS

\* A queue is its first element before the rest.
LEMMA TakeFirst ==
    \A s \in Seq(Signal) : s # << >> => << >> \o s = <<Head(s)>> \o Tail(s)
OBVIOUS

\* One command and the queue after it.
LEMMA DropFirst ==
    \A x \in Signal, s \in Seq(Signal) :
        /\ Tail(<<x>> \o s) = s /\ << >> \o s = s
        /\ <<x>> \o s # << >> /\ (<<x>> \o s)[1] = x
OBVIOUS

-----------------------------------------------------------------------------
(* The steps of the robot.                                                 *)

Aimed == OneHandler /\ WaitAimed /\ LiftsAimed

\* A signal more is a command more at the end of the way.
LEMMA WayAppend ==
    ASSUME CellTypeOK, NEW x \in Signal, outbox' = Append(outbox, x), UNCHANGED <<place, command>>
    PROVE  Way' = Append(Way, x)
BY WayType, AppendToWay DEF Way

\* The lifts stay aimed when an aim is added, or a lift where the way leads.
LEMMA AppendAimed ==
    ASSUME CellTypeOK, LiftsAimed, NEW x \in Signal, outbox' = Append(outbox, x),
           UNCHANGED <<place, command>>,
           IsLift(x) => Comes(Way, place, Len(Way) + 1, x.to)
    PROVE  LiftsAimed'
<1>1. Way' = Append(Way, x) /\ Way \in Seq(Signal)
  BY WayAppend, WayType
<1>2. /\ Len(Way') = Len(Way) + 1 /\ Len(Way) \in Nat /\ Way'[Len(Way) + 1] = x
      /\ \A k \in 1..Len(Way) : Way'[k] = Way[k]
  BY <1>1, AppendProperties
<1> SUFFICES ASSUME NEW k \in 1..Len(Way'), IsLift(Way'[k])
             PROVE  Comes(Way', place', k, Way'[k].to)
  BY DEF LiftsAimed, Comes, NoAim, IsLift, IsAim
<1>3. Comes(Way, place, k, Way'[k].to)
  BY <1>2 DEF LiftsAimed
<1>4. k \in 1..Len(Way) + 1
  BY <1>2
<1> QED
  BY <1>1, <1>3, <1>4, ComesAppend

\* The lifts stay aimed when nothing is sent and the P40 does nothing.
LEMMA SameLifts ==
    ASSUME LiftsAimed, UNCHANGED <<outbox, place, command>>
    PROVE  LiftsAimed'
<1>1. Way' = Way
  BY DEF Way
<1> QED
  BY <1>1 DEF LiftsAimed, Comes, NoAim, IsAim, IsLift

\* An accepted mission finds no handler: the only slot there may be has none.
LEMMA NoHandler ==
    ASSUME CellInv, CanReceive
    PROVE  (stack = << >> \/ InSlot) /\ conn # "none"
<1>1. stack # << >> => Len(stack) \in 1..Len(stack) /\ Top = stack[Len(stack)]
  BY TopIn DEF CellInv, CellTypeOK
<1> QED
  BY <1>1 DEF CellInv, OneHandler, CanReceive

\* A step that leaves the handler, its mission and the way alone keeps the invariant.
LEMMA AimedFrame ==
    ASSUME CellInv, UNCHANGED <<session, stack, task_Imr, idParam, outbox, place, command>>,
           conn' = conn \/ conn' # "none"
    PROVE  Aimed'
<1>1. Way' = Way
  BY DEF Way
<1>2. OneHandler'
  BY DEF CellInv, OneHandler, Top
<1>3. WaitAimed'
  BY <1>1 DEF CellInv, WaitAimed, Top, Comes, NoAim, IsAim
<1>4. LiftsAimed'
  BY SameLifts DEF CellInv
<1> QED
  BY <1>2, <1>3, <1>4 DEF Aimed

\* Adopting a mission keeps the invariant: it starts the first handler, or drives.
LEMMA AdoptAimed ==
    ASSUME CellInv, NEW m \in Missions, AdoptAndDrive(m) \/ AdoptAndLoop(m),
           UNCHANGED <<place, command>>
    PROVE  Aimed'
<1>1. (stack = << >> \/ InSlot) /\ conn' = conn /\ conn # "none" /\ session' = session
  BY NoHandler DEF AdoptAndDrive, AdoptAndLoop, Adopt, ctrl
<1>2. CellTypeOK /\ LiftsAimed /\ TypeOK /\ OneHandler
  BY DEF CellInv, CellTypeOK
<1>3. CASE AdoptAndDrive(m)
  <2>1. stack' = stack /\ outbox' = Append(outbox, Aim(m))
    BY <1>3 DEF AdoptAndDrive, UpdateStatus
  <2>2. Aim(m) \in Signal /\ ~IsLift(Aim(m))
    BY AimType DEF Aim, IsLift
  <2>3. LiftsAimed'
    BY <1>2, <2>1, <2>2, AppendAimed
  <2>4. OneHandler'
    BY <1>1, <1>2, <2>1 DEF OneHandler, Top
  <2>5. WaitAimed'
    BY <1>1, <2>1 DEF WaitAimed, Top, InSlot, Running
  <2> QED
    BY <2>3, <2>4, <2>5 DEF Aimed
<1>4. CASE AdoptAndLoop(m)
  <2>1. stack' # << >> /\ Top'.pc = "loop" /\ Len(stack) \in Nat /\ outbox' = outbox
    BY <1>2, <1>4, LoopStack DEF AdoptAndLoop, TypeOK
  <2>2. Len(stack') = 1 /\ Top'.sess = session
    <3>1. CASE InSlot
      BY <1>2, <1>4, <3>1, LoopStack DEF OneHandler
    <3>2. CASE ~InSlot
      <4>1. stack = << >> /\ Len(stack) = 0
        BY <1>1, <3>2, EmptySeq
      <4> QED
        BY <1>2, <1>4, <3>2, <4>1, LoopStack
    <3> QED
      BY <3>1, <3>2
  <2>3. LiftsAimed'
    BY <1>2, <2>1, SameLifts
  <2> QED
    BY <1>1, <2>1, <2>2, <2>3 DEF Aimed, OneHandler, WaitAimed
<1> QED
  BY <1>3, <1>4

\* Moving the handler on keeps it the only one.
LEMMA GotoOne ==
    ASSUME CellInv, stack # << >>, NEW pc \in Pcs, Goto(pc),
           UNCHANGED <<conn, session>>
    PROVE  OneHandler' /\ Top'.pc = pc
BY GotoTop DEF CellInv, CellTypeOK, OneHandler

\* The loop aims at the end of the mission before it waits to be there.
LEMMA LoopAimed ==
    ASSUME EndActions, CellInv, LoopDone \/ LoopPoint, UNCHANGED <<place, command>>
    PROVE  Aimed'
<1>1. CellTypeOK /\ LiftsAimed /\ TypeOK /\ OneHandler
  BY DEF CellInv, CellTypeOK
<1>2. /\ task_Imr \in Missions /\ task_Imr' = task_Imr /\ UpdateStatus(task_Imr)
      /\ stack # << >> /\ Top.pc = "loop" /\ i \in ActionPoints(task_Imr)
      /\ UNCHANGED <<conn, session>>
  BY <1>1, InRangeReal DEF LoopDone, LoopPoint, Running, ActionPoints, ctrl, TypeOK
<1>3. Aim(task_Imr) \in Signal /\ ~IsLift(Aim(task_Imr)) /\ IsAim(Aim(task_Imr))
      /\ Aim(task_Imr).to = task_Imr.points[2].pointid
  BY <1>2, AimType DEF Aim, IsLift, IsAim
<1>4. outbox' = Append(outbox, Aim(task_Imr))
  BY <1>2 DEF UpdateStatus
<1>5. LiftsAimed'
  BY <1>1, <1>3, <1>4, AppendAimed
<1>6. CASE LoopDone
  <2>1. stack' = stack
    BY <1>6 DEF LoopDone
  <2> QED
    BY <1>1, <1>2, <1>5, <2>1 DEF Aimed, OneHandler, WaitAimed, Top
<1>7. CASE LoopPoint
  <2>1. OneHandler' /\ Top'.pc = "pos"
    BY <1>2, <1>7, GotoOne DEF LoopPoint, Pcs
  <2>2. idParam' = task_Imr.points[2].actions[1]
    BY <1>2, <1>7 DEF LoopPoint, EndActions
  <2>3. Way' = Append(Way, Aim(task_Imr)) /\ Way \in Seq(Signal)
    BY <1>1, <1>3, <1>4, WayAppend, WayType
  <2>4. Len(Way') + 1 = Len(Way) + 2
    BY <1>3, <2>3, AppendProperties
  <2>5. Comes(Way', place', Len(Way') + 1, task_Imr.points[2].pointid)
    BY <1>3, <2>3, <2>4, ComesAim
  <2>6. WaitAimed'
    BY <1>2, <2>2, <2>5 DEF WaitAimed, Comes, NoAim, IsAim
  <2> QED
    BY <1>5, <2>1, <2>6 DEF Aimed
<1> QED
  BY <1>2, <1>6, <1>7

\* The lift is told after the aim at its point, with no other aim between.
LEMMA ArriveAimed ==
    ASSUME EndActions, CellInv, Arrive, UNCHANGED <<place, command>>
    PROVE  Aimed'
<1>1. CellTypeOK /\ LiftsAimed /\ WaitAimed /\ TypeOK
  BY DEF CellInv, CellTypeOK
<1>2. /\ task_Imr \in Missions /\ i \in ActionPoints(task_Imr) /\ stack # << >>
      /\ Top.pc \in {"pos", "waitPos"} /\ outbox' = Append(outbox, Lift(task_Imr, i))
      /\ Goto("height") /\ UNCHANGED <<conn, session, task_Imr, idParam>>
  BY <1>1, InRangeReal DEF Arrive, HasValue, InRange, ActionPoints, Running, TypeOK, ctrl
<1>3. i = 2
  BY <1>2 DEF EndActions
<1>4. Lift(task_Imr, i) \in Signal /\ Lift(task_Imr, i).to = task_Imr.points[2].pointid
  BY <1>2, <1>3, LiftType DEF Lift
<1>5. Comes(Way, place, Len(Way) + 1, Lift(task_Imr, i).to)
  BY <1>1, <1>2, <1>4 DEF WaitAimed
<1>6. LiftsAimed'
  BY <1>1, <1>2, <1>4, <1>5, AppendAimed
<1>7. OneHandler' /\ Top'.pc = "height"
  BY <1>2, GotoOne DEF Pcs
<1>8. WaitAimed'
  BY <1>1, <1>2, <1>7 DEF WaitAimed
<1> QED
  BY <1>6, <1>7, <1>8 DEF Aimed

\* Recording a completion, or entering a wait, sends no command.
LEMMA MoveOnAimed ==
    ASSUME CellInv, Lifted \/ Block, UNCHANGED <<place, command>>
    PROVE  Aimed'
<1>1. /\ stack # << >> /\ Top.pc \notin {"loop", "slot"}
      /\ UNCHANGED <<conn, session, task_Imr, idParam, outbox>>
  BY DEF Lifted, Block, Running, ctrl
<1>2. /\ OneHandler'
      /\ \/ Top'.pc = "loop"
         \/ Top'.pc = "waitPos" /\ Top.pc = "pos"
         \/ Top'.pc = "waitHeight"
  BY <1>1, GotoOne DEF Lifted, Block, Running, Pcs
<1>3. LiftsAimed'
  BY <1>1, SameLifts DEF CellInv
<1>4. Way' = Way
  BY <1>1 DEF Way
<1>5. WaitAimed'
  BY <1>1, <1>2, <1>4 DEF CellInv, WaitAimed, Comes, NoAim, IsAim
<1> QED
  BY <1>2, <1>3, <1>5 DEF Aimed

\* A handler that returns leaves its slot without a handler.
LEMMA EndAimed ==
    ASSUME CellInv, LoopEnd, UNCHANGED <<place, command>>
    PROVE  Aimed'
<1>1. stack # << >> /\ Goto("slot") /\ UNCHANGED <<conn, session, outbox>>
  BY DEF LoopEnd, Running
<1>2. OneHandler' /\ Top'.pc = "slot"
  BY <1>1, GotoOne DEF Pcs
<1>3. LiftsAimed'
  BY <1>1, SameLifts DEF CellInv
<1> QED
  BY <1>2, <1>3 DEF Aimed, WaitAimed

\* The slot that returns was the only one.
LEMMA SlotAimed ==
    ASSUME CellInv, SlotEnds, UNCHANGED <<place, command>>
    PROVE  Aimed'
<1>1. /\ stack # << >> /\ Len(stack) = 1 /\ stack' = SubSeq(stack, 1, Len(stack) - 1)
      /\ stack \in Seq(Frame) /\ outbox' = outbox
  BY DEF SlotEnds, InSlot, Running, CellInv, OneHandler, CellTypeOK, TypeOK
<1>2. stack' = << >>
  BY <1>1
<1>3. LiftsAimed'
  BY <1>1, SameLifts DEF CellInv
<1> QED
  BY <1>2, <1>3 DEF Aimed, OneHandler, WaitAimed

-----------------------------------------------------------------------------
(* The steps of the P40.                                                   *)

\* Taking the next command does not change the way.
LEMMA TakeAimed ==
    ASSUME CellInv, Take
    PROVE  Aimed'
<1>1. /\ command = << >> /\ outbox # << >> /\ command' = <<Head(outbox)>>
      /\ outbox' = Tail(outbox) /\ UNCHANGED <<robotVars, place>>
  BY DEF Take
<1>2. Way' = Way
  BY <1>1, WayType, TakeFirst DEF Way, CellInv
<1>3. UNCHANGED <<conn, session, stack, task_Imr, idParam, place>>
  BY <1>1 DEF robotVars, ctrl
<1>4. OneHandler'
  BY <1>3 DEF CellInv, OneHandler, Top
<1>5. WaitAimed'
  BY <1>2, <1>3 DEF CellInv, WaitAimed, Top, Comes, NoAim, IsAim
<1>6. LiftsAimed'
  BY <1>2, <1>3 DEF CellInv, LiftsAimed, Comes, NoAim, IsAim, IsLift
<1> QED
  BY <1>4, <1>5, <1>6 DEF Aimed

\* The command being carried out is the first of the way.
LEMMA FirstCommand ==
    ASSUME CellInv, command # << >>
    PROVE  /\ Current \in Signal /\ Way # << >> /\ Way[1] = Current /\ Way \in Seq(Signal)
           /\ Tail(Way) = outbox /\ Len(Way) \in Nat \ {0}
<1>1. command \in Seq(Signal) /\ Len(command) <= 1 /\ outbox \in Seq(Signal)
  BY WayType DEF CellInv, CellTypeOK
<1>2. Len(command) = 1 /\ Current \in Signal
  <2>1. Len(command) \in Nat /\ Len(command) # 0
    BY <1>1, EmptySeq
  <2>2. \A n \in Nat : n # 0 /\ n <= 1 => n = 1
    OBVIOUS
  <2>3. Len(command) = 1
    BY <1>1, <2>1, <2>2, Zenon
  <2> QED
    BY <1>1, <2>3 DEF Current
<1>3. command = <<Current>>
  BY <1>1, <1>2 DEF Current
<1>4. Way \in Seq(Signal) /\ Way # << >> /\ Way[1] = Current /\ Tail(Way) = outbox
  BY <1>1, <1>2, <1>3, WayType, DropFirst DEF Way, CellInv
<1> QED
  BY <1>2, <1>4, EmptySeq

\* A P40 that leaves for its target still comes where it was to come.
LEMMA DepartAimed ==
    ASSUME CellInv, Depart
    PROVE  Aimed'
<1>1. /\ command # << >> /\ IsAim(Current) /\ UNCHANGED <<vars, command>>
  BY DEF Depart, IsAim
<1>2. /\ Way \in Seq(Signal) /\ Way[1] = Current /\ Way' = Way /\ Len(Way) \in Nat \ {0}
      /\ CellInv
  BY <1>1, FirstCommand DEF Way, vars
<1>3. UNCHANGED <<conn, session, stack, task_Imr, idParam>>
  BY <1>1 DEF vars, ctrl
<1>4. OneHandler'
  BY <1>3 DEF CellInv, OneHandler, Top
<1>5. ASSUME NEW k \in 2..Len(Way) + 1, NEW p, Comes(Way, place, k, p)
      PROVE  Comes(Way, place', k, p)
  BY <1>1, <1>2, <1>5, ComesDepart
<1>6. WaitAimed'
  <2>1. Len(Way) + 1 \in 2..Len(Way) + 1
    BY <1>2
  <2>2. WaitAimed
    BY DEF CellInv
  <2> QED
    BY <1>2, <1>3, <1>5, <2>1, <2>2 DEF WaitAimed, Top, Comes, NoAim, IsAim
<1>7. LiftsAimed'
  <2> SUFFICES ASSUME NEW k \in 1..Len(Way), IsLift(Way[k])
               PROVE  Comes(Way, place', k, Way[k].to)
    BY <1>2 DEF LiftsAimed, Comes, NoAim, IsAim, IsLift
  <2>1. k # 1
    BY <1>1, <1>2 DEF IsAim, IsLift
  <2>2. k \in 2..Len(Way) + 1
    BY <1>2, <2>1
  <2> QED
    BY <1>2, <1>5, <2>2 DEF CellInv, LiftsAimed
<1> QED
  BY <1>4, <1>6, <1>7 DEF Aimed

\* A command carried out leaves the others leading where they led.
LEMMA DoneAimed ==
    ASSUME CellInv, Reach \/ DoLift
    PROVE  Aimed'
<1>1. /\ command # << >> /\ command' = << >> /\ UNCHANGED vars
      /\ IF IsAim(Current) THEN place' = Current.to ELSE place' = place
  BY DEF Reach, DoLift, IsAim
<1>2. /\ Way \in Seq(Signal) /\ Way # << >> /\ Way[1] = Current /\ Tail(Way) = outbox
      /\ Len(Way) \in Nat \ {0} /\ outbox \in Seq(Signal) /\ outbox' = outbox
  BY <1>1, FirstCommand, WayType DEF vars, CellInv
<1>3. Way' = Tail(Way)
  BY <1>1, <1>2, DropFirst, ConcatEmptySeq DEF Way
<1>4. Len(Way') = Len(Way) - 1 /\ \A n \in 1..Len(Way') : Way'[n] = Way[n + 1]
  BY <1>2, <1>3, HeadTailProperties
<1>5. UNCHANGED <<conn, session, stack, task_Imr, idParam>>
  BY <1>1 DEF vars, ctrl
<1>6. OneHandler'
  BY <1>5 DEF CellInv, OneHandler, Top
<1>7. ASSUME NEW k \in 2..Len(Way) + 1, NEW p, Comes(Way, place, k, p)
      PROVE  Comes(Way', place', k - 1, p)
  BY <1>1, <1>2, <1>3, <1>7, ComesTail
<1>8. WaitAimed'
  <2>1. Len(Way) + 1 \in 2..Len(Way) + 1 /\ Len(Way) + 1 - 1 = Len(Way') + 1
    BY <1>2, <1>4
  <2>2. WaitAimed
    BY DEF CellInv
  <2>3. ASSUME NEW p, Comes(Way, place, Len(Way) + 1, p) PROVE Comes(Way', place', Len(Way') + 1, p)
    BY <1>7, <2>1, <2>3
  <2>4. stack # << >> /\ Top.pc \in {"pos", "waitPos"} =>
            Comes(Way', place', Len(Way') + 1, task_Imr.points[2].pointid)
    BY <2>2, <2>3 DEF WaitAimed
  <2>5. Comes(Way, place, Len(Way) + 1, task_Imr.points[2].pointid)'
            <=> Comes(Way', place', Len(Way') + 1, task_Imr.points[2].pointid)
    BY <1>5 DEF Comes, NoAim, IsAim
  <2>6. Top' = Top
    BY <1>5 DEF Top
  <2> QED
    BY <1>5, <2>2, <2>4, <2>5, <2>6 DEF WaitAimed
<1>9. LiftsAimed'
  <2> SUFFICES ASSUME NEW k \in 1..Len(Way'), IsLift(Way'[k])
               PROVE  Comes(Way', place', k, Way'[k].to)
    BY DEF LiftsAimed, Comes, NoAim, IsAim, IsLift
  <2>1. k + 1 \in 2..Len(Way) + 1 /\ k + 1 \in 1..Len(Way) /\ k + 1 - 1 = k
        /\ Way'[k] = Way[k + 1]
    BY <1>2, <1>4
  <2>2. Comes(Way, place, k + 1, Way[k + 1].to)
    BY <2>1 DEF CellInv, LiftsAimed
  <2> QED
    BY <1>7, <2>1, <2>2
<1> QED
  BY <1>6, <1>8, <1>9 DEF Aimed

-----------------------------------------------------------------------------
\* The invariant is inductive.
LEMMA CellStep ==
    ASSUME EndActions
    PROVE  CellInv /\ [CellNext]_cellVars => CellInv'
<1> SUFFICES ASSUME CellInv, [CellNext]_cellVars PROVE Aimed'
  BY CellTypeStep DEF CellInv, Aimed
<1> USE DEF Robot, p40Vars
<1>1. ASSUME UNCHANGED <<session, stack, task_Imr, idParam, outbox, place, command>>,
             conn' = conn \/ conn' # "none"
      PROVE  Aimed'
  BY <1>1, AimedFrame
<1>2. CASE Robot(ReceiveAT)
  <2>1. ASSUME NEW m \in Missions, RejectAT(m) PROVE Aimed'
    BY <1>1, <1>2, <2>1 DEF RejectAT
  <2> QED
    BY <1>2, <2>1, AdoptAimed DEF ReceiveAT
<1>3. CASE Robot(Handler)
  <2>1. CASE LoopSkip
    BY <1>1, <1>3, <2>1 DEF LoopSkip, ctrl
  <2> QED
    BY <1>3, <2>1, LoopAimed, ArriveAimed, MoveOnAimed, EndAimed, SlotAimed
       DEF Handler
<1>4. CASE Robot(Timeout) \/ Robot(SendStButton) \/ Robot(SendRgButton) \/ Localise
  BY <1>1, <1>4 DEF Timeout, SendStButton, SendStatus, SendRgButton, Localise, SettingButton, ctrl
<1>5. CASE Robot(ConnectOn)
  <2>1. conn = "none" /\ UNCHANGED <<stack, task_Imr, idParam, outbox, place, command>>
    BY <1>5 DEF ConnectOn, Socket
  <2>2. stack' = << >>
    BY <2>1 DEF CellInv, OneHandler
  <2>3. LiftsAimed'
    BY <2>1, SameLifts DEF CellInv
  <2> QED
    BY <2>2, <2>3 DEF Aimed, OneHandler, WaitAimed
<1>6. CASE Robot(LinkLost)
  BY <1>1, <1>6 DEF LinkLost, Socket
<1>7. CASE P40
  BY <1>7, TakeAimed, DepartAimed, DoneAimed DEF P40
<1>8. CASE Publish \/ Dispatch \/ UNCHANGED cellVars
  BY <1>1, <1>8 DEF Publish, Dispatch, LinkP40, cellVars, vars, ctrl
<1> QED
  BY <1>2, <1>3, <1>4, <1>5, <1>6, <1>7, <1>8 DEF CellNext

\* It holds at first: nothing has been told, and no handler runs.
LEMMA CellInitInv == CellInit => CellInv
<1> SUFFICES ASSUME CellInit PROVE CellInv
  OBVIOUS
<1>1. stack = << >> /\ Way = << >>
  BY ConcatEmptySeq, EmptySeq DEF CellInit, Init, Way
<1>2. LiftsAimed
  BY <1>1, EmptySeq DEF LiftsAimed
<1> QED
  BY <1>1, <1>2, CellTypeInit DEF CellInv, OneHandler, WaitAimed

\* It holds in every behaviour.
LEMMA CellInvHolds ==
    ASSUME EndActions
    PROVE  CellSpec => []CellInv
BY CellInitInv, CellStep, PTL DEF CellSpec

-----------------------------------------------------------------------------
(* The theorems.                                                           *)

\* The P40 lifts where the mission says, however far behind the robot it is with its
\* commands, when the missions have their action at their end.
THEOREM LiftsAtPoint ==
    ASSUME EndActions
    PROVE  CellSpec => LiftAtPoint
<1>1. CellInv /\ DoLift => place = Current.to
  <2> SUFFICES ASSUME CellInv, DoLift PROVE place = Current.to
    OBVIOUS
  <2>1. command # << >> /\ IsLift(Current)
    BY DEF DoLift, IsLift
  <2>2. Way[1] = Current /\ Len(Way) \in Nat \ {0}
    BY <2>1, FirstCommand
  <2>3. Comes(Way, place, 1, Current.to)
    BY <2>1, <2>2 DEF CellInv, LiftsAimed
  <2> QED
    BY <2>3 DEF Comes
<1>2. CellInv /\ [CellNext]_cellVars => [DoLift => place = Current.to]_cellVars
  BY <1>1
<1>3. CellSpec => [][DoLift => place = Current.to]_cellVars
  BY <1>2, CellInvHolds, PTL DEF CellSpec
<1> QED
  BY <1>3 DEF LiftAtPoint

\* The completion the robot reports names the action it has done, when the missions
\* have their action at their end.
THEOREM CompletionsNameAction ==
    ASSUME EndActions
    PROVE  CellSpec => CompletionNamesAction
<1> DEFINE A == Len(done') > Len(done) => done' = Append(done, task_Imr.points[i].actions[1])
<1>1. CellInv /\ [CellNext]_cellVars => [A]_vars
  <2> SUFFICES ASSUME CellInv, CellNext, Len(done') > Len(done)
               PROVE  done' = Append(done, task_Imr.points[i].actions[1])
    BY DEF cellVars
  <2>1. CASE Lifted
    <3>1. /\ done' = Append(done, idParam) /\ stack # << >> /\ Top.pc \notin {"loop", "slot"}
          /\ i \in ActionPoints(task_Imr)
      BY <2>1 DEF Lifted, Running, HasValue, InRange, ActionPoints
    <3>2. task_Imr \in Missions /\ idParam = task_Imr.points[2].actions[1]
      BY <3>1 DEF CellInv, WaitAimed
    <3>3. i = 2
      BY <3>1, <3>2 DEF EndActions
    <3> QED
      BY <3>1, <3>2, <3>3
  <2>2. done' = done => FALSE
    BY DEF CellInv, CellTypeOK, TypeOK
  <2>3. ~Lifted => done' = done
    BY DEF CellNext, Robot, ReceiveAT, RejectAT, AdoptAndDrive, AdoptAndLoop, Adopt, Handler,
           LoopSkip, LoopDone, LoopPoint, LoopEnd, SlotEnds, Arrive, Block, Timeout, SendStButton,
           SendStatus, SendRgButton, ConnectOn, LinkLost, Socket, Localise, SettingButton, P40,
           Take, Depart, Reach, DoLift, Publish, Dispatch, LinkP40, robotVars, vars, hist
  <2> QED
    BY <2>1, <2>2, <2>3
<1>2. CellSpec => [][A]_vars
  BY <1>1, CellInvHolds, PTL DEF CellSpec
<1> QED
  BY <1>2 DEF CompletionNamesAction
=============================================================================
