---------------------------- MODULE VirtualRobot ----------------------------
(***************************************************************************)
(* The virtual IMR of src/src/virtual_robot.cpp: it takes missions from the*)
(* RCS (AT frames), steers a P40 through two Qt signals and reports its    *)
(* state in ST frames.  Everything runs in the GUI thread, but the mission *)
(* handler logicDecision waits by calling QCoreApplication::processEvents, *)
(* so other slots run in the middle of it.  `stack' holds one frame for    *)
(* each readyRead slot with a handler that waits, or waited: when it       *)
(* returns the slot reads on, from whatever socket `client' is then.  The  *)
(* members i, ID, Param and task_Imr are shared by all of them.            *)
(*                                                                         *)
(* Abstractions: a place is the map point whose 20-unit tolerance box      *)
(* holds the robot, or 0 for none (and for the cleared position 0,0);      *)
(* an action's param is the height std::stoi reads from it.                *)
(***************************************************************************)
EXTENDS Integers, Sequences, FiniteSets

CONSTANTS
    PointIds,     \* ids of the map points
    Missions,     \* the missions the RCS may send
    Heights,      \* load heights the P40 may report
    HeightTol,    \* |hight - param| <= 20 in the code
    Inputs,       \* the operator and network events this instance explores
    MaxAT,        \* bound: AT frames delivered
    HeartMod,     \* bound: the heartbeat counter is kept modulo HeartMod
    MaxSession    \* bound: clicks that open a connection

Place   == PointIds \cup {0}
Action  == [actionid : Nat, actionparam : Int]
Point   == [pointid : PointIds, actions : Seq(Action)]
Mission == [orderid : Nat, missionkey : Nat, points : Seq(Point), segend : Place]
IMRState == [orderid : Nat, missionkey : Nat, place : Place,
             lastpasspointid : Place, actionstates : Seq(Action)]
Signal  == [kind : {"aim", "lift"}, orderid : Nat, missionkey : Nat,
            from : PointIds, to : PointIds, height : Int]

NoAction == [actionid |-> 0, actionparam |-> 0]
\* a cleared protobuf Mission
Mission0 == [orderid |-> 0, missionkey |-> 0, points |-> << >>, segend |-> 0]

\* mutant: no last point passed is -1
ImrStaUnset == [orderid |-> 0, missionkey |-> 0, place |-> 0,
                lastpasspointid |-> -1, actionstates |-> << >>]

\* a cleared protobuf IMRState, as far as the handlers read it
ImrSta0  == [orderid |-> 0, missionkey |-> 0, place |-> 0,
             lastpasspointid |-> 0, actionstates |-> << >>]

ASSUME PointAssumption   == PointIds \subseteq Nat \ {0}
ASSUME MissionAssumption ==
    /\ Missions \subseteq Mission
    /\ \A m \in Missions : m.orderid # 0 /\ Len(m.points) >= 2
ASSUME HeightAssumption  == Heights \subseteq Int /\ HeightTol \in Nat
ASSUME InputAssumption   == Inputs \subseteq {"stop", "setting", "reconnect", "drop"}
ASSUME BoundAssumption   == MaxAT \in Nat /\ HeartMod \in Nat \ {0} /\ MaxSession \in Nat

VARIABLES
    alive,       \* FALSE once the process has been terminated
    conn,        \* the socket `client': "none" (never made or deleted), "open", "lost"
    session,     \* how many sockets have been made
    timer,       \* the 1 s status timer is running
    globalVar,   \* heartbeat counter
    task_Imr,    \* the accepted mission
    ImrSta,      \* the state the ST frame carries
    hight,       \* the last load height, indeterminate before the first status
    stack,       \* slots, outermost first: their socket, where their handler is
    i, idParam,  \* the members i (from 1 here) and ID, Param
    outbox,      \* signals queued for the Agent's thread
    received,    \* AT frames handled, for the bound
    owed,        \* history: <<mission, point>> accepted, its action not yet served
    done, sent   \* history: completions recorded, and those put in an ST frame

ctrl == <<alive, conn, session, timer>>
hist == <<owed, done, sent>>
vars == <<ctrl, globalVar, task_Imr, ImrSta, hight, stack, i, idParam, outbox,
          received, hist>>

-----------------------------------------------------------------------------
Waits == {"waitPos", "waitHeight"}
Top   == stack[Len(stack)]

\* The GUI thread dispatches events: from exec(), or from a processEvents call.
Yielding == alive /\ (stack # << >> => Top.pc \in Waits)

\* The innermost handler executes; nothing else can.
Running(pcs) == alive /\ stack # << >> /\ Top.pc \in pcs
Goto(pc)     == stack' = [stack EXCEPT ![Len(stack)].pc = pc]

\* The outcomes of undefined behaviour that a build can show here.
Undefined == alive' \in BOOLEAN

ActionPoints(m) == {k \in 1..Len(m.points) : m.points[k].actions # << >>}

\* mutant: only the first point is asked
FirstHasAction(m) == 1 \in ActionPoints(m)

HasActions(m)   == 1 \in ActionPoints(m) \/ 2 \in ActionPoints(m)  \* action_number

\* mutant: any mission joins
JoinsAny(m) == m.points # << >>

Joins(m)        == m.points[1].pointid = task_Imr.points[Len(task_Imr.points)].pointid
Near(h)         == h - HeightTol <= hight /\ hight <= h + HeightTol

\* mutant: the last passed point instead of the position
PassedTarget == ImrSta.lastpasspointid = task_Imr.points[i].pointid

AtTarget        == ImrSta.place = task_Imr.points[i].pointid
Target          == task_Imr.points[i].actions[1]

\* mutant: the two points swapped
AimBack(m) == [kind |-> "aim", orderid |-> m.orderid, missionkey |-> m.missionkey,
               from |-> m.points[2].pointid, to |-> m.points[1].pointid, height |-> 0]

Aim(m) == [kind |-> "aim", orderid |-> m.orderid, missionkey |-> m.missionkey,
           from |-> m.points[1].pointid, to |-> m.points[2].pointid, height |-> 0]

\* mutant: the first point whatever k
LiftFirst(m, k) == [kind |-> "lift", orderid |-> m.orderid, missionkey |-> m.missionkey,
                    from |-> m.points[1].pointid, to |-> m.points[1].pointid,
                    height |-> m.points[k].actions[1].actionparam]

Lift(m, k) == [kind |-> "lift", orderid |-> m.orderid, missionkey |-> m.missionkey,
               from |-> m.points[k].pointid, to |-> m.points[k].pointid,
               height |-> m.points[k].actions[1].actionparam]

\* mutant: the order is not named
UpdateKey(m) ==
    /\ ImrSta' = [ImrSta EXCEPT !.missionkey = m.missionkey]
    /\ outbox' = Append(outbox, Aim(m))

\* updateStatus: the status names mission m and the P40 gets its aim.
UpdateStatus(m) ==
    /\ ImrSta' = [ImrSta EXCEPT !.orderid = m.orderid, !.missionkey = m.missionkey]
    /\ outbox' = Append(outbox, Aim(m))

-----------------------------------------------------------------------------
Init ==
    /\ alive = TRUE /\ conn = "none" /\ session = 0 /\ timer = FALSE
    /\ globalVar = 0 /\ task_Imr = Mission0 /\ ImrSta = ImrSta0
    /\ hight \in Heights
    /\ stack = << >> /\ i = 1 /\ idParam = NoAction /\ outbox = << >>
    /\ received = 0 /\ owed = {} /\ done = << >> /\ sent = << >>

-----------------------------------------------------------------------------
(* The AT handler.                                                         *)

\* The innermost slot is in its own loop: its handler has returned.
InSlot == Running({"slot"})

\* mutant: readyRead is emitted inside its own slot
CanReceiveAgain ==
    conn \in {"open", "lost"} /\ received < MaxAT /\ (InSlot \/ Yielding)

\* Frames of the current `client' are dispatched by a slot it starts, or by a slot that
\* reads on, also one of an older socket (when RobotFrames finds a frame for it).
\* readyRead is not emitted again while a slot of the same socket is on the stack.
\* Bytes buffered before a loss are still parsed.
CanReceive ==
    /\ conn \in {"open", "lost"} /\ received < MaxAT
    /\ InSlot \/ (Yielding /\ \A k \in 1..Len(stack) : stack[k].sess # session)

FirstOrder     == task_Imr.orderid = 0
SameOrder(m)   == task_Imr.orderid = m.orderid
OtherOrder(m)  == ~FirstOrder /\ ~SameOrder(m)
Acceptable(m)  == IF FirstOrder
                  THEN ImrSta.lastpasspointid = m.points[1].pointid
                  ELSE Joins(m) /\ (SameOrder(m) => m.missionkey > task_Imr.missionkey)

\* reportError reads the last point of task_Imr, at index -1 when there is none.
RejectAT(m) ==
    /\ CanReceive /\ ~Acceptable(m)
    /\ received' = received + 1
    /\ IF task_Imr.points = << >> THEN Undefined ELSE UNCHANGED alive
    /\ UNCHANGED <<conn, session, timer, globalVar, task_Imr, ImrSta, hight, stack,
                   i, idParam, outbox, hist>>

Adopt(m) ==
    /\ CanReceive /\ Acceptable(m)
    /\ received' = received + 1
    /\ task_Imr' = m
    /\ owed' = owed \cup ({m} \X ActionPoints(m))
    /\ UNCHANGED <<ctrl, globalVar, hight, idParam, done, sent>>

\* No action to run, or another order: that branch never looks at the actions.
AdoptAndDrive(m) ==
    /\ ~HasActions(m) \/ OtherOrder(m)
    /\ Adopt(m)
    /\ UpdateStatus(m)
    /\ UNCHANGED <<stack, i>>

AdoptAndLoop(m) ==
    /\ HasActions(m) /\ ~OtherOrder(m)
    /\ Adopt(m)
    /\ i' = 1
    /\ LET In(sock) == [pc |-> "loop", sess |-> sock,
                        mode |-> IF FirstOrder THEN "first" ELSE "update"]
       IN  stack' = IF InSlot THEN [stack EXCEPT ![Len(stack)] = In(Top.sess)]
                    ELSE Append(stack, In(session))
    /\ UNCHANGED <<ImrSta, outbox>>

-----------------------------------------------------------------------------
(* The loop over the mission's points.                                     *)

LoopSkip ==
    /\ Running({"loop"}) /\ i <= Len(task_Imr.points)
    /\ task_Imr.points[i].actions = << >>
    /\ i' = i + 1
    /\ UNCHANGED <<ctrl, globalVar, task_Imr, ImrSta, hight, stack, idParam, outbox,
                   received, hist>>

\* The update branch does not lift at the first point what is already lifted.
AlreadyLifted == Top.mode = "update" /\ i = 1 /\ Near(Target.actionparam)

LoopDone ==
    /\ Running({"loop"}) /\ i <= Len(task_Imr.points)
    /\ task_Imr.points[i].actions # << >> /\ AlreadyLifted
    /\ UpdateStatus(task_Imr)
    /\ i' = i + 1
    /\ owed' = owed \ {<<task_Imr, i>>}
    /\ UNCHANGED <<ctrl, globalVar, task_Imr, hight, stack, idParam, received, done, sent>>

\* mutant: the update branch keeps the ID and Param of the mission before
LoopPointKeeps ==
    /\ Running({"loop"}) /\ i <= Len(task_Imr.points)
    /\ task_Imr.points[i].actions # << >> /\ ~AlreadyLifted
    /\ UpdateStatus(task_Imr)
    /\ Goto("pos")
    /\ idParam' = IF Top.mode = "first" THEN task_Imr.points[2].actions[1] ELSE idParam
    /\ UNCHANGED <<ctrl, globalVar, task_Imr, hight, i, received, hist>>

\* ID and Param come from the second point, whatever point the loop is at; when
\* that point has no action the read is undefined.
LoopPoint ==
    /\ Running({"loop"}) /\ i <= Len(task_Imr.points)
    /\ task_Imr.points[i].actions # << >> /\ ~AlreadyLifted
    /\ UpdateStatus(task_Imr)
    /\ Goto("pos")
    /\ IF 2 \in ActionPoints(task_Imr)
       THEN idParam' = task_Imr.points[2].actions[1] /\ UNCHANGED alive
       ELSE idParam' = NoAction /\ Undefined
    /\ UNCHANGED <<conn, session, timer, globalVar, task_Imr, hight, i, received, hist>>

\* messageProcess returns into the slot's loop, which asks `client' for more bytes.
LoopEnd ==
    /\ Running({"loop"}) /\ i > Len(task_Imr.points)
    /\ Goto("slot")
    /\ IF conn = "none" THEN Undefined ELSE UNCHANGED alive
    /\ UNCHANGED <<conn, session, timer, globalVar, task_Imr, ImrSta, hight, i, idParam,
                   outbox, received, hist>>

\* The slot returns into its socket, which may have been deleted meanwhile.
SlotEnds ==
    /\ InSlot
    /\ stack' = SubSeq(stack, 1, Len(stack) - 1)
    /\ IF conn = "none" \/ Top.sess # session THEN Undefined ELSE UNCHANGED alive
    /\ UNCHANGED <<conn, session, timer, globalVar, task_Imr, ImrSta, hight, i, idParam,
                   outbox, received, hist>>

\* The wait reads point i of whatever task_Imr is now.
InRange  == i \in 1..Len(task_Imr.points)
HasValue == InRange /\ task_Imr.points[i].actions # << >>

Arrive ==
    /\ Running({"pos", "waitPos"}) /\ HasValue /\ AtTarget
    /\ outbox' = Append(outbox, Lift(task_Imr, i))
    /\ owed' = owed \ {<<task_Imr, i>>}
    /\ Goto("height")
    /\ UNCHANGED <<ctrl, globalVar, task_Imr, ImrSta, hight, i, idParam, received,
                   done, sent>>

\* mutant: the update branch records nothing
LiftedUnrecorded ==
    /\ Running({"height", "waitHeight"}) /\ HasValue /\ Near(Target.actionparam)
    /\ done' = IF Top.mode = "first" THEN Append(done, idParam) ELSE done
    /\ ImrSta' = [ImrSta EXCEPT !.actionstates = IF Top.mode = "first" THEN Append(@, idParam) ELSE @]
    /\ i' = i + 1 /\ Goto("loop")
    /\ UNCHANGED <<ctrl, globalVar, task_Imr, hight, idParam, outbox, received, owed, sent>>

Lifted ==
    /\ Running({"height", "waitHeight"}) /\ HasValue /\ Near(Target.actionparam)
    /\ ImrSta' = [ImrSta EXCEPT !.actionstates = Append(@, idParam)]
    /\ done' = Append(done, idParam)
    /\ i' = i + 1
    /\ Goto("loop")
    /\ UNCHANGED <<ctrl, globalVar, task_Imr, hight, idParam, outbox, received, owed, sent>>

\* The condition of a while is false: processEvents is called.
Block ==
    /\ \/ Running({"pos"})    /\ HasValue /\ ~AtTarget /\ Goto("waitPos")
       \/ Running({"height"}) /\ HasValue /\ ~Near(Target.actionparam) /\ Goto("waitHeight")
    /\ UNCHANGED <<ctrl, globalVar, task_Imr, ImrSta, hight, i, idParam, outbox,
                   received, hist>>

\* The mission under the wait has been cleared or replaced: the point or its
\* action is read out of range, and std::stoi throws on an empty param.
StaleWait ==
    /\ Running(Waits)
    /\ \/ ~InRange
       \/ InRange /\ ~HasValue /\ (Top.pc = "waitHeight" \/ AtTarget)
    /\ alive' = FALSE
    /\ UNCHANGED <<conn, session, timer, globalVar, task_Imr, ImrSta, hight, stack, i,
                   idParam, outbox, received, hist>>

-----------------------------------------------------------------------------
(* Events the GUI thread dispatches, from exec() or inside a wait.         *)

\* mutant: the height is not taken over
LinkPosition(p, h) ==
    /\ Yielding
    /\ ImrSta' = [ImrSta EXCEPT !.place = p,
                     !.lastpasspointid = IF task_Imr.orderid # 0 THEN task_Imr.segend ELSE @]
    /\ UNCHANGED <<ctrl, globalVar, task_Imr, hight, stack, i, idParam, outbox, received, hist>>

\* A status of the P40; with a mission the last passed point is at once the
\* end of the mission's first segment.
LinkP40(p, h) ==
    /\ Yielding
    /\ hight' = h
    /\ ImrSta' = [ImrSta EXCEPT !.place = p,
                     !.lastpasspointid = IF task_Imr.orderid # 0 THEN task_Imr.segend ELSE @]
    /\ UNCHANGED <<ctrl, globalVar, task_Imr, stack, i, idParam, outbox, received, hist>>

\* The frame is written to whatever socket there is, and the completions are
\* forgotten in any case.
SendStatus ==
    /\ Yielding
    /\ globalVar' = (globalVar + 1) % HeartMod
    /\ sent' = sent \o ImrSta.actionstates
    /\ ImrSta' = [ImrSta EXCEPT !.actionstates = << >>]
    /\ IF conn = "none" THEN Undefined ELSE UNCHANGED alive
    /\ UNCHANGED <<conn, session, task_Imr, hight, stack, i, idParam, outbox, received,
                   owed, done>>

\* mutant: no status while the link is down
TimeoutConnected == timer /\ conn = "open" /\ SendStatus /\ UNCHANGED timer

Timeout      == timer /\ SendStatus /\ UNCHANGED timer
SendStButton == SendStatus /\ timer' = TRUE

\* mutant: the state is not cleared
StopKeepsState ==
    /\ "stop" \in Inputs /\ Yielding
    /\ timer' = FALSE /\ globalVar' = 0 /\ task_Imr' = Mission0
    /\ owed' = {} /\ done' = sent
    /\ UNCHANGED <<alive, conn, session, ImrSta, hight, stack, i, idParam, outbox, received, sent>>

StopButton ==
    /\ "stop" \in Inputs /\ Yielding
    /\ timer' = FALSE /\ globalVar' = 0
    /\ task_Imr' = Mission0 /\ ImrSta' = ImrSta0
    /\ owed' = {} /\ done' = sent
    /\ UNCHANGED <<alive, conn, session, hight, stack, i, idParam, outbox, received, sent>>

SettingButton(p) ==
    /\ "setting" \in Inputs /\ Yielding
    /\ ImrSta' = [ImrSta EXCEPT !.lastpasspointid = p]
    /\ UNCHANGED <<ctrl, globalVar, task_Imr, hight, stack, i, idParam, outbox, received,
                   hist>>

SendRgButton ==
    /\ Yielding /\ conn = "none" /\ Undefined
    /\ UNCHANGED <<conn, session, timer, globalVar, task_Imr, ImrSta, hight, stack, i,
                   idParam, outbox, received, hist>>

Socket(c) ==
    /\ conn' = c
    /\ UNCHANGED <<alive, timer, globalVar, task_Imr, ImrSta, hight, stack, i, idParam,
                   outbox, received, hist>>

ConnectOn  == /\ Yielding /\ conn = "none" /\ session < MaxSession
              /\ session' = session + 1 /\ Socket("open")
ConnectOff == /\ "reconnect" \in Inputs /\ Yielding /\ conn # "none"
              /\ UNCHANGED session /\ Socket("none")
LinkLost   == /\ "drop" \in Inputs /\ Yielding /\ conn = "open"
              /\ UNCHANGED session /\ Socket("lost")

-----------------------------------------------------------------------------
ReceiveAT == \E m \in Missions : RejectAT(m) \/ AdoptAndDrive(m) \/ AdoptAndLoop(m)
Handler   == LoopSkip \/ LoopDone \/ LoopPoint \/ LoopEnd \/ SlotEnds
             \/ Arrive \/ Lifted \/ Block
Status    == \E p \in Place, h \in Heights : LinkP40(p, h)
Events    == \/ Timeout \/ SendStButton \/ StopButton
             \/ \E p \in PointIds : SettingButton(p)
             \/ SendRgButton \/ ConnectOn \/ ConnectOff \/ LinkLost
Next == ReceiveAT \/ Handler \/ StaleWait \/ Status \/ Events
Spec == Init /\ [][Next]_vars

-----------------------------------------------------------------------------
(* Properties.                                                             *)

Frame == [pc : {"loop", "pos", "waitPos", "height", "waitHeight", "slot"},
          sess : Nat, mode : {"first", "update"}]

\* Every variable keeps the type its C++ member has.
TypeOK ==
    /\ alive \in BOOLEAN /\ conn \in {"none", "open", "lost"} /\ session \in Nat
    /\ timer \in BOOLEAN /\ globalVar \in Nat
    /\ task_Imr = Mission0 \/ task_Imr \in Missions
    /\ ImrSta \in IMRState
    /\ hight \in Int
    /\ stack \in Seq(Frame) /\ i \in Nat \ {0} /\ idParam \in Action
    /\ outbox \in Seq(Signal) /\ received \in Nat
    /\ owed \subseteq Missions \X Nat
    /\ done \in Seq(Action) /\ sent \in Seq(Action)

\* Whenever a status frame can be sent, also from inside a wait, the order and
\* the key it carries are those of the mission being executed (updateStatus runs
\* before the first processEvents of every accepted mission).
StatusNamesMission ==
    Yielding => /\ ImrSta.orderid = task_Imr.orderid
                /\ ImrSta.missionkey = task_Imr.missionkey

\* While a handler waits in a slot of the current socket, nothing the nested event loop
\* runs, Stop excepted, takes away the point and the action it reads again after
\* processEvents returns, whatever older slots it is nested in.  (In the slot of a
\* socket that has been replaced it is not safe: the new socket can nest a handler.)
WaitInBounds ==
    alive /\ stack # << >> /\ Top.pc \in Waits /\ Top.sess = session
        /\ task_Imr # Mission0
        => i \in ActionPoints(task_Imr)

\* Completions are reported in order, none twice, and none is forgotten before
\* it has been put in a status frame (unless Stop clears the state).
CompletionsConserved == done = sent \o ImrSta.actionstates

\* doRcsAction is emitted only for an action of the mission being executed that
\* was accepted and has not been triggered since, whatever handlers are nested
\* and whatever interrupts them.
LiftOnlyOwed ==
    [][outbox' # outbox /\ outbox'[Len(outbox')].kind = "lift"
         => /\ <<task_Imr, i>> \in owed /\ <<task_Imr, i>> \notin owed'
            /\ outbox' = Append(outbox, Lift(task_Imr, i))
            /\ ImrSta.place = task_Imr.points[i].pointid]_vars

IsLift(s) == s.kind = "lift"
IsAim(s)  == s.kind = "aim"

\* The handlers that have told the P40 to lift and wait for it.
Lifting == {k \in 1..Len(stack) : stack[k].pc \in {"height", "waitHeight"}}

\* Every lift the robot was told to do is, once done, recorded as exactly one
\* completion; only those are missing that a handler still waits for (no Stop).
EveryLiftReported ==
    Cardinality({k \in 1..Len(outbox) : IsLift(outbox[k])}) = Len(done) + Cardinality(Lifting)

\* The aims queued for the P40 form one path: each repeats the one before or starts
\* where that ended (missions of two points, no Stop).
AimsChain ==
    \A k, n \in 1..Len(outbox) :
        /\ k < n /\ IsAim(outbox[k]) /\ IsAim(outbox[n])
        /\ \A j \in (k + 1)..(n - 1) : ~IsAim(outbox[j])
        => outbox[n] = outbox[k] \/ outbox[n].from = outbox[k].to

\* An accepted mission has had each of its actions triggered, or found already
\* done, when the last slot has returned (src/README.md:117: the robot accepts, updates
\* and triggers the action once the given point is reached).
ActionsServed == alive /\ stack = << >> => owed = {}

\* The completion recorded for an action carries the id and the param of that
\* action (src/README.md:121: completed actions are reported in actionstates).
CompletionNamesAction ==
    [][Len(done') > Len(done) => done' = Append(done, task_Imr.points[i].actions[1])]_vars

\* The actions of all missions.
Tasks   == UNION {{m} \X ActionPoints(m) : m \in Missions}
Service == INSTANCE MissionService WITH
               Tasks       <- Tasks,
               Command     <- [t \in Tasks |-> Lift(t[1], t[2])],
               Aims        <- {Aim(m) : m \in Missions},
               Completions <- {NoAction} \cup {t[1].points[t[2]].actions[1] : t \in Tasks},
               open        <- owed,
               signals     <- outbox,
               busy        <- Lifting,
               pending     <- ImrSta.actionstates

\* The robot keeps what it promises the RCS, with any nesting of its handlers: each
\* accepted action is triggered (doRcsAction) at most once, each completion ends one
\* lift, and each is reported once, in order.
KeepsPromise == Service!Spec
=============================================================================
